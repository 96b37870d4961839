-------------------------- MODULE ErrorResultProofs --------------------------
(***************************************************************************)
(* Proof that every block of ErrorResult has one owner.  The argument has  *)
(* two levels: inside a chain of causes no two fields name the same block  *)
(* (Neat), and the sets of blocks that two variables hold are apart, and   *)
(* together are the heap without what was lost (Books).  A step is then    *)
(* told by the sets it moves from one variable to another.                 *)
(***************************************************************************)
EXTENDS ErrorResult, FiniteSetTheorems, SequenceTheorems, TLAPS

Content == Blocks \union {"inline"}
Link == [at : Content, text : Content]

\* a chain of causes: its first link is the object itself, and no block is named
\* twice
Neat(c) ==
    /\ c \in Seq(Link)
    /\ Len(c) <= MaxChain
    /\ c # <<>> => c[1].at = "inline"
    /\ \A i, j \in DOMAIN c : c[i].at = c[j].at /\ c[i].at \in Blocks => i = j
    /\ \A i, j \in DOMAIN c : c[i].text = c[j].text /\ c[i].text \in Blocks => i = j
    /\ \A i, j \in DOMAIN c : c[i].at = c[j].text => c[i].at \notin Blocks

\* an object of Result: not made, a value, or an error with its chain
Sound(r) ==
    \/ r = None
    \/ r.value \in Blocks \union {"none"} /\ r = Ok(r.value)
    \/ Neat(r.chain) /\ r.chain # <<>> /\ r = Err(r.chain)

Shapes ==
    /\ DOMAIN error = Errors /\ \A e \in Errors : Neat(error[e])
    /\ DOMAIN result = Results /\ \A r \in Results : Sound(result[r])

\* no block is held by two variables, and the blocks in use that were not lost
\* are the ones that are held
Books ==
    /\ heap \subseteq Blocks /\ lost \subseteq heap
    /\ \A e, f \in Errors : e # f => BlocksOf(error[e]) \cap BlocksOf(error[f]) = {}
    /\ \A r, s \in Results : r # s => BlocksIn(result[r]) \cap BlocksIn(result[s]) = {}
    /\ \A e \in Errors, r \in Results : BlocksOf(error[e]) \cap BlocksIn(result[r]) = {}
    /\ \A b \in Blocks : b \in heap \ lost <=>
            \/ \E e \in Errors : b \in BlocksOf(error[e])
            \/ \E r \in Results : b \in BlocksIn(result[r])

OwnInv == Shapes /\ Books
-----------------------------------------------------------------------------
(* Chains *)

\* the blocks of a chain, field by field
LEMMA InBlocks ==
  ASSUME NEW c, NEW b
  PROVE  b \in BlocksOf(c) <=> b \in Blocks /\ \E i \in DOMAIN c : b = c[i].at \/ b = c[i].text
  BY DEF BlocksOf

\* A chain that was not made holds nothing.
LEMMA EmptyNeat == Neat(<<>>) /\ BlocksOf(<<>>) = {}
<1>1. DOMAIN <<>> = {}
  OBVIOUS
<1>2. Len(<<>>) = 0 /\ <<>> \in Seq(Link)
  OBVIOUS
<1> QED
  BY <1>1, <1>2, ErrorAssumption DEF Neat, BlocksOf

\* An object alone, with a text in the small buffer or in a block.
LEMMA SingleNeat ==
  ASSUME NEW t \in Content
  PROVE  /\ Neat(<<[at |-> "inline", text |-> t]>>)
         /\ BlocksOf(<<[at |-> "inline", text |-> t]>>) = {t} \cap Blocks
<1> DEFINE l == [at |-> "inline", text |-> t]
           c == <<l>>
<1>1. l \in Link
  BY DEF Link, Content
<1>2. c \in Seq(Link) /\ Len(c) = 1 /\ DOMAIN c = {1} /\ c[1] = l
  BY <1>1
<1>3. l.at = "inline" /\ l.text = t
  OBVIOUS
<1> HIDE DEF c, l
<1>4. Neat(c)
  BY <1>2, <1>3, ErrorAssumption DEF Neat
<1>5. BlocksOf(c) = {t} \cap Blocks
  BY <1>2, <1>3, ErrorAssumption DEF BlocksOf
<1> QED
  BY <1>4, <1>5 DEF c, l

\* What a move leaves of an object holds nothing.
LEMMA MovedNeat ==
  ASSUME NEW c, Neat(c), c # <<>>
  PROVE  /\ MovedFrom(c) = <<[at |-> "inline", text |-> "inline"]>>
         /\ Neat(MovedFrom(c)) /\ BlocksOf(MovedFrom(c)) = {} /\ MovedFrom(c) # <<>>
<1>1. MovedFrom(c) = <<[at |-> "inline", text |-> "inline"]>>
  BY DEF MovedFrom, Neat
<1>2. "inline" \in Content /\ {"inline"} \cap Blocks = {}
  BY ErrorAssumption DEF Content
<1>3. <<[at |-> "inline", text |-> "inline"]>> # <<>>
  OBVIOUS
<1> QED
  BY <1>1, <1>2, <1>3, SingleNeat

\* the links of a neat chain
LEMMA NeatLinks ==
  ASSUME NEW c, Neat(c)
  PROVE  /\ Len(c) \in Nat /\ DOMAIN c = 1..Len(c)
         /\ \A i \in DOMAIN c : c[i] \in Link /\ c[i].at \in Content /\ c[i].text \in Content
         /\ BlocksOf(c) \subseteq Blocks
<1>1. c \in Seq(Link)
  BY DEF Neat
<1>2. \A i \in DOMAIN c : c[i] \in Link
  BY <1>1
<1> QED
  BY <1>1, <1>2 DEF Link, BlocksOf

\* A copy has a block of its own for every block of the original.
LEMMA CopyNeat ==
  ASSUME NEW d, Neat(d), NEW c \in Copies(d)
  PROVE  Neat(c) /\ (c = <<>> <=> d = <<>>) /\ BlocksOf(c) \subseteq Free
<1>1. PICK f \in Injection(Needs(d), Free) : c = CopyInto(d, f)
  BY DEF Copies
<1>2. DOMAIN f = Needs(d) /\ \A x \in Needs(d) : f[x] \in Free
  BY <1>1 DEF Injection
<1>3. \A x, y \in Needs(d) : f[x] = f[y] => x = y
  BY <1>1 DEF Injection, IsInjective
<1>4. Len(d) \in Nat /\ DOMAIN d = 1..Len(d)
      /\ \A i \in DOMAIN d : d[i].at \in Content /\ d[i].text \in Content
  BY NeatLinks
<1>5. \A i \in DOMAIN d : /\ <<i, "at">> \in Needs(d) <=> d[i].at \in Blocks
                          /\ <<i, "text">> \in Needs(d) <=> d[i].text \in Blocks
  BY DEF Needs
<1>6. DOMAIN c = DOMAIN d
  BY <1>1 DEF CopyInto
<1>7. \A i \in DOMAIN d :
         /\ c[i].at = IF d[i].at \in Blocks THEN f[<<i, "at">>] ELSE d[i].at
         /\ c[i].text = IF d[i].text \in Blocks THEN f[<<i, "text">>] ELSE d[i].text
         /\ c[i] = [at |-> c[i].at, text |-> c[i].text]
  BY <1>1, <1>2, <1>5 DEF CopyInto
<1>8. \A i \in DOMAIN d : /\ d[i].at \in Blocks => c[i].at \in Free /\ c[i].at = f[<<i, "at">>]
                          /\ d[i].at \notin Blocks => c[i].at = "inline"
                          /\ d[i].text \in Blocks => c[i].text \in Free /\ c[i].text = f[<<i, "text">>]
                          /\ d[i].text \notin Blocks => c[i].text = "inline"
  BY <1>2, <1>4, <1>5, <1>7 DEF Content
<1>9. Free \subseteq Blocks /\ "inline" \notin Blocks
  BY ErrorAssumption DEF Free
<1>10. \A i \in DOMAIN c : /\ c[i].at \in Blocks => c[i].at \in Free
                           /\ c[i].text \in Blocks => c[i].text \in Free
                           /\ c[i].at \in Content /\ c[i].text \in Content
  BY <1>6, <1>8, <1>9 DEF Content
<1>11. c \in Seq(Link) /\ Len(c) = Len(d)
  <2>1. ASSUME NEW i \in DOMAIN c PROVE c[i] \in Link
    <3>1. c[i] = [at |-> c[i].at, text |-> c[i].text]
      BY <1>6, <1>7
    <3>2. c[i].at \in Content /\ c[i].text \in Content
      BY <1>10
    <3>3. [at |-> c[i].at, text |-> c[i].text] \in Link
      BY <3>2 DEF Link
    <3> QED
      BY <3>1, <3>3
  <2>2. c = [i \in 1..Len(d) |-> c[i]]
    BY <1>1, <1>4 DEF CopyInto
  <2> QED
    BY <2>1, <2>2, <1>4, <1>6, SeqDef, LenProperties
<1>12. ASSUME NEW i \in DOMAIN c, NEW j \in DOMAIN c, c[i].at = c[j].at, c[i].at \in Blocks
       PROVE  i = j
  <2>1. d[i].at \in Blocks /\ d[j].at \in Blocks
    BY <1>12, <1>6, <1>8, <1>9
  <2>2. f[<<i, "at">>] = f[<<j, "at">>]
    BY <2>1, <1>12, <1>6, <1>8
  <2>3. <<i, "at">> = <<j, "at">>
    BY <2>1, <2>2, <1>3, <1>5, <1>6
  <2> QED
    BY <2>3
<1>13. ASSUME NEW i \in DOMAIN c, NEW j \in DOMAIN c, c[i].text = c[j].text, c[i].text \in Blocks
       PROVE  i = j
  <2>1. d[i].text \in Blocks /\ d[j].text \in Blocks
    BY <1>13, <1>6, <1>8, <1>9
  <2>2. f[<<i, "text">>] = f[<<j, "text">>]
    BY <2>1, <1>13, <1>6, <1>8
  <2>3. <<i, "text">> = <<j, "text">>
    BY <2>1, <2>2, <1>3, <1>5, <1>6
  <2> QED
    BY <2>3
<1>14. ASSUME NEW i \in DOMAIN c, NEW j \in DOMAIN c, c[i].at = c[j].text, c[i].at \in Blocks
       PROVE  FALSE
  <2>1. d[i].at \in Blocks /\ d[j].text \in Blocks
    BY <1>14, <1>6, <1>8, <1>9
  <2>2. f[<<i, "at">>] = f[<<j, "text">>]
    BY <2>1, <1>14, <1>6, <1>8
  <2>3. <<i, "at">> = <<j, "text">>
    BY <2>1, <2>2, <1>3, <1>5, <1>6
  <2> QED
    BY <2>3
<1>15. c # <<>> => c[1].at = "inline"
  <2>1. ASSUME c # <<>> PROVE d # <<>> /\ 1 \in DOMAIN d
    <3>1. Len(c) # 0
      BY <2>1, <1>11
    <3>2. Len(d) # 0
      BY <3>1, <1>11
    <3> QED
      BY <3>2, <1>4
  <2>2. d # <<>> => d[1].at \notin Blocks
    BY <1>9 DEF Neat
  <2> QED
    BY <2>1, <2>2, <1>8
<1>16. Neat(c)
  BY <1>11, <1>12, <1>13, <1>14, <1>15 DEF Neat
<1>17. BlocksOf(c) \subseteq Free
  BY <1>10, InBlocks
<1>18. c = <<>> <=> d = <<>>
  BY <1>11 DEF Neat
<1> QED
  BY <1>16, <1>17, <1>18

Caused(d, c, at) == <<Head(d)>> \o [c EXCEPT ![1].at = at]

\* A chain put behind an object, its head in a block of its own: what the object
\* had behind it is left out.
LEMMA CauseNeat ==
  ASSUME NEW d, Neat(d), d # <<>>, NEW c, Neat(c), c # <<>>, Len(c) < MaxChain,
         NEW at \in Blocks, at \notin BlocksOf(d), at \notin BlocksOf(c),
         BlocksOf(d) \cap BlocksOf(c) = {}
  PROVE  /\ Neat(Caused(d, c, at)) /\ Caused(d, c, at) # <<>>
         /\ BlocksOf(Caused(d, c, at)) =
               (BlocksOf(d) \ BlocksOf(Tail(d))) \union BlocksOf(c) \union {at}
<1> DEFINE m == [c EXCEPT ![1].at = at]
           n == <<Head(d)>> \o m
<1>1. /\ Len(d) \in Nat /\ DOMAIN d = 1..Len(d) /\ Len(c) \in Nat /\ DOMAIN c = 1..Len(c)
      /\ \A i \in DOMAIN d : d[i] \in Link /\ d[i].at \in Content /\ d[i].text \in Content
      /\ \A i \in DOMAIN c : c[i] \in Link /\ c[i].at \in Content /\ c[i].text \in Content
  BY NeatLinks
<1>2. d \in Seq(Link) /\ c \in Seq(Link) /\ d[1].at = "inline" /\ c[1].at = "inline"
  BY DEF Neat
<1>3. Len(d) >= 1 /\ Len(c) >= 1 /\ 1 \in DOMAIN d /\ 1 \in DOMAIN c
  BY <1>1, <1>2
<1>4. /\ DOMAIN m = DOMAIN c
      /\ m[1] = [c[1] EXCEPT !.at = at]
      /\ \A i \in DOMAIN c : i # 1 => m[i] = c[i]
  BY <1>3
<1>5. m[1].at = at /\ m[1].text = c[1].text /\ m[1] \in Link
  <2>1. c[1] \in Link /\ c[1].text \in Content /\ at \in Content
    BY <1>1, <1>3 DEF Content
  <2> QED
    BY <2>1, <1>4 DEF Link
<1>6. m \in Seq(Link) /\ Len(m) = Len(c)
  <2>1. \A i \in DOMAIN c : m[i] \in Link
    BY <1>1, <1>4, <1>5
  <2>2. m \in [1..Len(c) -> Link]
    BY <2>1, <1>1, <1>4
  <2>3. m \in Seq(Link)
    BY <2>2, <1>1, SeqDef
  <2> QED
    BY <2>3, <1>1, <1>4, LenProperties
<1>7. Head(d) = d[1] /\ <<Head(d)>> \in Seq(Link) /\ Len(<<Head(d)>>) = 1 /\ <<Head(d)>>[1] = d[1]
  BY <1>1, <1>2, <1>3
<1>8. n \in Seq(Link) /\ Len(n) = 1 + Len(c)
      /\ \A i \in 1 .. 1 + Len(c) : n[i] = IF i <= 1 THEN <<Head(d)>>[i] ELSE m[i - 1]
  BY <1>6, <1>7, ConcatProperties
<1>9. /\ DOMAIN n = 1 .. Len(c) + 1
      /\ n[1] = d[1]
      /\ \A i \in DOMAIN c : i + 1 \in DOMAIN n /\ n[i + 1] = m[i]
      /\ \A i \in DOMAIN n : i # 1 => i - 1 \in DOMAIN c /\ n[i] = m[i - 1]
  <2>1. DOMAIN n = 1 .. Len(c) + 1
    BY <1>1, <1>8, LenProperties
  <2>2. n[1] = d[1]
    BY <1>1, <1>7, <1>8
  <2>3. \A i \in DOMAIN c : i + 1 \in 1 .. 1 + Len(c) /\ ~ (i + 1 <= 1) /\ (i + 1) - 1 = i
    BY <1>1
  <2>4. \A i \in 1 .. Len(c) + 1 : i # 1 => i - 1 \in DOMAIN c /\ ~ (i <= 1) /\ i \in 1 .. 1 + Len(c)
    BY <1>1
  <2>5. \A i \in DOMAIN c : n[i + 1] = m[i]
    BY <1>8, <2>3
  <2>6. \A i \in 1 .. Len(c) + 1 : i # 1 => n[i] = m[i - 1]
    BY <1>8, <2>4
  <2>7. \A i \in DOMAIN c : i + 1 \in DOMAIN n
    BY <2>1, <2>3, <1>1
  <2> QED
    BY <2>1, <2>2, <2>4, <2>5, <2>6, <2>7
<1>10. /\ n[1].at = "inline" /\ n[1].text = d[1].text
       /\ \A i \in DOMAIN n : i # 1 => /\ i - 1 \in DOMAIN c
                                       /\ n[i].at = IF i = 2 THEN at ELSE c[i - 1].at
                                       /\ n[i].text = c[i - 1].text
  BY <1>2, <1>4, <1>5, <1>9
<1> HIDE DEF n, m
<1>11. "inline" \notin Blocks
  BY ErrorAssumption
<1>12. /\ d[1].text \in Blocks => d[1].text \in BlocksOf(d)
       /\ \A i \in DOMAIN c : /\ c[i].at \in Blocks => c[i].at \in BlocksOf(c)
                              /\ c[i].text \in Blocks => c[i].text \in BlocksOf(c)
  BY <1>3, InBlocks
<1>13. /\ \A i, j \in DOMAIN c : c[i].at = c[j].at /\ c[i].at \in Blocks => i = j
       /\ \A i, j \in DOMAIN c : c[i].text = c[j].text /\ c[i].text \in Blocks => i = j
       /\ \A i, j \in DOMAIN c : c[i].at = c[j].text => c[i].at \notin Blocks
  BY DEF Neat
<1>14. ASSUME NEW i \in DOMAIN n, NEW j \in DOMAIN n, n[i].at = n[j].at, n[i].at \in Blocks
       PROVE  i = j
  <2>1. i # 1 /\ j # 1
    BY <1>14, <1>10, <1>11
  <2>2. i - 1 \in DOMAIN c /\ j - 1 \in DOMAIN c /\ i \in Int /\ j \in Int
    BY <2>1, <1>10, <1>9
  <2>3. i = 2 <=> j = 2
    BY <2>1, <2>2, <1>10, <1>12, <1>14
  <2>4. CASE i # 2
    <3>1. c[i - 1].at = c[j - 1].at /\ c[i - 1].at \in Blocks
      BY <2>1, <2>3, <2>4, <1>10, <1>14
    <3>2. i - 1 = j - 1
      BY <3>1, <2>2, <1>13
    <3> QED
      BY <3>2, <2>2
  <2> QED
    BY <2>3, <2>4
<1>15. ASSUME NEW i \in DOMAIN n, NEW j \in DOMAIN n, n[i].text = n[j].text, n[i].text \in Blocks
       PROVE  i = j
  <2>1. i \in Int /\ j \in Int
    BY <1>1, <1>9
  <2>2. i = 1 <=> j = 1
    BY <1>10, <1>12, <1>15
  <2>3. CASE i # 1
    <3>1. c[i - 1].text = c[j - 1].text /\ c[i - 1].text \in Blocks
          /\ i - 1 \in DOMAIN c /\ j - 1 \in DOMAIN c
      BY <2>2, <2>3, <1>10, <1>15
    <3>2. i - 1 = j - 1
      BY <3>1, <1>13
    <3> QED
      BY <3>2, <2>1
  <2> QED
    BY <2>2, <2>3
<1>16. ASSUME NEW i \in DOMAIN n, NEW j \in DOMAIN n, n[i].at = n[j].text, n[i].at \in Blocks
       PROVE  FALSE
  <2>1. i # 1
    BY <1>16, <1>10, <1>11
  <2>2. CASE i = 2
    BY <2>2, <1>10, <1>12, <1>16
  <2>3. CASE i # 2
    <3>1. i - 1 \in DOMAIN c /\ n[i].at = c[i - 1].at /\ c[i - 1].at \in BlocksOf(c)
      BY <2>1, <2>3, <1>10, <1>12, <1>16
    <3>2. j # 1
      BY <3>1, <1>10, <1>12, <1>16
    <3>3. j - 1 \in DOMAIN c /\ n[j].text = c[j - 1].text
      BY <3>2, <1>10
    <3> QED
      BY <3>1, <3>3, <1>13, <1>16
  <2> QED
    BY <2>2, <2>3
<1>17. Len(n) <= MaxChain /\ n # <<>>
  <2>1. Len(n) = 1 + Len(c) /\ Len(n) # 0
    BY <1>1, <1>8 DEF n, m
  <2> QED
    BY <2>1, <1>1, ErrorAssumption
<1>18. Neat(n)
  <2>1. n \in Seq(Link)
    BY <1>8 DEF n, m
  <2> QED
    BY <2>1, <1>10, <1>14, <1>15, <1>16, <1>17 DEF Neat
<1>19. BlocksOf(n) = ({d[1].text} \cap Blocks) \union BlocksOf(c) \union {at}
  <2>1. ASSUME NEW b \in BlocksOf(n)
        PROVE  b \in ({d[1].text} \cap Blocks) \union BlocksOf(c) \union {at}
    <3>1. PICK i \in DOMAIN n : b \in Blocks /\ (b = n[i].at \/ b = n[i].text)
      BY <2>1, InBlocks
    <3>2. CASE i = 1
      BY <3>1, <3>2, <1>10, <1>11
    <3>3. CASE i # 1
      BY <3>1, <3>3, <1>10, <1>12
    <3> QED
      BY <3>2, <3>3
  <2>2. \A i \in DOMAIN c : i + 1 \in DOMAIN n /\ i + 1 # 1 /\ (i + 1) - 1 = i
    BY <1>1, <1>9
  <2>3. at \in BlocksOf(n)
    <3>1. 2 \in DOMAIN n /\ 2 # 1
      BY <1>1, <1>3, <1>9
    <3>2. n[2].at = at
      BY <3>1, <1>10
    <3> QED
      BY <3>1, <3>2, InBlocks
  <2>4. {d[1].text} \cap Blocks \subseteq BlocksOf(n)
    <3>1. 1 \in DOMAIN n
      BY <1>1, <1>9
    <3> QED
      BY <3>1, <1>10, InBlocks
  <2>5. ASSUME NEW b \in BlocksOf(c) PROVE b \in BlocksOf(n)
    <3>1. PICK i \in DOMAIN c : b \in Blocks /\ (b = c[i].at \/ b = c[i].text)
      BY <2>5, InBlocks
    <3>2. n[i + 1].text = c[i].text /\ i + 1 \in DOMAIN n
      BY <2>2, <1>10
    <3>3. CASE b = c[i].text
      BY <3>1, <3>2, <3>3, InBlocks
    <3>4. CASE b = c[i].at
      <4>1. i # 1
        BY <3>1, <3>4, <1>2, <1>11
      <4>2. i + 1 # 2
        BY <4>1, <1>1
      <4>3. n[i + 1].at = c[i].at
        BY <4>2, <2>2, <1>10
      <4> QED
        BY <3>1, <3>2, <3>4, <4>3, InBlocks
    <3> QED
      BY <3>1, <3>3, <3>4
  <2> QED
    BY <2>1, <2>3, <2>4, <2>5
<1>20. BlocksOf(d) \ BlocksOf(Tail(d)) = {d[1].text} \cap Blocks
  <2>1. Len(Tail(d)) = Len(d) - 1 /\ \A i \in 1 .. Len(d) - 1 : Tail(d)[i] = d[i + 1]
    BY <1>2, <1>3, HeadTailProperties
  <2>2. DOMAIN Tail(d) = 1 .. Len(d) - 1
    BY <2>1, <1>1, <1>2, <1>3, HeadTailProperties, LenProperties
  <2>3. ASSUME NEW b \in BlocksOf(d), b \notin BlocksOf(Tail(d)) PROVE b = d[1].text
    <3>1. PICK i \in DOMAIN d : b \in Blocks /\ (b = d[i].at \/ b = d[i].text)
      BY <2>3, InBlocks
    <3>2. CASE i = 1
      BY <3>1, <3>2, <1>2, <1>11
    <3>3. CASE i # 1
      <4>1. i - 1 \in DOMAIN Tail(d) /\ (i - 1) + 1 = i
        BY <3>3, <1>1, <2>2
      <4>2. Tail(d)[i - 1] = d[i]
        BY <4>1, <2>1, <2>2
      <4>3. b \in BlocksOf(Tail(d))
        BY <3>1, <4>1, <4>2, InBlocks
      <4> QED
        BY <4>3, <2>3
    <3> QED
      BY <3>2, <3>3
  <2>4. ASSUME d[1].text \in Blocks, d[1].text \in BlocksOf(Tail(d)) PROVE FALSE
    <3>1. PICK i \in DOMAIN Tail(d) : d[1].text = Tail(d)[i].at \/ d[1].text = Tail(d)[i].text
      <4>1. \E i \in DOMAIN Tail(d) : d[1].text = Tail(d)[i].at \/ d[1].text = Tail(d)[i].text
        BY <2>4 DEF BlocksOf
      <4> QED
        BY <4>1
    <3>2. Tail(d)[i] = d[i + 1] /\ i + 1 \in DOMAIN d /\ i + 1 # 1
      BY <2>1, <2>2, <1>1
    <3>3. d[1].text = d[i + 1].at \/ d[1].text = d[i + 1].text
      BY <3>1, <3>2
    <3>4. CASE d[1].text = d[i + 1].at
      BY <3>2, <3>4, <2>4, <1>3 DEF Neat
    <3>5. CASE d[1].text = d[i + 1].text
      BY <3>2, <3>5, <2>4, <1>3 DEF Neat
    <3> QED
      BY <3>3, <3>4, <3>5
  <2> QED
    BY <2>3, <2>4, <1>3, <1>12, InBlocks
<1> QED
  BY <1>17, <1>18, <1>19, <1>20 DEF n, m, Caused

\* what is behind an object holds no more than the whole chain
LEMMA TailHolds ==
  ASSUME NEW d, Neat(d), d # <<>>
  PROVE  BlocksOf(Tail(d)) \subseteq BlocksOf(d)
<1>1. Len(d) \in Nat /\ DOMAIN d = 1..Len(d) /\ Len(d) >= 1 /\ d \in Seq(Link)
  BY NeatLinks DEF Neat
<1>2. Tail(d) \in Seq(Link) /\ Len(Tail(d)) = Len(d) - 1
      /\ \A i \in 1 .. Len(d) - 1 : Tail(d)[i] = d[i + 1]
  BY <1>1, HeadTailProperties
<1>3. DOMAIN Tail(d) = 1 .. Len(d) - 1
  BY <1>1, <1>2, LenProperties
<1>4. \A i \in DOMAIN Tail(d) : i + 1 \in DOMAIN d /\ Tail(d)[i] = d[i + 1]
  BY <1>1, <1>2, <1>3
<1>5. ASSUME NEW b \in BlocksOf(Tail(d)) PROVE b \in BlocksOf(d)
  <2>1. PICK i \in DOMAIN Tail(d) : b \in Blocks /\ (b = Tail(d)[i].at \/ b = Tail(d)[i].text)
    <3>1. \E i \in DOMAIN Tail(d) : b \in Blocks /\ (b = Tail(d)[i].at \/ b = Tail(d)[i].text)
      BY <1>5 DEF BlocksOf
    <3> QED
      BY <3>1
  <2> QED
    BY <2>1, <1>4, InBlocks
<1> QED
  BY <1>5

-----------------------------------------------------------------------------
(* Objects of Result *)

\* what each kind of object holds
LEMMA ResultHolds ==
  /\ Sound(None) /\ BlocksIn(None) = {}
  /\ \A v \in Blocks \union {"none"} :
        Sound(Ok(v)) /\ Ok(v) # None /\ BlocksIn(Ok(v)) = {v} \cap Blocks
  /\ \A c : Neat(c) /\ c # <<>> =>
        Sound(Err(c)) /\ Err(c) # None /\ BlocksIn(Err(c)) = BlocksOf(c)
<1>1. Sound(None) /\ BlocksIn(None) = {}
  BY DEF Sound, BlocksIn
<1>2. ASSUME NEW v \in Blocks \union {"none"}
      PROVE  Sound(Ok(v)) /\ Ok(v) # None /\ BlocksIn(Ok(v)) = {v} \cap Blocks
  <2>1. Ok(v).value = v /\ Ok(v).chain = <<>> /\ Ok(v).life = "alive" /\ None.life = "none"
    BY DEF Ok, None
  <2>2. Ok(v) # None
    BY <2>1
  <2>3. BlocksIn(Ok(v)) = {v} \cap Blocks
    BY <2>1, <2>2, EmptyNeat DEF BlocksIn
  <2>4. Sound(Ok(v))
    BY <2>1 DEF Sound
  <2> QED
    BY <2>2, <2>3, <2>4
<1>3. ASSUME NEW c, Neat(c), c # <<>>
      PROVE  Sound(Err(c)) /\ Err(c) # None /\ BlocksIn(Err(c)) = BlocksOf(c)
  <2>1. Err(c).value = "none" /\ Err(c).chain = c /\ Err(c).life = "alive" /\ None.life = "none"
    BY DEF Err, None
  <2>2. Err(c) # None
    BY <2>1
  <2>3. BlocksIn(Err(c)) = BlocksOf(c)
    BY <2>1, <2>2, ErrorAssumption DEF BlocksIn
  <2>4. Sound(Err(c))
    BY <1>3, <2>1 DEF Sound
  <2> QED
    BY <2>2, <2>3, <2>4
<1> QED
  BY <1>1, <1>2, <1>3

\* an object that was made, in either state
LEMMA ResultKinds ==
  ASSUME NEW r, Sound(r), r # None
  PROVE  /\ r.ok => r = Ok(r.value) /\ r.value \in Blocks \union {"none"}
         /\ ~ r.ok => r = Err(r.chain) /\ Neat(r.chain) /\ r.chain # <<>>
         /\ r.ok \in BOOLEAN
<1>1. \A v : Ok(v).ok = TRUE
  BY DEF Ok
<1>2. \A c : Err(c).ok = FALSE
  BY DEF Err
<1>3. CASE r.value \in Blocks \union {"none"} /\ r = Ok(r.value)
  <2>1. r.ok = TRUE
    BY <1>1, <1>3
  <2> QED
    BY <2>1, <1>3
<1>4. CASE Neat(r.chain) /\ r.chain # <<>> /\ r = Err(r.chain)
  <2>1. r.ok = FALSE
    BY <1>2, <1>4
  <2> QED
    BY <2>1, <1>4
<1> QED
  BY <1>3, <1>4 DEF Sound

\* the source of a move holds nothing
LEMMA EmptiedHolds ==
  ASSUME Shapes, NEW s \in Results, result[s] # None
  PROVE  Sound(Emptied(s)) /\ Emptied(s) # None /\ BlocksIn(Emptied(s)) = {}
<1>1. Sound(result[s])
  BY DEF Shapes
<1>2. CASE result[s].ok
  <2>1. Emptied(s) = Ok("none") /\ {"none"} \cap Blocks = {}
    BY <1>2, ErrorAssumption DEF Emptied
  <2> QED
    BY <2>1, ResultHolds
<1>3. CASE ~ result[s].ok
  <2>1. Neat(result[s].chain) /\ result[s].chain # <<>>
    BY <1>1, <1>3, ResultKinds
  <2>2. Emptied(s) = Err(MovedFrom(result[s].chain))
    BY <1>3 DEF Emptied
  <2> QED
    BY <2>1, <2>2, MovedNeat, ResultHolds
<1> QED
  BY <1>2, <1>3

-----------------------------------------------------------------------------
(* The effects of the steps on the books *)

\* what the books say of what a variable holds
LEMMA BooksSay ==
  ASSUME Books
  PROVE  /\ \A e \in Errors : BlocksOf(error[e]) \subseteq heap \ lost
         /\ \A r \in Results : BlocksIn(result[r]) \subseteq heap \ lost
  BY DEF Books, BlocksOf, BlocksIn

\* One Error gives up what it held and takes blocks that were its own or free.
LEMMA OneErrorStep ==
  ASSUME Books, NEW e \in Errors,
         \A f \in Errors \ {e} : BlocksOf(error[f])' = BlocksOf(error[f]),
         \A r \in Results : BlocksIn(result[r])' = BlocksIn(result[r]),
         NEW N, BlocksOf(error[e])' = N, N \subseteq BlocksOf(error[e]) \union Free,
         heap' = (heap \ BlocksOf(error[e])) \union N, lost' = lost
  PROVE  Books'
<1> DEFINE EB(f) == BlocksOf(error[f])
           RB(r) == BlocksIn(result[r])
<1>1. /\ \A f \in Errors : EB(f) \subseteq heap \ lost
      /\ \A r \in Results : RB(r) \subseteq heap \ lost
  BY BooksSay
<1>2. heap \subseteq Blocks /\ lost \subseteq heap /\ Free = Blocks \ heap
  BY DEF Books, Free
<1>3. /\ \A f, g \in Errors : f # g => EB(f) \cap EB(g) = {}
      /\ \A r, s \in Results : r # s => RB(r) \cap RB(s) = {}
      /\ \A f \in Errors, r \in Results : EB(f) \cap RB(r) = {}
      /\ \A b \in Blocks : b \in heap \ lost <=>
            (\E f \in Errors : b \in EB(f)) \/ (\E r \in Results : b \in RB(r))
  BY DEF Books
<1>4. /\ \A f \in Errors \ {e} : EB(f)' = EB(f)
      /\ \A r \in Results : RB(r)' = RB(r)
      /\ EB(e)' = N /\ N \subseteq EB(e) \union Free
      /\ heap' = (heap \ EB(e)) \union N /\ lost' = lost
  OBVIOUS
<1> HIDE DEF EB, RB
<1>5. heap' \subseteq Blocks /\ lost' \subseteq heap'
  BY <1>1, <1>2, <1>4
<1>6. \A f \in Errors \ {e} : EB(f) \cap N = {}
  BY <1>1, <1>2, <1>3, <1>4
<1>7. \A r \in Results : RB(r) \cap N = {}
  BY <1>1, <1>2, <1>3, <1>4
<1>8. \A f, g \in Errors : f # g => EB(f)' \cap EB(g)' = {}
  BY <1>3, <1>4, <1>6
<1>9. \A r, s \in Results : r # s => RB(r)' \cap RB(s)' = {}
  BY <1>3, <1>4
<1>10. \A f \in Errors, r \in Results : EB(f)' \cap RB(r)' = {}
  BY <1>3, <1>4, <1>7
<1>11. ASSUME NEW b \in Blocks
       PROVE  b \in heap' \ lost' <=>
                 (\E f \in Errors : b \in EB(f)') \/ (\E r \in Results : b \in RB(r)')
  BY <1>1, <1>2, <1>3, <1>4
<1> QED
  BY <1>5, <1>8, <1>9, <1>10, <1>11 DEF Books, EB, RB

\* One Error takes from another, which is left with nothing.
LEMMA TwoErrorsStep ==
  ASSUME Books, NEW e \in Errors, NEW d \in Errors, e # d,
         \A f \in Errors \ {e, d} : BlocksOf(error[f])' = BlocksOf(error[f]),
         \A r \in Results : BlocksIn(result[r])' = BlocksIn(result[r]),
         NEW N, BlocksOf(error[e])' = N, BlocksOf(error[d])' = {},
         N \subseteq BlocksOf(error[e]) \union BlocksOf(error[d]) \union Free,
         heap' = (heap \ (BlocksOf(error[e]) \union BlocksOf(error[d]))) \union N, lost' = lost
  PROVE  Books'
<1> DEFINE EB(f) == BlocksOf(error[f])
           RB(r) == BlocksIn(result[r])
<1>1. /\ \A f \in Errors : EB(f) \subseteq heap \ lost
      /\ \A r \in Results : RB(r) \subseteq heap \ lost
  BY BooksSay
<1>2. heap \subseteq Blocks /\ lost \subseteq heap /\ Free = Blocks \ heap
  BY DEF Books, Free
<1>3. /\ \A f, g \in Errors : f # g => EB(f) \cap EB(g) = {}
      /\ \A r, s \in Results : r # s => RB(r) \cap RB(s) = {}
      /\ \A f \in Errors, r \in Results : EB(f) \cap RB(r) = {}
      /\ \A b \in Blocks : b \in heap \ lost <=>
            (\E f \in Errors : b \in EB(f)) \/ (\E r \in Results : b \in RB(r))
  BY DEF Books
<1>4. /\ \A f \in Errors \ {e, d} : EB(f)' = EB(f)
      /\ \A r \in Results : RB(r)' = RB(r)
      /\ EB(e)' = N /\ EB(d)' = {} /\ N \subseteq EB(e) \union EB(d) \union Free
      /\ heap' = (heap \ (EB(e) \union EB(d))) \union N /\ lost' = lost
  OBVIOUS
<1> HIDE DEF EB, RB
<1>5. heap' \subseteq Blocks /\ lost' \subseteq heap'
  BY <1>1, <1>2, <1>4
<1>6. \A f \in Errors \ {e, d} : EB(f) \cap N = {}
  BY <1>1, <1>2, <1>3, <1>4
<1>7. \A r \in Results : RB(r) \cap N = {}
  BY <1>1, <1>2, <1>3, <1>4
<1>8. \A f, g \in Errors : f # g => EB(f)' \cap EB(g)' = {}
  BY <1>3, <1>4, <1>6
<1>9. \A r, s \in Results : r # s => RB(r)' \cap RB(s)' = {}
  BY <1>3, <1>4, <1>7
<1>10. \A f \in Errors, r \in Results : EB(f)' \cap RB(r)' = {}
  BY <1>3, <1>4, <1>6, <1>7
<1>11. ASSUME NEW b \in Blocks
       PROVE  b \in heap' \ lost' <=>
                 (\E f \in Errors : b \in EB(f)') \/ (\E r \in Results : b \in RB(r)')
  BY <1>1, <1>2, <1>3, <1>4
<1> QED
  BY <1>5, <1>8, <1>9, <1>10, <1>11 DEF Books, EB, RB

\* One Result gives up what it held and takes blocks that were its own or free.
LEMMA OneResultStep ==
  ASSUME Books, NEW q \in Results,
         \A f \in Errors : BlocksOf(error[f])' = BlocksOf(error[f]),
         \A r \in Results \ {q} : BlocksIn(result[r])' = BlocksIn(result[r]),
         NEW N, BlocksIn(result[q])' = N, N \subseteq BlocksIn(result[q]) \union Free,
         heap' = (heap \ BlocksIn(result[q])) \union N, lost' = lost
  PROVE  Books'
<1> DEFINE EB(f) == BlocksOf(error[f])
           RB(r) == BlocksIn(result[r])
<1>1. /\ \A f \in Errors : EB(f) \subseteq heap \ lost
      /\ \A r \in Results : RB(r) \subseteq heap \ lost
  BY BooksSay
<1>2. heap \subseteq Blocks /\ lost \subseteq heap /\ Free = Blocks \ heap
  BY DEF Books, Free
<1>3. /\ \A f, g \in Errors : f # g => EB(f) \cap EB(g) = {}
      /\ \A r, s \in Results : r # s => RB(r) \cap RB(s) = {}
      /\ \A f \in Errors, r \in Results : EB(f) \cap RB(r) = {}
      /\ \A b \in Blocks : b \in heap \ lost <=>
            (\E f \in Errors : b \in EB(f)) \/ (\E r \in Results : b \in RB(r))
  BY DEF Books
<1>4. /\ \A f \in Errors : EB(f)' = EB(f)
      /\ \A r \in Results \ {q} : RB(r)' = RB(r)
      /\ RB(q)' = N /\ N \subseteq RB(q) \union Free
      /\ heap' = (heap \ RB(q)) \union N /\ lost' = lost
  OBVIOUS
<1> HIDE DEF EB, RB
<1>5. heap' \subseteq Blocks /\ lost' \subseteq heap'
  BY <1>1, <1>2, <1>4
<1>6. \A f \in Errors : EB(f) \cap N = {}
  BY <1>1, <1>2, <1>3, <1>4
<1>7. \A r \in Results \ {q} : RB(r) \cap N = {}
  BY <1>1, <1>2, <1>3, <1>4
<1>8. \A f, g \in Errors : f # g => EB(f)' \cap EB(g)' = {}
  BY <1>3, <1>4, <1>6
<1>9. \A r, s \in Results : r # s => RB(r)' \cap RB(s)' = {}
  BY <1>3, <1>4, <1>7
<1>10. \A f \in Errors, r \in Results : EB(f)' \cap RB(r)' = {}
  BY <1>3, <1>4, <1>6, <1>7
<1>11. ASSUME NEW b \in Blocks
       PROVE  b \in heap' \ lost' <=>
                 (\E f \in Errors : b \in EB(f)') \/ (\E r \in Results : b \in RB(r)')
  BY <1>1, <1>2, <1>3, <1>4
<1> QED
  BY <1>5, <1>8, <1>9, <1>10, <1>11 DEF Books, EB, RB

\* One Result takes from another, which is left with nothing; what the first held
\* is freed or lost.
LEMMA TwoResultsStep ==
  ASSUME Books, NEW q \in Results, NEW p \in Results, q # p,
         \A f \in Errors : BlocksOf(error[f])' = BlocksOf(error[f]),
         \A r \in Results \ {q, p} : BlocksIn(result[r])' = BlocksIn(result[r]),
         NEW N, BlocksIn(result[q])' = N, BlocksIn(result[p])' = {},
         N \subseteq BlocksIn(result[q]) \union BlocksIn(result[p]) \union Free,
         heap' \ lost' = ((heap \ lost) \ (BlocksIn(result[q]) \union BlocksIn(result[p]))) \union N,
         heap' \subseteq Blocks, lost' \subseteq heap'
  PROVE  Books'
<1> DEFINE EB(f) == BlocksOf(error[f])
           RB(r) == BlocksIn(result[r])
<1>1. /\ \A f \in Errors : EB(f) \subseteq heap \ lost
      /\ \A r \in Results : RB(r) \subseteq heap \ lost
  BY BooksSay
<1>2. heap \subseteq Blocks /\ lost \subseteq heap /\ Free = Blocks \ heap
  BY DEF Books, Free
<1>3. /\ \A f, g \in Errors : f # g => EB(f) \cap EB(g) = {}
      /\ \A r, s \in Results : r # s => RB(r) \cap RB(s) = {}
      /\ \A f \in Errors, r \in Results : EB(f) \cap RB(r) = {}
      /\ \A b \in Blocks : b \in heap \ lost <=>
            (\E f \in Errors : b \in EB(f)) \/ (\E r \in Results : b \in RB(r))
  BY DEF Books
<1>4. /\ \A f \in Errors : EB(f)' = EB(f)
      /\ \A r \in Results \ {q, p} : RB(r)' = RB(r)
      /\ RB(q)' = N /\ RB(p)' = {} /\ N \subseteq RB(q) \union RB(p) \union Free
      /\ heap' \ lost' = ((heap \ lost) \ (RB(q) \union RB(p))) \union N
      /\ heap' \subseteq Blocks /\ lost' \subseteq heap'
  OBVIOUS
<1> HIDE DEF EB, RB
<1>5. heap' \subseteq Blocks /\ lost' \subseteq heap'
  BY <1>1, <1>2, <1>4
<1>6. \A f \in Errors : EB(f) \cap N = {}
  BY <1>1, <1>2, <1>3, <1>4
<1>7. \A r \in Results \ {q, p} : RB(r) \cap N = {}
  BY <1>1, <1>2, <1>3, <1>4
<1>8. \A f, g \in Errors : f # g => EB(f)' \cap EB(g)' = {}
  BY <1>3, <1>4, <1>6
<1>9. \A r, s \in Results : r # s => RB(r)' \cap RB(s)' = {}
  BY <1>3, <1>4, <1>7
<1>10. \A f \in Errors, r \in Results : EB(f)' \cap RB(r)' = {}
  BY <1>3, <1>4, <1>6, <1>7
<1>11. ASSUME NEW b \in Blocks
       PROVE  b \in heap' \ lost' <=>
                 (\E f \in Errors : b \in EB(f)') \/ (\E r \in Results : b \in RB(r)')
  BY <1>1, <1>2, <1>3, <1>4
<1> QED
  BY <1>5, <1>8, <1>9, <1>10, <1>11 DEF Books, EB, RB

\* A Result that held nothing takes what an Error held.
LEMMA HandOverStep ==
  ASSUME Books, NEW e \in Errors, NEW q \in Results,
         \A f \in Errors \ {e} : BlocksOf(error[f])' = BlocksOf(error[f]),
         \A r \in Results \ {q} : BlocksIn(result[r])' = BlocksIn(result[r]),
         BlocksIn(result[q]) = {}, BlocksIn(result[q])' = BlocksOf(error[e]),
         BlocksOf(error[e])' = {}, heap' = heap, lost' = lost
  PROVE  Books'
<1> DEFINE EB(f) == BlocksOf(error[f])
           RB(r) == BlocksIn(result[r])
<1>1. /\ \A f \in Errors : EB(f) \subseteq heap \ lost
      /\ \A r \in Results : RB(r) \subseteq heap \ lost
  BY BooksSay
<1>2. heap \subseteq Blocks /\ lost \subseteq heap /\ Free = Blocks \ heap
  BY DEF Books, Free
<1>3. /\ \A f, g \in Errors : f # g => EB(f) \cap EB(g) = {}
      /\ \A r, s \in Results : r # s => RB(r) \cap RB(s) = {}
      /\ \A f \in Errors, r \in Results : EB(f) \cap RB(r) = {}
      /\ \A b \in Blocks : b \in heap \ lost <=>
            (\E f \in Errors : b \in EB(f)) \/ (\E r \in Results : b \in RB(r))
  BY DEF Books
<1>4. /\ \A f \in Errors \ {e} : EB(f)' = EB(f)
      /\ \A r \in Results \ {q} : RB(r)' = RB(r)
      /\ RB(q) = {} /\ RB(q)' = EB(e) /\ EB(e)' = {} /\ heap' = heap /\ lost' = lost
  OBVIOUS
<1> HIDE DEF EB, RB
<1>5. heap' \subseteq Blocks /\ lost' \subseteq heap'
  BY <1>1, <1>2, <1>4
<1>6. \A f \in Errors \ {e} : EB(f) \cap EB(e) = {}
  BY <1>1, <1>2, <1>3, <1>4
<1>7. \A r \in Results : RB(r) \cap EB(e) = {}
  BY <1>1, <1>2, <1>3, <1>4
<1>8. \A f, g \in Errors : f # g => EB(f)' \cap EB(g)' = {}
  BY <1>3, <1>4, <1>6
<1>9. \A r, s \in Results : r # s => RB(r)' \cap RB(s)' = {}
  BY <1>3, <1>4, <1>7
<1>10. \A f \in Errors, r \in Results : EB(f)' \cap RB(r)' = {}
  BY <1>3, <1>4, <1>6, <1>7
<1>11. ASSUME NEW b \in Blocks
       PROVE  b \in heap' \ lost' <=>
                 (\E f \in Errors : b \in EB(f)') \/ (\E r \in Results : b \in RB(r)')
  BY <1>1, <1>2, <1>3, <1>4
<1> QED
  BY <1>5, <1>8, <1>9, <1>10, <1>11 DEF Books, EB, RB

-----------------------------------------------------------------------------
(* The steps of an Error *)

LEMMA NewErrorKeeps ==
  ASSUME OwnInv, NEW e \in Errors, NewError(e)
  PROVE  OwnInv'
<1>1. PICK t \in {"inline"} \union Free :
         /\ error' = [error EXCEPT ![e] = <<[at |-> "inline", text |-> t]>>]
         /\ heap' = heap \union ({t} \cap Blocks)
  BY DEF NewError
<1>2. result' = result /\ lost' = lost /\ error[e] = <<>>
  BY DEF NewError
<1> DEFINE c == <<[at |-> "inline", text |-> t]>>
<1>3. Neat(c) /\ BlocksOf(c) = {t} \cap Blocks
  BY SingleNeat DEF Content, Free
<1> HIDE DEF c
<1>4. error'[e] = c /\ DOMAIN error' = Errors /\ \A f \in Errors \ {e} : error'[f] = error[f]
  BY <1>1 DEF OwnInv, Shapes, c
<1>5. Shapes'
  BY <1>2, <1>3, <1>4 DEF OwnInv, Shapes
<1>6. Books'
  <2>1. BlocksOf(error[e]) = {}
    BY <1>2, EmptyNeat
  <2>2. {t} \cap Blocks \subseteq Free
    BY ErrorAssumption
  <2> QED
    BY <1>1, <1>2, <1>3, <1>4, <2>1, <2>2, OneErrorStep DEF OwnInv
<1> QED
  BY <1>5, <1>6 DEF OwnInv

LEMMA DropErrorKeeps ==
  ASSUME OwnInv, NEW e \in Errors, DropError(e)
  PROVE  OwnInv'
<1>1. result' = result /\ lost' = lost /\ heap' = (heap \ BlocksOf(error[e])) \union {}
  BY DEF DropError
<1>2. error'[e] = <<>> /\ DOMAIN error' = Errors /\ \A f \in Errors \ {e} : error'[f] = error[f]
  BY DEF DropError, OwnInv, Shapes
<1>3. Shapes'
  BY <1>1, <1>2, EmptyNeat DEF OwnInv, Shapes
<1>4. Books'
  BY <1>1, <1>2, EmptyNeat, OneErrorStep DEF OwnInv
<1> QED
  BY <1>3, <1>4 DEF OwnInv

LEMMA CopyErrorKeeps ==
  ASSUME OwnInv, NEW e \in Errors, NEW f \in Errors, CopyError(e, f)
  PROVE  OwnInv'
<1>1. PICK c \in Copies(error[f]) :
         /\ error' = [error EXCEPT ![e] = c]
         /\ heap' = (heap \ BlocksOf(error[e])) \union BlocksOf(c)
  BY DEF CopyError
<1>2. result' = result /\ lost' = lost
  BY DEF CopyError
<1>3. Neat(c) /\ BlocksOf(c) \subseteq Free
  BY CopyNeat DEF OwnInv, Shapes
<1>4. error'[e] = c /\ DOMAIN error' = Errors /\ \A g \in Errors \ {e} : error'[g] = error[g]
  BY <1>1 DEF OwnInv, Shapes
<1>5. Shapes'
  BY <1>2, <1>3, <1>4 DEF OwnInv, Shapes
<1>6. Books'
  BY <1>1, <1>2, <1>3, <1>4, OneErrorStep DEF OwnInv
<1> QED
  BY <1>5, <1>6 DEF OwnInv

LEMMA MoveErrorKeeps ==
  ASSUME OwnInv, NEW e \in Errors, NEW f \in Errors, MoveError(e, f)
  PROVE  OwnInv'
<1>1. /\ e # f /\ error[f] # <<>>
      /\ error' = [error EXCEPT ![e] = error[f], ![f] = MovedFrom(error[f])]
      /\ heap' = heap \ BlocksOf(error[e]) /\ result' = result /\ lost' = lost
  BY DEF MoveError
<1>2. Neat(error[f]) /\ Neat(MovedFrom(error[f])) /\ BlocksOf(MovedFrom(error[f])) = {}
  BY <1>1, MovedNeat DEF OwnInv, Shapes
<1>3. /\ error'[e] = error[f] /\ error'[f] = MovedFrom(error[f]) /\ DOMAIN error' = Errors
      /\ \A g \in Errors \ {e, f} : error'[g] = error[g]
  BY <1>1 DEF OwnInv, Shapes
<1>4. Shapes'
  BY <1>1, <1>2, <1>3 DEF OwnInv, Shapes
<1>5. Books'
  <2>1. BlocksOf(error[f]) \subseteq heap /\ BlocksOf(error[e]) \cap BlocksOf(error[f]) = {}
    BY <1>1, BooksSay DEF OwnInv, Books
  <2>2. heap' = (heap \ (BlocksOf(error[e]) \union BlocksOf(error[f]))) \union BlocksOf(error[f])
    BY <1>1, <2>1
  <2> QED
    BY <1>1, <1>2, <1>3, <2>2, TwoErrorsStep DEF OwnInv
<1> QED
  BY <1>4, <1>5 DEF OwnInv

LEMMA CausedByKeeps ==
  ASSUME OwnInv, NEW e \in Errors, NEW f \in Errors, CausedBy(e, f)
  PROVE  OwnInv'
<1> DEFINE c == error[f]
           d == IF e = f THEN MovedFrom(error[f]) ELSE error[e]
<1>1. error[e] # <<>> /\ c # <<>> /\ Len(c) < MaxChain /\ result' = result /\ lost' = lost
  BY DEF CausedBy
<1>2. /\ Neat(c) /\ Neat(error[e]) /\ Neat(MovedFrom(c)) /\ BlocksOf(MovedFrom(c)) = {}
      /\ MovedFrom(c) # <<>>
  BY <1>1, MovedNeat DEF OwnInv, Shapes
<1>3. PICK at \in Free :
         /\ error' = [[error EXCEPT ![f] = MovedFrom(c)] EXCEPT
                          ![e] = <<Head(d)>> \o [c EXCEPT ![1].at = at]]
         /\ heap' = (heap \ BlocksOf(Tail(d))) \union {at}
  <2>1. [error EXCEPT ![f] = MovedFrom(c)][e] = d
    BY DEF OwnInv, Shapes
  <2> QED
    BY <2>1 DEF CausedBy
<1>4. Neat(d) /\ d # <<>>
  BY <1>1, <1>2
<1>5. BlocksOf(c) \subseteq heap \ lost /\ BlocksOf(error[e]) \subseteq heap \ lost
  BY BooksSay DEF OwnInv
<1>6. /\ BlocksOf(d) \subseteq BlocksOf(error[e]) /\ BlocksOf(d) \cap BlocksOf(c) = {}
      /\ BlocksOf(Tail(d)) \subseteq BlocksOf(d)
  <2>1. CASE e = f
    <3>1. Tail(d) = <<>>
      <4>1. d = <<[at |-> "inline", text |-> "inline"]>>
        BY <2>1, <1>1, <1>2, MovedNeat
      <4>2. Tail(<<[at |-> "inline", text |-> "inline"]>>) = <<>>
        OBVIOUS
      <4> QED
        BY <4>1, <4>2
    <3> QED
      BY <2>1, <3>1, <1>2, EmptyNeat
  <2>2. CASE e # f
    <3>1. d = error[e]
      BY <2>2
    <3>2. BlocksOf(error[e]) \cap BlocksOf(c) = {}
      BY <2>2 DEF OwnInv, Books
    <3>3. BlocksOf(Tail(d)) \subseteq BlocksOf(d)
      BY <1>4, TailHolds
    <3> QED
      BY <3>1, <3>2, <3>3
  <2> QED
    BY <2>1, <2>2
<1> DEFINE n == Caused(d, c, at)
<1>7. /\ Neat(n) /\ n # <<>>
      /\ BlocksOf(n) = (BlocksOf(d) \ BlocksOf(Tail(d))) \union BlocksOf(c) \union {at}
  <2>1. at \in Blocks /\ at \notin BlocksOf(d) /\ at \notin BlocksOf(c)
    BY <1>5, <1>6 DEF Free
  <2> HIDE DEF c, d
  <2> QED
    BY <2>1, <1>1, <1>2, <1>4, <1>6, CauseNeat
<1>8. /\ error'[e] = n /\ DOMAIN error' = Errors
      /\ e # f => error'[f] = MovedFrom(c)
      /\ \A g \in Errors \ {e, f} : error'[g] = error[g]
  BY <1>3 DEF OwnInv, Shapes, Caused
<1> HIDE DEF n
<1>9. Shapes'
  BY <1>1, <1>2, <1>7, <1>8 DEF OwnInv, Shapes
<1>10. Books'
  <2>1. CASE e = f
    <3>1. BlocksOf(d) = {} /\ BlocksOf(Tail(d)) = {}
      BY <2>1, <1>2, <1>6
    <3>2. BlocksOf(n) = BlocksOf(error[e]) \union {at}
      BY <2>1, <3>1, <1>7
    <3>3. heap' = (heap \ BlocksOf(error[e])) \union BlocksOf(n)
      BY <3>1, <3>2, <1>3, <1>5
    <3>4. BlocksOf(n) \subseteq BlocksOf(error[e]) \union Free
      BY <3>2, <1>3
    <3> QED
      BY <2>1, <3>3, <3>4, <1>1, <1>8, OneErrorStep DEF OwnInv
  <2>2. CASE e # f
    <3>1. BlocksOf(n) = (BlocksOf(error[e]) \ BlocksOf(Tail(d))) \union BlocksOf(c) \union {at}
      BY <2>2, <1>7
    <3>2. BlocksOf(Tail(d)) \subseteq BlocksOf(error[e]) /\ BlocksOf(error[e]) \cap BlocksOf(c) = {}
      BY <2>2, <1>6
    <3> HIDE DEF c, d
    <3>3. heap' = (heap \ (BlocksOf(error[e]) \union BlocksOf(c))) \union BlocksOf(n)
      BY <3>1, <3>2, <1>3, <1>5
    <3>4. BlocksOf(n) \subseteq BlocksOf(error[e]) \union BlocksOf(c) \union Free
      BY <3>1, <1>3
    <3>5. BlocksOf(error'[f]) = {} /\ BlocksOf(error'[e]) = BlocksOf(n)
      BY <2>2, <1>2, <1>8
    <3>6. \A r \in Results : BlocksIn(result'[r]) = BlocksIn(result[r])
      BY <1>1
    <3>7. \A g \in Errors \ {e, f} : BlocksOf(error'[g]) = BlocksOf(error[g])
      BY <1>8
    <3> USE DEF c
    <3> QED
      BY <2>2, <3>3, <3>4, <3>5, <3>6, <3>7, <1>1, TwoErrorsStep DEF OwnInv
  <2> QED
    BY <2>1, <2>2
<1> QED
  BY <1>9, <1>10 DEF OwnInv

-----------------------------------------------------------------------------
(* The steps of a Result *)

\* a Result is given an object that holds blocks of its own or free ones
LEMMA GivenObject ==
  ASSUME OwnInv, NEW r \in Results, NEW o, Sound(o),
         result' = [result EXCEPT ![r] = o], error' = error, lost' = lost,
         BlocksIn(o) \subseteq BlocksIn(result[r]) \union Free,
         heap' = (heap \ BlocksIn(result[r])) \union BlocksIn(o)
  PROVE  OwnInv'
<1>1. result'[r] = o /\ DOMAIN result' = Results /\ \A q \in Results \ {r} : result'[q] = result[q]
  BY DEF OwnInv, Shapes
<1>2. Shapes'
  BY <1>1 DEF OwnInv, Shapes
<1>3. Books'
  BY <1>1, OneResultStep DEF OwnInv
<1> QED
  BY <1>2, <1>3 DEF OwnInv

LEMMA MakeValueKeeps ==
  ASSUME OwnInv, NEW r \in Values, MakeValue(r)
  PROVE  OwnInv'
<1>1. PICK b \in Free : result' = [result EXCEPT ![r] = Ok(b)] /\ heap' = heap \union {b}
  BY DEF MakeValue
<1>2. r \in Results /\ error' = error /\ lost' = lost /\ BlocksIn(result[r]) = {}
  BY ResultHolds DEF MakeValue, Results
<1>3. b \in Blocks
  BY DEF Free
<1>4. Sound(Ok(b)) /\ BlocksIn(Ok(b)) = {b}
  BY <1>3, ResultHolds
<1>5. /\ BlocksIn(Ok(b)) \subseteq BlocksIn(result[r]) \union Free
      /\ heap' = (heap \ BlocksIn(result[r])) \union BlocksIn(Ok(b))
  BY <1>1, <1>2, <1>4
<1> QED
  BY <1>1, <1>2, <1>4, <1>5, GivenObject

LEMMA MakeVoidKeeps ==
  ASSUME OwnInv, NEW r \in Voids, MakeVoid(r)
  PROVE  OwnInv'
<1>1. /\ r \in Results /\ error' = error /\ lost' = lost /\ heap' = heap
      /\ result' = [result EXCEPT ![r] = Ok("none")] /\ BlocksIn(result[r]) = {}
  BY ResultHolds DEF MakeVoid, Results
<1>2. Sound(Ok("none")) /\ BlocksIn(Ok("none")) = {}
  BY ResultHolds, ErrorAssumption
<1> QED
  BY <1>1, <1>2, GivenObject

LEMMA MakeErrKeeps ==
  ASSUME OwnInv, NEW r \in Results, NEW e \in Errors, MakeErr(r, e)
  PROVE  OwnInv'
<1>1. PICK c \in Copies(error[e]) :
         result' = [result EXCEPT ![r] = Err(c)] /\ heap' = heap \union BlocksOf(c)
  BY DEF MakeErr
<1>2. error' = error /\ lost' = lost /\ BlocksIn(result[r]) = {} /\ error[e] # <<>>
  BY ResultHolds DEF MakeErr
<1>3. Neat(c) /\ c # <<>> /\ BlocksOf(c) \subseteq Free
  BY <1>2, CopyNeat DEF OwnInv, Shapes
<1>4. Sound(Err(c)) /\ BlocksIn(Err(c)) = BlocksOf(c)
  BY <1>3, ResultHolds
<1> QED
  BY <1>1, <1>2, <1>3, <1>4, GivenObject

LEMMA MakeErrMovedKeeps ==
  ASSUME OwnInv, NEW r \in Results, NEW e \in Errors, MakeErrMoved(r, e)
  PROVE  OwnInv'
<1>1. /\ result' = [result EXCEPT ![r] = Err(error[e])] /\ heap' = heap /\ lost' = lost
      /\ error' = [error EXCEPT ![e] = MovedFrom(error[e])]
      /\ BlocksIn(result[r]) = {} /\ error[e] # <<>>
  BY ResultHolds DEF MakeErrMoved
<1>2. /\ Neat(error[e]) /\ Neat(MovedFrom(error[e])) /\ BlocksOf(MovedFrom(error[e])) = {}
  BY <1>1, MovedNeat DEF OwnInv, Shapes
<1>3. Sound(Err(error[e])) /\ BlocksIn(Err(error[e])) = BlocksOf(error[e])
  BY <1>1, <1>2, ResultHolds
<1>4. /\ error'[e] = MovedFrom(error[e]) /\ DOMAIN error' = Errors
      /\ \A f \in Errors \ {e} : error'[f] = error[f]
      /\ result'[r] = Err(error[e]) /\ DOMAIN result' = Results
      /\ \A q \in Results \ {r} : result'[q] = result[q]
  BY <1>1 DEF OwnInv, Shapes
<1>5. Shapes'
  BY <1>2, <1>3, <1>4 DEF OwnInv, Shapes
<1>6. Books'
  BY <1>1, <1>2, <1>3, <1>4, HandOverStep DEF OwnInv
<1> QED
  BY <1>5, <1>6 DEF OwnInv

\* a Result takes the object of another one: what it held is freed or lost
LEMMA TakenObject ==
  ASSUME OwnInv, NEW r \in Results, NEW s \in Results, r # s, result[s] # None,
         result' = [result EXCEPT ![r] = result[s], ![s] = Emptied(s)], error' = error,
         \/ heap' = heap \ BlocksIn(result[r]) /\ lost' = lost
         \/ lost' = lost \union BlocksIn(result[r]) /\ heap' = heap
  PROVE  OwnInv'
<1>1. Sound(Emptied(s)) /\ BlocksIn(Emptied(s)) = {} /\ Sound(result[s])
  BY EmptiedHolds DEF OwnInv, Shapes
<1>2. /\ result'[r] = result[s] /\ result'[s] = Emptied(s) /\ DOMAIN result' = Results
      /\ \A q \in Results \ {r, s} : result'[q] = result[q]
  BY DEF OwnInv, Shapes
<1>3. Shapes'
  BY <1>1, <1>2 DEF OwnInv, Shapes
<1> DEFINE R == BlocksIn(result[r])
           S == BlocksIn(result[s])
<1>4. R \cap S = {} /\ R \subseteq heap \ lost /\ S \subseteq heap \ lost
      /\ lost \subseteq heap /\ heap \subseteq Blocks
  BY BooksSay DEF OwnInv, Books
<1>5. (heap' = heap \ R /\ lost' = lost) \/ (lost' = lost \union R /\ heap' = heap)
  OBVIOUS
<1>6. /\ heap' \ lost' = ((heap \ lost) \ (R \union S)) \union S
      /\ heap' \subseteq Blocks /\ lost' \subseteq heap'
      /\ S \subseteq R \union S \union Free
  <2> HIDE DEF R, S
  <2> QED
    BY <1>4, <1>5
<1>7. BlocksIn(result'[r]) = S /\ BlocksIn(result'[s]) = {}
  BY <1>1, <1>2
<1>8. /\ \A q \in Results \ {r, s} : BlocksIn(result'[q]) = BlocksIn(result[q])
      /\ \A e \in Errors : BlocksOf(error'[e]) = BlocksOf(error[e])
  BY <1>2
<1>9. Books'
  BY <1>6, <1>7, <1>8, TwoResultsStep DEF OwnInv
<1> QED
  BY <1>3, <1>9 DEF OwnInv

\* where the behaviour is undefined the objects are not looked at any more
LEMMA UndefinedKeeps ==
  ASSUME OwnInv, UNCHANGED <<error, result, heap, lost>>
  PROVE  OwnInv'
<1>1. Shapes'
  BY DEF OwnInv, Shapes
<1>2. /\ \A e \in Errors : BlocksOf(error'[e]) = BlocksOf(error[e])
      /\ \A r \in Results : BlocksIn(result'[r]) = BlocksIn(result[r])
      /\ heap' = heap /\ lost' = lost
  OBVIOUS
<1>3. Books'
  BY <1>2 DEF OwnInv, Books
<1> QED
  BY <1>1, <1>3 DEF OwnInv

LEMMA MoveConstructKeeps ==
  ASSUME OwnInv, NEW r \in Results, NEW s \in Results, MoveConstruct(r, s)
  PROVE  OwnInv'
<1>1. result[r] = None /\ result[s] # None /\ r # s /\ BlocksIn(result[r]) = {}
  BY ResultHolds DEF MoveConstruct
<1>2. CASE /\ result' = [result EXCEPT ![r] = result[s], ![s] = Emptied(s)]
           /\ UNCHANGED <<error, heap, lost, outcome>>
  <2>1. heap' = heap \ BlocksIn(result[r])
    BY <1>1, <1>2
  <2> QED
    BY <1>1, <1>2, <2>1, TakenObject
<1>3. CASE Undefined
  BY <1>3, UndefinedKeeps DEF Undefined
<1> QED
  BY <1>2, <1>3 DEF MoveConstruct

LEMMA MoveAssignValueKeeps ==
  ASSUME OwnInv, NEW r \in Values, NEW s \in Values, MoveAssignValue(r, s)
  PROVE  OwnInv'
<1>1. r \in Results /\ s \in Results /\ r # s /\ result[s] # None
  BY DEF MoveAssignValue, Results
<1>2. CASE Undefined
  BY <1>2, UndefinedKeeps DEF Undefined
<1>3. CASE ~ Undefined
  <2>1. /\ result' = [result EXCEPT ![r] = result[s], ![s] = Emptied(s)] /\ error' = error
        /\ \/ heap' = heap \ BlocksIn(result[r]) /\ lost' = lost
           \/ lost' = lost \union BlocksIn(result[r]) /\ heap' = heap
    BY <1>3 DEF MoveAssignValue
  <2> QED
    BY <1>1, <2>1, TakenObject
<1> QED
  BY <1>2, <1>3

LEMMA MoveAssignVoidKeeps ==
  ASSUME OwnInv, NEW r \in Voids, NEW s \in Voids, MoveAssignVoid(r, s)
  PROVE  OwnInv'
<1>1. r \in Results /\ s \in Results /\ r # s /\ result[s] # None
  BY DEF MoveAssignVoid, Results
<1>2. CASE Undefined
  BY <1>2, UndefinedKeeps DEF Undefined
<1>3. CASE ~ Undefined
  <2>1. /\ result' = [result EXCEPT ![r] = result[s], ![s] = Emptied(s)] /\ error' = error
        /\ lost' = lost \union BlocksIn(result[r]) /\ heap' = heap
    BY <1>3 DEF MoveAssignVoid
  <2> QED
    BY <1>1, <2>1, TakenObject
<1> QED
  BY <1>2, <1>3

LEMMA DestroyKeeps ==
  ASSUME OwnInv, NEW r \in Results, Destroy(r)
  PROVE  OwnInv'
<1>1. /\ heap' = (heap \ BlocksIn(result[r])) \union BlocksIn(None)
      /\ result' = [result EXCEPT ![r] = None] /\ error' = error /\ lost' = lost
      /\ Sound(None) /\ BlocksIn(None) = {}
  BY ResultHolds DEF Destroy
<1> QED
  BY <1>1, GivenObject

LEMMA AssignThroughKeeps ==
  ASSUME OwnInv, NEW r \in Values, AssignThrough(r)
  PROVE  OwnInv'
<1>1. CASE UnwrapError(r)
  BY <1>1, UndefinedKeeps DEF UnwrapError
<1>2. CASE ~ UnwrapError(r)
  <2> DEFINE v == result[r].value
  <2>1. r \in Results /\ IsOk(r) /\ error' = error /\ lost' = lost
    BY <1>2 DEF AssignThrough, Results
  <2>2. PICK b \in IF v \in Blocks THEN {v} ELSE Free :
           result' = [result EXCEPT ![r] = Ok(b)] /\ heap' = heap \union {b}
    BY <1>2 DEF AssignThrough
  <2>3. result[r] = Ok(v) /\ v \in Blocks \union {"none"}
    BY <2>1, ResultKinds DEF OwnInv, Shapes, IsOk
  <2>4. BlocksIn(result[r]) = {v} \cap Blocks
    BY <2>3, ResultHolds
  <2>5. b \in Blocks /\ (b \in Free \/ (b = v /\ v \in Blocks))
    BY <2>2 DEF Free
  <2>6. Sound(Ok(b)) /\ BlocksIn(Ok(b)) = {b}
    BY <2>5, ResultHolds
  <2> HIDE DEF v
  <2>7. BlocksIn(result[r]) \subseteq {b}
    BY <2>2, <2>4
  <2>8. BlocksIn(Ok(b)) \subseteq BlocksIn(result[r]) \union Free
    BY <2>4, <2>5, <2>6
  <2>9. heap' = (heap \ BlocksIn(result[r])) \union BlocksIn(Ok(b))
    BY <2>2, <2>6, <2>7
  <2> QED
    BY <2>1, <2>2, <2>6, <2>8, <2>9, GivenObject
<1> QED
  BY <1>1, <1>2

LEMMA TakeValueKeeps ==
  ASSUME OwnInv, NEW r \in Values, TakeValue(r)
  PROVE  OwnInv'
<1>1. Sound(Ok("none")) /\ BlocksIn(Ok("none")) = {}
  BY ResultHolds, ErrorAssumption
<1>2. /\ r \in Results /\ error' = error /\ lost' = lost
      /\ result' = [result EXCEPT ![r] = Ok("none")]
      /\ heap' = (heap \ BlocksIn(result[r])) \union BlocksIn(Ok("none"))
  BY <1>1 DEF TakeValue, Results
<1> QED
  BY <1>1, <1>2, GivenObject

LEMMA UnwrapErrKeeps ==
  ASSUME OwnInv, NEW e \in Errors, NEW r \in Results, UnwrapErr(e, r)
  PROVE  OwnInv'
<1>1. CASE result[r].ok
  BY <1>1, UndefinedKeeps DEF UnwrapErr, Undefined
<1>2. CASE ~ result[r].ok
  <2>1. PICK c \in Copies(result[r].chain) :
           error' = [error EXCEPT ![e] = c] /\ heap' = heap \union BlocksOf(c)
    BY <1>2 DEF UnwrapErr
  <2>2. result' = result /\ lost' = lost /\ error[e] = <<>> /\ result[r] # None
    BY <1>2 DEF UnwrapErr
  <2>3. Neat(result[r].chain)
    BY <1>2, <2>2, ResultKinds DEF OwnInv, Shapes
  <2>4. Neat(c) /\ BlocksOf(c) \subseteq Free
    BY <2>3, CopyNeat
  <2>5. error'[e] = c /\ DOMAIN error' = Errors /\ \A f \in Errors \ {e} : error'[f] = error[f]
    BY <2>1 DEF OwnInv, Shapes
  <2>6. Shapes'
    BY <2>2, <2>4, <2>5 DEF OwnInv, Shapes
  <2>7. BlocksOf(error[e]) = {}
    BY <2>2, EmptyNeat
  <2>8. Books'
    BY <2>1, <2>2, <2>4, <2>5, <2>7, OneErrorStep DEF OwnInv
  <2> QED
    BY <2>6, <2>8 DEF OwnInv
<1> QED
  BY <1>1, <1>2

LEMMA TryKeeps ==
  ASSUME OwnInv, NEW q \in Results, NEW r \in Results, Try(q, r)
  PROVE  OwnInv'
<1>1. PICK c \in Copies(result[r].chain) :
         /\ result' = [result EXCEPT ![q] = Err(c), ![r] = None]
         /\ heap' = (heap \union BlocksOf(c)) \ BlocksIn(result[r])
  BY DEF Try
<1>2. q # r /\ result[q] = None /\ IsErr(r) /\ error' = error /\ lost' = lost
  BY DEF Try
<1>3. Neat(result[r].chain) /\ result[r].chain # <<>>
  BY <1>2, ResultKinds DEF OwnInv, Shapes, IsErr
<1>4. Neat(c) /\ c # <<>> /\ BlocksOf(c) \subseteq Free
  BY <1>3, CopyNeat
<1>5. /\ Sound(Err(c)) /\ BlocksIn(Err(c)) = BlocksOf(c) /\ Sound(None) /\ BlocksIn(None) = {}
  BY <1>4, ResultHolds
<1>6. /\ result'[q] = Err(c) /\ result'[r] = None /\ DOMAIN result' = Results
      /\ \A p \in Results \ {q, r} : result'[p] = result[p]
  BY <1>1, <1>2 DEF OwnInv, Shapes
<1>7. Shapes'
  BY <1>2, <1>5, <1>6 DEF OwnInv, Shapes
<1> DEFINE Q == BlocksIn(result[q])
           R == BlocksIn(result[r])
           N == BlocksOf(c)
<1>8. Q = {} /\ R \subseteq heap \ lost /\ lost \subseteq heap /\ heap \subseteq Blocks
  BY <1>2, ResultHolds, BooksSay DEF OwnInv, Books
<1>9. N \subseteq Free /\ Free = Blocks \ heap /\ heap' = (heap \union N) \ R
  BY <1>1, <1>4 DEF Free
<1>10. /\ heap' \ lost' = ((heap \ lost) \ (Q \union R)) \union N
       /\ heap' \subseteq Blocks /\ lost' \subseteq heap'
       /\ N \subseteq Q \union R \union Free
  <2> HIDE DEF Q, R, N
  <2> QED
    BY <1>2, <1>8, <1>9
<1>11. BlocksIn(result'[q]) = N /\ BlocksIn(result'[r]) = {}
  BY <1>5, <1>6
<1>12. /\ \A p \in Results \ {q, r} : BlocksIn(result'[p]) = BlocksIn(result[p])
       /\ \A e \in Errors : BlocksOf(error'[e]) = BlocksOf(error[e])
  BY <1>2, <1>6
<1>13. Books'
  BY <1>2, <1>10, <1>11, <1>12, TwoResultsStep DEF OwnInv
<1> QED
  BY <1>7, <1>13 DEF OwnInv

-----------------------------------------------------------------------------
(* The invariant *)

LEMMA InitOwns == Init => OwnInv
<1> SUFFICES ASSUME Init PROVE OwnInv
  OBVIOUS
<1>1. /\ DOMAIN error = Errors /\ \A e \in Errors : error[e] = <<>>
      /\ DOMAIN result = Results /\ \A r \in Results : result[r] = None
      /\ heap = {} /\ lost = {}
  BY DEF Init
<1>2. /\ \A e \in Errors : Neat(error[e]) /\ BlocksOf(error[e]) = {}
      /\ \A r \in Results : Sound(result[r]) /\ BlocksIn(result[r]) = {}
  BY <1>1, EmptyNeat, ResultHolds
<1> QED
  BY <1>1, <1>2 DEF OwnInv, Shapes, Books

LEMMA StepOwns == OwnInv /\ [Next]_vars => OwnInv'
<1> SUFFICES ASSUME OwnInv, [Next]_vars PROVE OwnInv'
  OBVIOUS
<1>1. CASE UNCHANGED vars
  BY <1>1, UndefinedKeeps DEF vars
<1>2. CASE \E e \in Errors : NewError(e) \/ DropError(e)
  BY <1>2, NewErrorKeeps, DropErrorKeeps
<1>3. CASE \E e, f \in Errors : CopyError(e, f) \/ MoveError(e, f) \/ CausedBy(e, f)
  BY <1>3, CopyErrorKeeps, MoveErrorKeeps, CausedByKeeps
<1>4. CASE \E r \in Values : MakeValue(r) \/ UnwrapError(r) \/ AssignThrough(r) \/ TakeValue(r)
  <2>1. ASSUME NEW r \in Values, UnwrapError(r) PROVE OwnInv'
    BY <2>1, UndefinedKeeps DEF UnwrapError
  <2> QED
    BY <1>4, <2>1, MakeValueKeeps, AssignThroughKeeps, TakeValueKeeps
<1>5. CASE \E r \in Voids : MakeVoid(r)
  BY <1>5, MakeVoidKeeps
<1>6. CASE \E r \in Results, e \in Errors : MakeErr(r, e) \/ MakeErrMoved(r, e) \/ UnwrapErr(e, r)
  BY <1>6, MakeErrKeeps, MakeErrMovedKeeps, UnwrapErrKeeps
<1>7. CASE \E r, s \in Results : SameKind(r, s) /\ MoveConstruct(r, s)
  BY <1>7, MoveConstructKeeps
<1>8. CASE \E r, s \in Values : MoveAssignValue(r, s)
  BY <1>8, MoveAssignValueKeeps
<1>9. CASE \E r, s \in Voids : MoveAssignVoid(r, s)
  BY <1>9, MoveAssignVoidKeeps
<1>10. CASE \E q, r \in Results : Try(q, r)
  BY <1>10, TryKeeps
<1>11. CASE \E r \in Results : Destroy(r)
  BY <1>11, DestroyKeeps
<1> QED
  BY <1>1, <1>2, <1>3, <1>4, <1>5, <1>6, <1>7, <1>8, <1>9, <1>10, <1>11 DEF Next

\* The books balance: through every copy, move, cause, assignment and propagation
\* no block is held twice, in one chain or by two variables, and what is in use and
\* was not lost is what some variable holds.
THEOREM BooksBalance == Spec => []OwnInv
  BY InitOwns, StepOwns, PTL DEF Spec

-----------------------------------------------------------------------------
(* One owner *)

\* p is a place in the chain c of the variable x that names the block b
In(x, c, b, p) ==
    \E i \in DOMAIN c : \/ p = <<x, i, "at">> /\ c[i].at = b
                        \/ p = <<x, i, "text">> /\ c[i].text = b

\* p is a place that owns b
Owns(p, b) ==
    \/ \E e \in Errors : In(e, error[e], b, p)
    \/ \E r \in Results : /\ result[r] # None
                          /\ \/ In(r, result[r].chain, b, p)
                             \/ p = <<r, 0, "value">> /\ result[r].value = b

\* a block is named once in a chain, if the chain holds it
LEMMA OnePlace ==
  ASSUME NEW x, NEW c, Neat(c), NEW b \in Blocks
  PROVE  /\ \A p, q : In(x, c, b, p) /\ In(x, c, b, q) => p = q
         /\ b \in BlocksOf(c) <=> \E p : In(x, c, b, p)
<1>1. ASSUME NEW p, NEW q, In(x, c, b, p), In(x, c, b, q) PROVE p = q
  <2>1. PICK i \in DOMAIN c : \/ p = <<x, i, "at">> /\ c[i].at = b
                              \/ p = <<x, i, "text">> /\ c[i].text = b
    BY <1>1 DEF In
  <2>2. PICK j \in DOMAIN c : \/ q = <<x, j, "at">> /\ c[j].at = b
                              \/ q = <<x, j, "text">> /\ c[j].text = b
    BY <1>1 DEF In
  <2>3. /\ c[i].at = b /\ c[j].at = b => i = j
        /\ c[i].text = b /\ c[j].text = b => i = j
        /\ ~ (c[i].at = b /\ c[j].text = b) /\ ~ (c[j].at = b /\ c[i].text = b)
    BY DEF Neat
  <2> QED
    BY <2>1, <2>2, <2>3
<1>2. ASSUME b \in BlocksOf(c) PROVE \E p : In(x, c, b, p)
  <2>1. PICK i \in DOMAIN c : b = c[i].at \/ b = c[i].text
    BY <1>2, InBlocks
  <2>2. b = c[i].at => In(x, c, b, <<x, i, "at">>)
    BY <2>1 DEF In
  <2>3. b = c[i].text => In(x, c, b, <<x, i, "text">>)
    BY <2>1 DEF In
  <2> QED
    BY <2>1, <2>2, <2>3
<1>3. ASSUME NEW p, In(x, c, b, p) PROVE b \in BlocksOf(c)
  BY <1>3, InBlocks DEF In
<1> QED
  BY <1>1, <1>2, <1>3

\* Owners lists the places that own a block.
LEMMA OwnersAre ==
  ASSUME OwnInv, NEW b \in Blocks, NEW p
  PROVE  p \in Owners(b) <=> Owns(p, b)
<1>1. /\ \A e \in Errors : Neat(error[e])
      /\ \A r \in Results : result[r] # None => Neat(result[r].chain)
  <2>1. ASSUME NEW r \in Results, result[r] # None PROVE Neat(result[r].chain)
    <3>1. \A v : Ok(v).chain = <<>>
      BY DEF Ok
    <3> QED
      BY <2>1, <3>1, EmptyNeat, ResultKinds DEF OwnInv, Shapes
  <2> QED
    BY <2>1 DEF OwnInv, Shapes
<1>2. \A c : Neat(c) => DOMAIN c \subseteq 1..MaxChain
  <2>1. ASSUME NEW c, Neat(c) PROVE DOMAIN c \subseteq 1..MaxChain
    <3>1. DOMAIN c = 1..Len(c) /\ Len(c) \in Nat /\ Len(c) <= MaxChain
      BY <2>1, NeatLinks DEF Neat
    <3> QED
      BY <3>1, ErrorAssumption
  <2> QED
    BY <2>1
<1>3. ASSUME p \in Owners(b) PROVE Owns(p, b)
  <2>1. CASE /\ p \in Errors \X (1..MaxChain) \X {"at", "text"}
             /\ p[2] \in DOMAIN error[p[1]] /\ error[p[1]][p[2]][p[3]] = b
    <3>1. PICK e \in Errors, i \in 1..MaxChain, k \in {"at", "text"} : p = <<e, i, k>>
      BY <2>1
    <3>2. i \in DOMAIN error[e] /\ error[e][i][k] = b
      BY <2>1, <3>1
    <3>3. In(e, error[e], b, p)
      BY <3>1, <3>2 DEF In
    <3> QED
      BY <3>3 DEF Owns
  <2>2. CASE /\ p \in Results \X (1..MaxChain) \X {"at", "text"}
             /\ result[p[1]] # None /\ p[2] \in DOMAIN result[p[1]].chain
             /\ result[p[1]].chain[p[2]][p[3]] = b
    <3>1. PICK r \in Results, i \in 1..MaxChain, k \in {"at", "text"} : p = <<r, i, k>>
      BY <2>2
    <3>2. result[r] # None /\ i \in DOMAIN result[r].chain /\ result[r].chain[i][k] = b
      BY <2>2, <3>1
    <3>3. In(r, result[r].chain, b, p)
      BY <3>1, <3>2 DEF In
    <3> QED
      BY <3>2, <3>3 DEF Owns
  <2>3. CASE p \in Results \X {0} \X {"value"} /\ result[p[1]] # None /\ result[p[1]].value = b
    <3>1. PICK r \in Results : p = <<r, 0, "value">>
      BY <2>3
    <3>2. result[r] # None /\ result[r].value = b
      BY <2>3, <3>1
    <3> QED
      BY <3>1, <3>2 DEF Owns
  <2> QED
    BY <1>3, <2>1, <2>2, <2>3 DEF Owners
<1>4. ASSUME Owns(p, b) PROVE p \in Owners(b)
  <2>1. ASSUME NEW e \in Errors, In(e, error[e], b, p) PROVE p \in Owners(b)
    <3>1. PICK i \in DOMAIN error[e], k \in {"at", "text"} : p = <<e, i, k>> /\ error[e][i][k] = b
      BY <2>1 DEF In
    <3>2. i \in 1..MaxChain
      BY <1>1, <1>2
    <3>3. p \in Errors \X (1..MaxChain) \X {"at", "text"}
      BY <3>1, <3>2
    <3>4. p[1] = e /\ p[2] = i /\ p[3] = k
      BY <3>1
    <3> QED
      BY <3>1, <3>3, <3>4 DEF Owners
  <2>2. ASSUME NEW r \in Results, result[r] # None, In(r, result[r].chain, b, p)
        PROVE  p \in Owners(b)
    <3>1. PICK i \in DOMAIN result[r].chain, k \in {"at", "text"} :
             p = <<r, i, k>> /\ result[r].chain[i][k] = b
      BY <2>2 DEF In
    <3>2. i \in 1..MaxChain
      BY <1>1, <1>2, <2>2
    <3>3. p \in Results \X (1..MaxChain) \X {"at", "text"}
      BY <3>1, <3>2
    <3>4. p[1] = r /\ p[2] = i /\ p[3] = k
      BY <3>1
    <3> QED
      BY <2>2, <3>1, <3>3, <3>4 DEF Owners
  <2>3. ASSUME NEW r \in Results, result[r] # None, p = <<r, 0, "value">>, result[r].value = b
        PROVE  p \in Owners(b)
    <3>1. p \in Results \X {0} \X {"value"} /\ p[1] = r
      BY <2>3
    <3> QED
      BY <2>3, <3>1 DEF Owners
  <2> QED
    BY <1>4, <2>1, <2>2, <2>3 DEF Owns
<1> QED
  BY <1>3, <1>4

\* No object of Result names a block both as its value and in its chain, or in two
\* places: the places of one object that own b are one place, if it holds b.
LEMMA OneInResult ==
  ASSUME OwnInv, NEW r \in Results, NEW b \in Blocks
  PROVE  LET At(p) == /\ result[r] # None
                      /\ \/ In(r, result[r].chain, b, p)
                         \/ p = <<r, 0, "value">> /\ result[r].value = b
         IN  /\ \A p, q : At(p) /\ At(q) => p = q
             /\ b \in BlocksIn(result[r]) <=> \E p : At(p)
<1> DEFINE At(p) == /\ result[r] # None
                    /\ \/ In(r, result[r].chain, b, p)
                       \/ p = <<r, 0, "value">> /\ result[r].value = b
<1>1. CASE result[r] = None
  <2>1. b \notin BlocksIn(result[r])
    BY <1>1, ResultHolds
  <2> QED
    BY <1>1, <2>1
<1>2. CASE result[r] # None /\ result[r].ok
  <2>1. result[r].chain = <<>> /\ result[r].value \in Blocks \union {"none"}
        /\ result[r] = Ok(result[r].value)
    <3>1. \A v : Ok(v).chain = <<>>
      BY DEF Ok
    <3> QED
      BY <1>2, <3>1, ResultKinds DEF OwnInv, Shapes
  <2>2. \A p : ~ In(r, result[r].chain, b, p)
    BY <2>1, EmptyNeat, OnePlace
  <2>3. b \in BlocksIn(result[r]) <=> result[r].value = b
    BY <2>1, ResultHolds
  <2> QED
    BY <1>2, <2>2, <2>3
<1>3. CASE result[r] # None /\ ~ result[r].ok
  <2>1. Neat(result[r].chain) /\ result[r].chain # <<>> /\ result[r] = Err(result[r].chain)
    BY <1>3, ResultKinds DEF OwnInv, Shapes
  <2>2. result[r].value = "none"
    <3>1. \A c : Err(c).value = "none"
      BY DEF Err
    <3> QED
      BY <2>1, <3>1
  <2>3. BlocksIn(result[r]) = BlocksOf(result[r].chain)
    BY <2>1, ResultHolds
  <2>4. \A p : At(p) <=> In(r, result[r].chain, b, p)
    BY <1>3, <2>2, ErrorAssumption
  <2> QED
    BY <2>1, <2>3, <2>4, OnePlace
<1> QED
  BY <1>1, <1>2, <1>3

LEMMA OwnInvOneOwner == OwnInv => OneOwner
<1> SUFFICES ASSUME OwnInv, NEW b \in Blocks
             PROVE  Cardinality(Owners(b)) = IF b \in heap \ lost THEN 1 ELSE 0
  BY DEF OneOwner
<1> DEFINE At(r, p) == /\ result[r] # None
                       /\ \/ In(r, result[r].chain, b, p)
                          \/ p = <<r, 0, "value">> /\ result[r].value = b
<1>1. \A e \in Errors : /\ \A p, q : In(e, error[e], b, p) /\ In(e, error[e], b, q) => p = q
                        /\ b \in BlocksOf(error[e]) <=> \E p : In(e, error[e], b, p)
  BY OnePlace DEF OwnInv, Shapes
<1>2. \A r \in Results : /\ \A p, q : At(r, p) /\ At(r, q) => p = q
                         /\ b \in BlocksIn(result[r]) <=> \E p : At(r, p)
  BY OneInResult
<1>3. \A p : Owns(p, b) <=> \/ \E e \in Errors : In(e, error[e], b, p)
                            \/ \E r \in Results : At(r, p)
  BY DEF Owns
<1> HIDE DEF At
<1>4. b \in heap \ lost <=> \E p : Owns(p, b)
  <2>1. b \in heap \ lost <=> \/ \E e \in Errors : b \in BlocksOf(error[e])
                              \/ \E r \in Results : b \in BlocksIn(result[r])
    BY DEF OwnInv, Books
  <2> QED
    BY <2>1, <1>1, <1>2, <1>3
<1>5. /\ \A e, f \in Errors : b \in BlocksOf(error[e]) /\ b \in BlocksOf(error[f]) => e = f
      /\ \A r, s \in Results : b \in BlocksIn(result[r]) /\ b \in BlocksIn(result[s]) => r = s
      /\ \A e \in Errors, r \in Results : ~ (b \in BlocksOf(error[e]) /\ b \in BlocksIn(result[r]))
  BY DEF OwnInv, Books
<1>6. ASSUME NEW p, NEW q, Owns(p, b), Owns(q, b) PROVE p = q
  BY <1>1, <1>2, <1>3, <1>5, <1>6
<1>7. \A p : p \in Owners(b) <=> Owns(p, b)
  BY OwnersAre
<1>8. CASE b \in heap \ lost
  <2>1. PICK p : Owns(p, b)
    BY <1>4, <1>8
  <2>2. Owners(b) = {p}
    BY <2>1, <1>6, <1>7
  <2>3. Cardinality({p}) = 1
    BY FS_Singleton
  <2> QED
    BY <1>8, <2>2, <2>3
<1>9. CASE b \notin heap \ lost
  <2>1. Owners(b) = {}
    BY <1>4, <1>7, <1>9
  <2> QED
    BY <1>9, <2>1, FS_EmptySet
<1> QED
  BY <1>8, <1>9

\* Every block in use that no assignment left behind has exactly one owner that
\* will free it, and nothing owns a block that was freed or lost: no double free
\* and no further leak, for any number of variables, blocks and causes.
THEOREM OwnedOnce == Spec => []OneOwner
  BY BooksBalance, OwnInvOneOwner, PTL
==============================================================================
