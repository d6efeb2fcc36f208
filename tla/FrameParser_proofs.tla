-------------------------- MODULE FrameParser_proofs --------------------------
(***************************************************************************)
(* For every sequence of frames and text, cut by reads wherever they like: *)
(* the update thread finds the frames, and nothing else, and only a header *)
(* that announces too much makes it deaf.                                  *)
(***************************************************************************)
EXTENDS FrameParser, Sums_proofs, TLAPS

LEMMA Bytes ==
  /\ Char \subseteq Byte /\ H1 \in Byte /\ H2 \in Byte /\ Byte \subseteq Nat
  /\ H1 \notin Char /\ H2 \notin Char /\ ST \in Char /\ ED \in Char
  BY FrameAssumption DEF Byte

LEMMA SumIsByte ==
  ASSUME NEW count \in Nat, NEW points \in Seq(Byte)
  PROVE  Sum(count, points) \in Byte
  <1>1. points \in Seq(Nat)
    <2>1. \A i \in 1..Len(points) : points[i] \in Byte
      OBVIOUS
    <2>2. \A i \in 1..Len(points) : points[i] \in Nat
      BY <2>1, Bytes
    <2> QED
      BY <2>2
  <1>2. SumOf(points) \in Nat
    BY <1>1, SumIsNat
  <1>3. Top \in Nat
    BY FrameAssumption
  <1>4. count + SumOf(points) \in Nat /\ Top + 1 \in Nat \ {0}
    BY <1>2, <1>3
  <1> HIDE DEF Byte
  <1> QED
    BY <1>3, <1>4 DEF Sum, Byte

LEMMA Widened ==
  ASSUME NEW c \in Nat, NEW w \in Widths
  PROVE  c * w \in Nat /\ c <= c * w /\ c * w <= 2 * c /\ (c * w) \div w = c
  BY DEF Widths

LEMMA Multiples ==
  ASSUME NEW c \in Nat, NEW d \in Nat, c <= d, NEW w \in Widths
  PROVE  (c * w) % w = 0 /\ c * w <= d * w /\ (c * w) \div w = c
  BY DEF Widths

LEMMA Narrowed ==
  ASSUME NEW n \in Nat, NEW w \in Widths, n % w = 0
  PROVE  n \div w \in Nat /\ (n \div w) * w = n
  BY DEF Widths

\* What DropFirst and concatenation do to the places of bytes.
LEMMA Dropped ==
  ASSUME NEW s \in Seq(Byte), NEW n \in 0..Len(s)
  PROVE  /\ DropFirst(n, s) \in Seq(Byte) /\ Len(DropFirst(n, s)) = Len(s) - n
         /\ \A i \in 1..(Len(s) - n) : DropFirst(n, s)[i] = s[i + n]
  BY DEF DropFirst

LEMMA Joined ==
  ASSUME NEW s \in Seq(Byte), NEW t \in Seq(Byte)
  PROVE  /\ s \o t \in Seq(Byte) /\ Len(s \o t) = Len(s) + Len(t)
         /\ \A i \in 1..Len(s) : (s \o t)[i] = s[i]
         /\ \A i \in 1..Len(t) : (s \o t)[i + Len(s)] = t[i]
  OBVIOUS

\* Sequences of bytes are equal that have the same length and elements.
LEMMA SameBytes ==
  ASSUME NEW s \in Seq(Byte), NEW t \in Seq(Byte), Len(s) = Len(t),
         \A i \in 1..Len(s) : s[i] = t[i]
  PROVE  s = t
  OBVIOUS

-----------------------------------------------------------------------------
(***************************************************************************)
(* Where the search for a header ends.                                     *)
(***************************************************************************)
End == [at : 1..(Len(buffer) + 1), found : BOOLEAN]

\* Where it ends from i, if r says so for later places.
Look(i, past, r) ==
  IF i + Overhead > Len(buffer) THEN [at |-> i, found |-> FALSE]
  ELSE LET j == IF IsBlock(i) THEN i + Overhead ELSE i
       IN  IF IsHeader(j, past) THEN [at |-> j, found |-> TRUE] ELSE r[j + 1]

IsSearch(f, past) == f = [i \in 1..(Len(buffer) + 1) |->
  IF i + Overhead > Len(buffer) THEN [at |-> i, found |-> FALSE]
  ELSE LET j == IF IsBlock(i) THEN i + Overhead ELSE i
       IN  IF IsHeader(j, past) THEN [at |-> j, found |-> TRUE] ELSE f[j + 1]]

LEMMA LookIsEnd ==
  ASSUME buffer \in Seq(Byte), NEW past, NEW i \in 1..(Len(buffer) + 1), NEW r,
         \A k \in (i + 1)..(Len(buffer) + 1) : r[k] \in End
  PROVE  Look(i, past, r) \in End
  <1>1. Len(buffer) \in Nat
    OBVIOUS
  <1>2. CASE i + Overhead > Len(buffer)
    BY <1>2 DEF Look, End
  <1>3. CASE i + Overhead <= Len(buffer)
    <2> DEFINE j == IF IsBlock(i) THEN i + Overhead ELSE i
    <2>1. j \in 1..Len(buffer) /\ j + 1 \in (i + 1)..(Len(buffer) + 1)
      BY <1>1, <1>3 DEF Overhead
    <2>2. Look(i, past, r) = IF IsHeader(j, past) THEN [at |-> j, found |-> TRUE]
                                                  ELSE r[j + 1]
      BY <1>1, <1>3 DEF Look, Overhead
    <2> HIDE DEF j
    <2>3. CASE IsHeader(j, past)
      BY <1>1, <2>1, <2>2, <2>3 DEF End
    <2>4. CASE ~IsHeader(j, past)
      BY <2>1, <2>2, <2>4
    <2> QED
      BY <2>3, <2>4
  <1> QED
    BY <1>1, <1>2, <1>3 DEF Overhead

\* The recursion of the search has a solution: places are looked at from the
\* last one down.
LEMMA SearchExists ==
  ASSUME buffer \in Seq(Byte), NEW past
  PROVE  \E f : IsSearch(f, past)
  <1> DEFINE n == Len(buffer) + 1
             Solves(f, k) == \A i \in (n - k)..n : f[i] = Look(i, past, f) /\ f[i] \in End
             S == {k \in Nat : k < n => \E f : Solves(f, k)}
  <1>1. n \in Nat /\ n >= 1
    OBVIOUS
  <1>2. \A i : \A f, g : (\A k \in (i + 1)..n : f[k] = g[k]) /\ i \in 1..n
                           => Look(i, past, f) = Look(i, past, g)
    <2> SUFFICES ASSUME NEW i \in 1..n, NEW f, NEW g,
                        \A k \in (i + 1)..n : f[k] = g[k],
                        ~(i + Overhead > Len(buffer))
                 PROVE  Look(i, past, f) = Look(i, past, g)
      BY DEF Look
    <2>1. i + 1 \in (i + 1)..n /\ (i + Overhead) + 1 \in (i + 1)..n
      BY <1>1 DEF Overhead
    <2>2. f[i + 1] = g[i + 1] /\ f[(i + Overhead) + 1] = g[(i + Overhead) + 1]
      BY <2>1
    <2> QED
      BY <2>2 DEF Look
  <1>3. 0 \in S
    <2> DEFINE f == [i \in {n} |-> [at |-> n, found |-> FALSE]]
    <2>1. Look(n, past, f) = [at |-> n, found |-> FALSE]
      BY <1>1 DEF Look, Overhead
    <2>2. [at |-> n, found |-> FALSE] \in End
      BY <1>1 DEF End
    <2>3. \A i \in (n - 0)..n : i = n
      BY <1>1
    <2>4. Solves(f, 0)
      BY <2>1, <2>2, <2>3
    <2> QED
      BY <2>4
  <1>4. ASSUME NEW k \in Nat, k \in S
        PROVE  k + 1 \in S
    <2> SUFFICES ASSUME k + 1 < n PROVE \E g : Solves(g, k + 1)
      <3> HIDE DEF Solves
      <3>1. k + 1 \in Nat
        OBVIOUS
      <3> QED
        BY <3>1
    <2>1. PICK f : Solves(f, k)
      <3> HIDE DEF Solves
      <3>1. k < n
        BY <1>1
      <3> QED
        BY <1>4, <3>1
    <2> DEFINE i == n - (k + 1)
               g == [x \in 1..n |-> IF x = i THEN Look(i, past, f) ELSE f[x]]
    <2>2. i \in 1..n /\ i + 1 = n - k
      BY <1>1
    <2>3. \A x \in (i + 1)..n : x \in 1..n /\ x # i /\ g[x] = f[x]
      BY <1>1, <2>2
    <2>4. g[i] = Look(i, past, f)
      BY <2>2
    <2> HIDE DEF g, i
    <2>5. Look(i, past, f) \in End
      BY <2>1, <2>2, LookIsEnd
    <2>6. g[i] = Look(i, past, g)
      BY <1>2, <2>2, <2>3, <2>4
    <2>7. ASSUME NEW x \in (i + 1)..n
          PROVE  g[x] = Look(x, past, g) /\ g[x] \in End
      <3>1. f[x] = Look(x, past, f) /\ f[x] \in End
        BY <2>1, <2>2
      <3>2. \A y \in (x + 1)..n : y \in (i + 1)..n
        BY <1>1, <2>2
      <3>3. Look(x, past, f) = Look(x, past, g)
        BY <1>2, <2>3, <3>2
      <3> QED
        BY <2>3, <3>1, <3>3
    <2>8. \A x \in i..n : x = i \/ x \in (i + 1)..n
      BY <2>2
    <2>9. Solves(g, k + 1)
      BY <2>4, <2>5, <2>6, <2>7, <2>8 DEF i
    <2> QED
      BY <2>9
  <1> HIDE DEF S
  <1>5. n - 1 \in S
    BY <1>1, <1>3, <1>4, Induction
  <1>6. PICK f : Solves(f, n - 1)
    <2>1. n - 1 < n
      BY <1>1
    <2> HIDE DEF Solves
    <2> QED
      BY <1>5, <2>1 DEF S
  <1> DEFINE g == [i \in 1..n |-> f[i]]
  <1>7. \A i \in 1..n : g[i] = Look(i, past, g)
    <2> SUFFICES ASSUME NEW i \in 1..n PROVE g[i] = Look(i, past, g)
      OBVIOUS
    <2>1. i \in (n - (n - 1))..n
      BY <1>1
    <2>2. \A k \in (i + 1)..n : f[k] = g[k]
      BY <1>1
    <2> HIDE DEF g
    <2>3. Look(i, past, f) = Look(i, past, g)
      BY <1>2, <2>2
    <2> QED
      BY <1>6, <2>1, <2>3 DEF g
  <1>8. IsSearch(g, past)
    <2>1. g = [i \in 1..n |-> g[i]]
      OBVIOUS
    <2> HIDE DEF g
    <2>2. g = [i \in 1..n |-> Look(i, past, g)]
      BY <1>7, <2>1
    <2> QED
      BY <2>2 DEF IsSearch, Look
  <1> QED
    BY <1>8

\* The search is the first of the ends, each of which is the look from there.
LEMMA SearchLooks ==
  ASSUME buffer \in Seq(Byte), NEW past
  PROVE  \E f : /\ \A i \in 1..(Len(buffer) + 1) : f[i] = Look(i, past, f)
                /\ Search(past) = f[1]
  <1> DEFINE f == CHOOSE g : IsSearch(g, past)
  <1>1. IsSearch(f, past)
    BY SearchExists, Zenon
  <1>2. Search(past) = f[1]
    BY Zenon DEF Search, IsSearch
  <1> HIDE DEF f
  <1>3. \A i \in 1..(Len(buffer) + 1) : f[i] = Look(i, past, f)
    BY <1>1 DEF IsSearch, Look
  <1> QED
    BY <1>2, <1>3

\* The search ends within the bytes or right behind them; with a header it
\* ends where one begins, without one where too few bytes for one are left.
LEMMA SearchEnds ==
  ASSUME buffer \in Seq(Byte), NEW past
  PROVE  /\ Search(past) \in End
         /\ IF Search(past).found
            THEN /\ Search(past).at <= Len(buffer)
                 /\ IsHeader(Search(past).at, past)
            ELSE Search(past).at + Overhead > Len(buffer)
  <1> DEFINE n == Len(buffer) + 1
             Good(e) == /\ e \in End
                        /\ IF e.found THEN /\ e.at <= Len(buffer)
                                           /\ IsHeader(e.at, past)
                                      ELSE e.at + Overhead > Len(buffer)
  <1>1. n \in Nat /\ n >= 1
    OBVIOUS
  <1>2. PICK f : /\ \A i \in 1..n : f[i] = Look(i, past, f)
                 /\ Search(past) = f[1]
    BY SearchLooks
  <1> DEFINE S == {k \in Nat : k < n => \A i \in (n - k)..n : Good(f[i])}
  <1>3. ASSUME NEW i \in 1..n, \A k \in (i + 1)..n : Good(f[k])
        PROVE  Good(f[i])
    <2>0. f[i] = Look(i, past, f)
      BY <1>2
    <2>1. CASE i + Overhead > Len(buffer)
      BY <2>0, <2>1 DEF Look, End
    <2>2. CASE ~(i + Overhead > Len(buffer))
      <3> DEFINE j == IF IsBlock(i) THEN i + Overhead ELSE i
      <3>1. j \in 1..Len(buffer) /\ j + 1 \in (i + 1)..n
        BY <1>1, <2>2 DEF Overhead
      <3>2. f[i] = IF IsHeader(j, past) THEN [at |-> j, found |-> TRUE] ELSE f[j + 1]
        BY <2>0, <2>2 DEF Look
      <3> HIDE DEF j
      <3>3. CASE IsHeader(j, past)
        BY <1>1, <3>1, <3>2, <3>3 DEF End
      <3>4. CASE ~IsHeader(j, past)
        BY <1>3, <3>1, <3>2, <3>4
      <3> QED
        BY <3>3, <3>4
    <2> QED
      BY <2>1, <2>2
  <1> HIDE DEF Good
  <1>4. 0 \in S
    <2>1. n \in 1..n /\ \A k \in (n + 1)..n : Good(f[k])
      BY <1>1
    <2>2. Good(f[n])
      BY <1>3, <2>1
    <2>3. \A i \in (n - 0)..n : i = n
      BY <1>1
    <2> QED
      BY <2>2, <2>3
  <1>5. ASSUME NEW k \in Nat, k \in S
        PROVE  k + 1 \in S
    <2> SUFFICES ASSUME k + 1 < n, NEW i \in (n - (k + 1))..n PROVE Good(f[i])
      OBVIOUS
    <2>1. \A x \in (n - k)..n : Good(f[x])
      BY <1>1, <1>5
    <2>2. i \in 1..n /\ \A x \in (i + 1)..n : x \in (n - k)..n
      BY <1>1
    <2> QED
      BY <1>3, <2>1, <2>2
  <1> HIDE DEF S
  <1>6. n - 1 \in S
    BY <1>1, <1>4, <1>5, Induction
  <1>7. 1 \in (n - (n - 1))..n /\ n - 1 < n
    BY <1>1
  <1>8. Good(f[1])
    BY <1>6, <1>7 DEF S
  <1> QED
    BY <1>2, <1>8 DEF Good

-----------------------------------------------------------------------------
(***************************************************************************)
(* Types.                                                                  *)
(***************************************************************************)
LEMMA FrameBytes ==
  ASSUME NEW w \in Widths, NEW p \in Seq(Byte), Len(p) % w = 0,
         Len(p) <= MaxPoints * w
  PROVE  /\ Len(p) \div w \in 0..MaxPoints /\ (Len(p) \div w) * w = Len(p)
         /\ Frame(p, w) \in Seq(Byte) /\ Len(Frame(p, w)) = Len(p) + Overhead
         /\ Frame(p, w)[1] = H1 /\ Frame(p, w)[2] = H2
         /\ Frame(p, w)[3] = Len(p) \div w
         /\ \A i \in 1..Len(p) : Frame(p, w)[i + 3] = p[i]
         /\ Frame(p, w)[Len(p) + 4] = Sum(Len(p) \div w, p)
  <1> DEFINE c == Len(p) \div w
             x == Sum(c, p)
             head == <<H1, H2, c>>
             last == <<x>>
  <1>1. Len(p) \in Nat /\ MaxPoints \in 1..Top /\ Top \in Nat
    BY FrameAssumption
  <1>2. c \in Nat /\ c * w = Len(p)
    BY <1>1, Narrowed
  <1>3. c \in 0..MaxPoints
    <2>1. w \in Nat /\ w >= 1
      BY DEF Widths
    <2> HIDE DEF c
    <2> QED
      BY <1>1, <1>2, <2>1 DEF Widths
  <1>4. c \in Byte
    BY <1>1, <1>3 DEF Byte
  <1>5. x \in Byte
    BY <1>2, SumIsByte
  <1> HIDE DEF c, x
  <1>6. /\ head \in Seq(Byte) /\ Len(head) = 3
        /\ head[1] = H1 /\ head[2] = H2 /\ head[3] = c
    BY <1>4, Bytes
  <1>7. last \in Seq(Byte) /\ Len(last) = 1 /\ last[1] = x
    BY <1>5
  <1> HIDE DEF head, last
  <1>8. Frame(p, w) = (head \o p) \o last
    BY DEF Frame, head, last, x, c
  <1>9. /\ head \o p \in Seq(Byte) /\ Len(head \o p) = Len(p) + 3
        /\ \A i \in 1..3 : (head \o p)[i] = head[i]
        /\ \A i \in 1..Len(p) : (head \o p)[i + 3] = p[i]
    <2>1. /\ head \o p \in Seq(Byte) /\ Len(head \o p) = Len(head) + Len(p)
          /\ \A i \in 1..Len(head) : (head \o p)[i] = head[i]
          /\ \A i \in 1..Len(p) : (head \o p)[i + Len(head)] = p[i]
      BY <1>6, Joined
    <2> QED
      BY <1>1, <1>6, <2>1
  <1> DEFINE hp == head \o p
  <1> HIDE DEF hp
  <1>10. /\ hp \o last \in Seq(Byte) /\ Len(hp \o last) = Len(p) + 4
         /\ \A i \in 1..(Len(p) + 3) : (hp \o last)[i] = hp[i]
         /\ \A i \in 1..1 : (hp \o last)[i + (Len(p) + 3)] = last[i]
    <2>1. hp \in Seq(Byte) /\ Len(hp) = Len(p) + 3
      BY <1>9 DEF hp
    <2>2. /\ hp \o last \in Seq(Byte) /\ Len(hp \o last) = Len(hp) + Len(last)
          /\ \A i \in 1..Len(hp) : (hp \o last)[i] = hp[i]
          /\ \A i \in 1..Len(last) : (hp \o last)[i + Len(hp)] = last[i]
      BY <1>7, <2>1, Joined
    <2> QED
      BY <1>1, <1>7, <2>1, <2>2
  <1>11. (hp \o last)[Len(p) + 4] = x
    <2>1. 1 \in 1..1 /\ 1 + (Len(p) + 3) = Len(p) + 4
      BY <1>1
    <2> QED
      BY <1>7, <1>10, <2>1
  <1>12. /\ (hp \o last)[1] = H1 /\ (hp \o last)[2] = H2 /\ (hp \o last)[3] = c
         /\ \A i \in 1..Len(p) : (hp \o last)[i + 3] = p[i]
    <2>1. /\ 1 \in 1..(Len(p) + 3) /\ 2 \in 1..(Len(p) + 3) /\ 3 \in 1..(Len(p) + 3)
          /\ \A i \in 1..Len(p) : i + 3 \in 1..(Len(p) + 3)
      BY <1>1
    <2>2. hp[1] = H1 /\ hp[2] = H2 /\ hp[3] = c
      BY <1>6, <1>9 DEF hp
    <2>3. \A i \in 1..Len(p) : hp[i + 3] = p[i]
      BY <1>9 DEF hp
    <2> QED
      BY <1>10, <2>1, <2>2, <2>3
  <1>13. Frame(p, w) = hp \o last
    BY <1>8 DEF hp
  <1> QED
    BY <1>2, <1>3, <1>10, <1>11, <1>12, <1>13 DEF c, x, Overhead

\* What a frame that is whole leaves when it is taken.
LEMMA FrameTaken ==
  ASSUME TypeOK, Whole
  PROVE  /\ Count \in Nat /\ Size \in 4..Len(buffer) /\ Count * width \in Nat
         /\ SubSeq(buffer, 4, Size - 1) \in Seq(Byte)
         /\ Len(SubSeq(buffer, 4, Size - 1)) = Count * width
         /\ \A i \in 1..(Count * width) :
              SubSeq(buffer, 4, Size - 1)[i] = buffer[i + 3]
         /\ DropFirst(Size, buffer) \in Seq(Byte)
         /\ Len(DropFirst(Size, buffer)) = Len(buffer) - Size
  <1>1. buffer \in Seq(Byte) /\ width \in Widths /\ Len(buffer) \in Nat
    BY DEF TypeOK
  <1>2. Len(buffer) >= 4 /\ Len(buffer) >= Size
    BY <1>1 DEF Whole, Overhead
  <1>3. Count \in Byte /\ Count \in Nat
    <2>1. buffer[3] \in Byte
      BY <1>1, <1>2
    <2> QED
      BY <2>1, Bytes DEF Count
  <1>4. Count * width \in Nat
    BY <1>1, <1>3, Widened
  <1>5. Size = 4 + Count * width
    BY DEF Size, Overhead
  <1> DEFINE cw == Count * width
  <1> HIDE DEF cw
  <1>6. Size \in 4..Len(buffer) /\ Size - 1 = 3 + cw
    BY <1>1, <1>2, <1>4, <1>5 DEF cw
  <1>7. /\ SubSeq(buffer, 4, 3 + cw) \in Seq(Byte)
        /\ Len(SubSeq(buffer, 4, 3 + cw)) = cw
        /\ \A i \in 1..cw : SubSeq(buffer, 4, 3 + cw)[i] = buffer[i + 3]
    <2>1. cw \in Nat /\ 3 + cw < Len(buffer)
      BY <1>1, <1>4, <1>6 DEF cw
    <2> QED
      BY <1>1, <2>1
  <1>8. Size \in 0..Len(buffer)
    BY <1>1, <1>6
  <1> HIDE DEF Size
  <1> QED
    BY <1>1, <1>3, <1>4, <1>6, <1>7, <1>8, Dropped DEF cw

LEMMA TypeStep == TypeOK /\ [Next]_vars => TypeOK'
  <1> SUFFICES ASSUME TypeOK, [Next]_vars PROVE TypeOK'
    OBVIOUS
  <1>0. /\ wire \in Seq(Byte) /\ Len(wire) <= MaxWire /\ Len(wire) \in Nat
        /\ sensorWidth \in Widths /\ width \in Widths
        /\ buffer \in Seq(Byte) /\ Len(buffer) <= BufferSize /\ Len(buffer) \in Nat
        /\ phase \in {"read", "search", "frames", "overrun"}
        /\ disturbed \in BOOLEAN
    BY DEF TypeOK
  <1>00. MaxWire \in Nat /\ BufferSize \in Nat
    BY FrameAssumption
  <1>1. ASSUME NEW bytes \in Seq(Byte), Send(bytes)
        PROVE  TypeOK'
    <2>1. wire \o bytes \in Seq(Byte) /\ Len(wire \o bytes) <= MaxWire
      BY <1>0, <1>1, Joined DEF Send
    <2> QED
      BY <1>0, <1>1, <2>1 DEF Send, TypeOK
  <1>2. CASE SendFrame
    <2>1. PICK q \in Payloads : /\ Len(q) % sensorWidth = 0
                                /\ Len(q) <= MaxPoints * sensorWidth
                                /\ Send(Frame(q, sensorWidth))
      BY <1>2 DEF SendFrame
    <2>2. Frame(q, sensorWidth) \in Seq(Byte)
      BY <1>0, <2>1, FrameBytes, FrameAssumption
    <2> QED
      BY <1>1, <2>1, <2>2
  <1>3. CASE SendText
    <2>1. PICK t \in Texts : Send(t)
      BY <1>3 DEF SendText
    <2>2. t \in Seq(Byte)
      <3>1. t \in Seq(Char)
        BY FrameAssumption
      <3>2. \A i \in 1..Len(t) : t[i] \in Char
        BY <3>1
      <3>3. \A i \in 1..Len(t) : t[i] \in Byte
        BY <3>2, Bytes
      <3> QED
        BY <3>1, <3>3
    <2> QED
      BY <1>1, <2>1, <2>2
  <1>4. CASE Spoil
    <2>1. PICK i \in DOMAIN wire, b \in Byte : wire' = [wire EXCEPT ![i] = b]
      BY <1>4 DEF Spoil
    <2>2. wire' \in Seq(Byte) /\ Len(wire') = Len(wire)
      BY <1>0, <2>1
    <2>3. disturbed' \in BOOLEAN
      <3>1. disturbed' = TRUE
        BY <1>4 DEF Spoil
      <3> QED
        BY <3>1
    <2> QED
      BY <1>0, <1>4, <2>2, <2>3 DEF Spoil, TypeOK
  <1>5. CASE SensorSwitches \/ enableIntensityData
    <2>1. disturbed' \in BOOLEAN
      <3>1. disturbed' = TRUE
        BY <1>5 DEF SensorSwitches, enableIntensityData
      <3> QED
        BY <3>1
    <2> QED
      BY <1>0, <1>5, <2>1 DEF SensorSwitches, enableIntensityData, TypeOK
  <1>6. CASE Restart
    <2>1. disturbed' \in BOOLEAN
      <3>1. disturbed' = (wire # <<>> \/ width # sensorWidth)
        BY <1>6 DEF Restart
      <3> QED
        BY <3>1
    <2> QED
      BY <1>0, <1>00, <1>6, <2>1 DEF Restart, TypeOK
  <1>7. CASE Read
    <2>1. PICK n \in 1..(BufferSize - Len(buffer)) \intersect DOMAIN wire :
            /\ buffer' = buffer \o SubSeq(wire, 1, n)
            /\ wire' = DropFirst(n, wire)
      BY <1>7 DEF Read
    <2>2. n \in 0..Len(wire) /\ n <= BufferSize - Len(buffer) /\ n \in Nat
      BY <1>0, <1>00
    <2>3. SubSeq(wire, 1, n) \in Seq(Byte) /\ Len(SubSeq(wire, 1, n)) = n
      BY <1>0, <2>2
    <2>4. buffer' \in Seq(Byte) /\ Len(buffer') <= BufferSize
      <3>1. /\ buffer' \in Seq(Byte)
            /\ Len(buffer') = Len(buffer) + Len(SubSeq(wire, 1, n))
        BY <1>0, <2>1, <2>3, Joined
      <3> QED
        BY <1>0, <1>00, <2>2, <2>3, <3>1
    <2>5. wire' \in Seq(Byte) /\ Len(wire') <= MaxWire
      BY <1>0, <1>00, <2>1, <2>2, Dropped
    <2> QED
      BY <1>0, <1>7, <2>4, <2>5 DEF Read, TypeOK
  <1>8. CASE SkipText
    <2>1. PICK past \in Byte :
            LET end == Search(past)
            IN  /\ buffer' = DropFirst(end.at - 1, buffer)
                /\ phase' = IF end.found THEN "frames" ELSE "read"
                /\ disturbed' = (disturbed \/ (/\ end.at > Len(buffer)
                                               /\ buffer[Len(buffer)] = H1))
      BY <1>8 DEF SkipText
    <2>2. Search(past).at - 1 \in 0..Len(buffer)
      BY <1>0, SearchEnds DEF End
    <2>3. buffer' \in Seq(Byte) /\ Len(buffer') <= BufferSize
      BY <1>0, <1>00, <2>1, <2>2, Dropped
    <2>4. disturbed' \in BOOLEAN
      BY <2>1
    <2> QED
      BY <1>0, <1>8, <2>1, <2>3, <2>4 DEF SkipText, TypeOK
  <1>9. CASE TakeFrame
    <2>1. Whole /\ buffer' = DropFirst(Size, buffer)
      BY <1>9 DEF TakeFrame
    <2>2. scan' \in {None, SubSeq(buffer, 4, Size - 1)}
      BY <1>9 DEF TakeFrame
    <2>3. /\ SubSeq(buffer, 4, Size - 1) \in Seq(Byte)
          /\ buffer' \in Seq(Byte) /\ Len(buffer') <= BufferSize
      BY <1>0, <1>00, <2>1, FrameTaken
    <2>4. scan' \in Seq(Byte) \union {None}
      <3> DEFINE points == SubSeq(buffer, 4, Size - 1)
      <3>1. points \in Seq(Byte) /\ scan' \in {None, points}
        BY <2>2, <2>3
      <3> HIDE DEF points
      <3> QED
        BY <3>1
    <2>5. phase' \in {"frames", "read"}
      BY <1>9 DEF TakeFrame
    <2> QED
      BY <1>0, <1>9, <2>3, <2>4, <2>5 DEF TakeFrame, TypeOK
  <1>10. CASE AwaitFrame \/ Overrun
    BY <1>0, <1>10 DEF AwaitFrame, Overrun, TypeOK
  <1>11. CASE UNCHANGED vars
    BY <1>11 DEF vars, TypeOK
  <1> QED
    BY <1>2, <1>3, <1>4, <1>5, <1>6, <1>7, <1>8, <1>9, <1>10, <1>11 DEF Next

\* Every variable keeps its type: the buffer never holds more than it has room
\* for, however reads and searches cut the bytes.
THEOREM TypeCorrect == Spec => []TypeOK
  <1>1. Init => TypeOK
    <2> SUFFICES ASSUME Init PROVE TypeOK
      OBVIOUS
    <2>1. MaxWire \in Nat /\ BufferSize \in Nat
      BY FrameAssumption
    <2>2. disturbed \in BOOLEAN
      <3>1. disturbed = (width # sensorWidth)
        BY DEF Init
      <3> QED
        BY <3>1
    <2>3. wire = <<>> /\ buffer = <<>> /\ scan = None
      BY DEF Init
    <2> QED
      BY <2>1, <2>2, <2>3 DEF Init, TypeOK
  <1> QED
    BY <1>1, TypeStep, PTL DEF Spec

-----------------------------------------------------------------------------
(***************************************************************************)
(* Deafness.  Behind a frame or a search without a header there is room in *)
(* the buffer again; only a frame that is waited for can fill it.          *)
(***************************************************************************)
AtHeader ==
  phase = "frames" =>
    /\ buffer # <<>> /\ buffer[1] = H1
    /\ Len(buffer) >= 2 => buffer[2] = H2

LEMMA HearingStep ==
  ASSUME TypeOK, AtHeader, DeafOnlyToOversize, [Next]_vars
  PROVE  AtHeader' /\ DeafOnlyToOversize'
  <1>0. /\ buffer \in Seq(Byte) /\ Len(buffer) \in Nat /\ Len(buffer) <= BufferSize
        /\ width \in Widths
    BY DEF TypeOK
  <1>00. BufferSize \in Nat /\ BufferSize > Overhead /\ Overhead = 4
    BY FrameAssumption DEF Overhead
  <1>1. CASE SkipText
    <2>1. PICK past \in Byte :
            LET end == Search(past)
            IN  /\ buffer' = DropFirst(end.at - 1, buffer)
                /\ phase' = IF end.found THEN "frames" ELSE "read"
      BY <1>1 DEF SkipText
    <2> DEFINE end == Search(past)  n == end.at - 1
    <2>2. /\ n \in 0..Len(buffer) /\ end.at \in 1..(Len(buffer) + 1)
          /\ end.found \in BOOLEAN
          /\ IF end.found THEN end.at <= Len(buffer) /\ IsHeader(end.at, past)
                          ELSE end.at + Overhead > Len(buffer)
      BY <1>0, SearchEnds DEF End
    <2> HIDE DEF end
    <2>3. /\ buffer' \in Seq(Byte) /\ Len(buffer') = Len(buffer) - n
          /\ \A i \in 1..(Len(buffer) - n) : buffer'[i] = buffer[i + n]
      BY <1>0, <2>1, <2>2, Dropped DEF end
    <2>4. CASE end.found
      <3>1. 1 \in 1..(Len(buffer) - n) /\ 1 + n = end.at /\ buffer' # <<>>
        BY <1>0, <2>2, <2>3, <2>4
      <3>2. buffer'[1] = H1
        BY <2>2, <2>3, <2>4, <3>1 DEF IsHeader
      <3>3. Len(buffer') >= 2 => buffer'[2] = H2
        <4> SUFFICES ASSUME Len(buffer') >= 2 PROVE buffer'[2] = H2
          OBVIOUS
        <4>1. 2 \in 1..(Len(buffer) - n) /\ 2 + n = end.at + 1 /\ end.at < Len(buffer)
          BY <1>0, <2>2, <2>3
        <4> QED
          BY <2>2, <2>3, <2>4, <4>1 DEF IsHeader
      <3>4. phase' = "frames"
        BY <2>1, <2>4 DEF end
      <3> QED
        BY <3>1, <3>2, <3>3, <3>4 DEF AtHeader, DeafOnlyToOversize, Deaf
    <2>5. CASE ~end.found
      <3>1. phase' = "read"
        BY <2>1, <2>5 DEF end
      <3>2. Len(buffer') <= Overhead
        BY <1>0, <1>00, <2>2, <2>3, <2>5
      <3>3. Len(buffer') \in Nat /\ Len(buffer') # BufferSize
        BY <1>00, <2>3, <3>2
      <3> QED
        BY <3>1, <3>3 DEF AtHeader, DeafOnlyToOversize, Deaf
    <2> QED
      BY <2>2, <2>4, <2>5
  <1>2. CASE TakeFrame
    <2>1. /\ Whole /\ buffer' = DropFirst(Size, buffer)
          /\ phase' = IF /\ Len(buffer') >= Overhead
                         /\ buffer'[1] = H1 /\ buffer'[2] = H2
                      THEN "frames" ELSE "read"
      BY <1>2 DEF TakeFrame
    <2>2. /\ buffer' \in Seq(Byte) /\ Size \in 4..Len(buffer)
          /\ Len(buffer') = Len(buffer) - Size
      BY <2>1, FrameTaken
    <2>3. Len(buffer') \in Nat /\ Len(buffer') < BufferSize
      BY <1>0, <1>00, <2>2
    <2>4. AtHeader'
      <3> SUFFICES ASSUME phase' = "frames"
                   PROVE  buffer' # <<>> /\ buffer'[1] = H1 /\ buffer'[2] = H2
        BY DEF AtHeader
      <3>1. Len(buffer') >= Overhead /\ buffer'[1] = H1 /\ buffer'[2] = H2
        BY <2>1
      <3> QED
        BY <1>00, <2>2, <3>1
    <2> QED
      BY <2>3, <2>4 DEF DeafOnlyToOversize, Deaf
  <1>3. CASE AwaitFrame
    <2>1. /\ phase = "frames" /\ ~Whole /\ phase' = "read"
          /\ UNCHANGED <<width, buffer>>
      BY <1>3 DEF AwaitFrame
    <2>2. DeafOnlyToOversize'
      <3> SUFFICES ASSUME Len(buffer) = BufferSize
                   PROVE  IsHeader(1, H2) /\ Overhead + 2 * Count > BufferSize
        BY <2>1 DEF DeafOnlyToOversize, Deaf, IsHeader, Count
      <3>1. IsHeader(1, H2)
        BY <1>00, <2>1 DEF AtHeader, IsHeader
      <3>2. Count \in Nat
        <4>1. buffer[3] \in Byte
          BY <1>0, <1>00
        <4> QED
          BY <4>1, Bytes DEF Count
      <3>3. Size > BufferSize
        <4>1. Count * width \in Nat
          BY <1>0, <3>2, Widened
        <4> QED
          BY <1>0, <1>00, <2>1, <4>1 DEF Whole, Size
      <3>4. Count * width \in Nat /\ Count * width <= 2 * Count
        BY <1>0, <3>2, Widened
      <3> QED
        BY <1>00, <3>1, <3>2, <3>3, <3>4 DEF Size
    <2> QED
      BY <2>1, <2>2 DEF AtHeader
  <1>4. CASE Restart
    <2>1. buffer' = <<>> /\ phase' = "read"
      BY <1>4 DEF Restart
    <2>2. Len(buffer') # BufferSize
      BY <1>00, <2>1
    <2> QED
      BY <2>1, <2>2 DEF AtHeader, DeafOnlyToOversize, Deaf
  <1>5. CASE Read \/ Overrun
    BY <1>5 DEF Read, Overrun, AtHeader, DeafOnlyToOversize, Deaf
  <1>6. CASE \/ SendFrame \/ SendText \/ Spoil \/ SensorSwitches
             \/ enableIntensityData \/ UNCHANGED vars
    <2>1. UNCHANGED <<buffer, phase>>
      BY <1>6 DEF SendFrame, SendText, Send, Spoil, SensorSwitches,
                  enableIntensityData, vars
    <2> QED
      BY <2>1 DEF AtHeader, DeafOnlyToOversize, Deaf, IsHeader, Count
  <1> QED
    BY <1>1, <1>2, <1>3, <1>4, <1>5, <1>6 DEF Next

\* Whatever arrives, nothing is read any more only behind a header whose count
\* is too large for the buffer.
THEOREM Hears == Spec => []DeafOnlyToOversize
  <1> DEFINE Inv == AtHeader /\ DeafOnlyToOversize
  <1>1. Init => Inv
    <2> SUFFICES ASSUME Init PROVE Inv
      OBVIOUS
    <2>1. BufferSize \in Nat /\ BufferSize > 0
      BY FrameAssumption DEF Overhead
    <2>2. buffer = <<>> /\ phase = "read"
      BY DEF Init
    <2> QED
      BY <2>1, <2>2 DEF AtHeader, DeafOnlyToOversize, Deaf
  <1>2. TypeOK /\ Inv /\ [Next]_vars => Inv'
    BY HearingStep
  <1> QED
    BY <1>1, <1>2, TypeCorrect, PTL DEF Spec

-----------------------------------------------------------------------------
(***************************************************************************)
(* Frames and text.  While nothing is disturbed, the bytes held and under  *)
(* way are whole frames, which start at the marks M, and text.             *)
(***************************************************************************)
EndAt(s, w, m) == m + 3 + s[m + 2] * w

FrameAt(s, w, m) ==
  /\ m \in 1..Len(s) /\ m + 2 <= Len(s) /\ EndAt(s, w, m) <= Len(s)
  /\ s[m] = H1 /\ s[m + 1] = H2 /\ s[m + 2] \in 0..MaxPoints
  /\ s[EndAt(s, w, m)] = Sum(s[m + 2], SubSeq(s, m + 3, EndAt(s, w, m) - 1))

Marked(s, w, M) ==
  /\ \A m \in M : FrameAt(s, w, m)
  /\ \A m, n \in M : m < n => EndAt(s, w, m) < n
  /\ \A i \in 1..Len(s) :
       s[i] \in Char \/ \E m \in M : m <= i /\ i <= EndAt(s, w, m)

LEMMA FrameEnd ==
  ASSUME NEW s \in Seq(Byte), NEW w \in Widths, NEW m, FrameAt(s, w, m)
  PROVE  /\ m \in Nat /\ m >= 1 /\ s[m + 2] \in Nat /\ s[m + 2] * w \in Nat
         /\ EndAt(s, w, m) \in Nat /\ EndAt(s, w, m) >= m + 3
  <1>1. m \in Nat /\ m >= 1 /\ s[m + 2] \in Nat
    BY FrameAssumption DEF FrameAt
  <1>2. s[m + 2] * w \in Nat
    BY <1>1, Widened
  <1> DEFINE cw == s[m + 2] * w
  <1>3. EndAt(s, w, m) = m + 3 + cw
    BY DEF EndAt
  <1> HIDE DEF cw
  <1> QED
    BY <1>1, <1>2, <1>3 DEF cw

LEMMA SameSub ==
  ASSUME NEW s \in Seq(Byte), NEW t \in Seq(Byte), NEW a \in Nat, NEW b \in Nat,
         NEW d \in Int, a >= 1, b <= Len(s), a + d >= 1, b + d <= Len(t),
         a <= b + 1, \A i \in a..b : t[i + d] = s[i]
  PROVE  SubSeq(t, a + d, b + d) = SubSeq(s, a, b)
  <1> DEFINE x == SubSeq(t, a + d, b + d)  y == SubSeq(s, a, b)  n == b + 1 - a
  <1>1. y \in Seq(Byte) /\ Len(y) = n /\ \A i \in 1..n : y[i] = s[a + i - 1]
    BY SMT
  <1>2. /\ x \in Seq(Byte) /\ Len(x) = n
        /\ \A i \in 1..n : x[i] = t[(a + d) + i - 1]
    BY SMT
  <1>3. \A i \in 1..n : a + i - 1 \in a..b /\ (a + d) + i - 1 = (a + i - 1) + d
    OBVIOUS
  <1> HIDE DEF x, y
  <1>4. \A i \in 1..n : x[i] = y[i]
    BY <1>1, <1>2, <1>3
  <1>5. x = y
    BY <1>1, <1>2, <1>4, SameBytes
  <1> QED
    BY <1>5 DEF x, y

Copied(s, t, a, b, d) == \A i \in a..b : t[i + d] = s[i]

\* A frame is one wherever its bytes stand.
LEMMA FrameMoved ==
  ASSUME NEW s \in Seq(Byte), NEW t \in Seq(Byte), NEW w \in Widths,
         NEW m, FrameAt(s, w, m), NEW d \in Int, m + d >= 1,
         EndAt(s, w, m) + d <= Len(t), Copied(s, t, m, EndAt(s, w, m), d)
  PROVE  FrameAt(t, w, m + d) /\ EndAt(t, w, m + d) = EndAt(s, w, m) + d
  <1> DEFINE e == EndAt(s, w, m)  cw == s[m + 2] * w
  <1>1. /\ m \in Nat /\ e \in Nat /\ e >= m + 3 /\ e <= Len(s)
        /\ e = m + 3 + cw /\ cw \in Nat
    BY FrameEnd DEF FrameAt, EndAt
  <1>2. m \in m..e /\ m + 1 \in m..e /\ m + 2 \in m..e /\ e \in m..e
    BY <1>1
  <1>3. /\ t[m + d] = s[m] /\ t[(m + d) + 1] = s[m + 1]
        /\ t[(m + d) + 2] = s[m + 2] /\ t[e + d] = s[e]
    <2>1. (m + d) + 1 = (m + 1) + d /\ (m + d) + 2 = (m + 2) + d
      BY <1>1
    <2>2. Copied(s, t, m, e, d)
      OBVIOUS
    <2> HIDE DEF e
    <2> QED
      BY <1>2, <2>1, <2>2 DEF Copied
  <1>4. EndAt(t, w, m + d) = e + d
    <2>1. EndAt(t, w, m + d) = (m + d) + 3 + cw
      BY <1>3 DEF EndAt
    <2> HIDE DEF cw, e
    <2> QED
      BY <1>1, <2>1
  <1>5. SubSeq(t, (m + d) + 3, (e + d) - 1) = SubSeq(s, m + 3, e - 1)
    <2> HIDE DEF e, cw
    <2> DEFINE a == m + 3  b == e - 1
    <2>1. /\ a \in Nat /\ b \in Nat /\ a >= 1 /\ b <= Len(s) /\ a + d >= 1
          /\ b + d <= Len(t) /\ a <= b + 1
          /\ a + d = (m + d) + 3 /\ b + d = (e + d) - 1
      BY <1>1 DEF e
    <2>2. \A i \in a..b : t[i + d] = s[i]
      <3>1. \A i \in a..b : i \in m..e
        BY <1>1
      <3> QED
        BY <3>1 DEF e, Copied
    <2> HIDE DEF a, b
    <2>3. SubSeq(t, a + d, b + d) = SubSeq(s, a, b)
      BY <2>1, <2>2, SameSub
    <2> QED
      BY <2>1, <2>3 DEF a, b
  <1>6. m + d \in 1..Len(t) /\ (m + d) + 2 <= Len(t) /\ e + d <= Len(t)
    BY <1>1
  <1> HIDE DEF e, cw
  <1> QED
    BY <1>3, <1>4, <1>5, <1>6 DEF FrameAt, e

\* More frames and text behind those there are.
LEMMA MarkedJoined ==
  ASSUME NEW s \in Seq(Byte), NEW t \in Seq(Byte), NEW w \in Widths,
         NEW M, NEW N, Marked(s, w, M), Marked(t, w, N)
  PROVE  Marked(s \o t, w, M \union {n + Len(s) : n \in N})
  <1> DEFINE u == s \o t  L == Len(s)  P == {n + L : n \in N}
  <1>1. /\ u \in Seq(Byte) /\ Len(u) = L + Len(t) /\ L \in Nat /\ Len(t) \in Nat
        /\ \A i \in 1..L : u[i] = s[i]
        /\ \A i \in 1..Len(t) : u[i + L] = t[i]
    BY Joined
  <1> HIDE DEF u, L
  <1>2. ASSUME NEW m \in M
        PROVE  /\ FrameAt(u, w, m) /\ EndAt(u, w, m) = EndAt(s, w, m)
               /\ m \in Nat /\ m >= 1 /\ EndAt(s, w, m) \in Nat
               /\ EndAt(s, w, m) <= L
    <2>1. FrameAt(s, w, m)
      BY DEF Marked
    <2>2. /\ m \in Nat /\ m >= 1 /\ EndAt(s, w, m) \in Nat
          /\ EndAt(s, w, m) <= L
      BY <2>1, FrameEnd DEF FrameAt, L
    <2> DEFINE d == 0
    <2>3. /\ m + d = m /\ EndAt(s, w, m) + d = EndAt(s, w, m) /\ d \in Int
          /\ m + d >= 1 /\ EndAt(s, w, m) + d <= Len(u)
          /\ Copied(s, u, m, EndAt(s, w, m), d)
      BY <1>1, <2>2 DEF Copied
    <2> HIDE DEF d
    <2>4. FrameAt(u, w, m + d) /\ EndAt(u, w, m + d) = EndAt(s, w, m) + d
      BY <1>1, <2>1, <2>2, <2>3, FrameMoved
    <2> QED
      BY <2>2, <2>3, <2>4
  <1>3. ASSUME NEW n \in N
        PROVE  /\ FrameAt(u, w, n + L) /\ EndAt(u, w, n + L) = EndAt(t, w, n) + L
               /\ n \in Nat /\ n >= 1 /\ EndAt(t, w, n) \in Nat
    <2>1. FrameAt(t, w, n)
      BY DEF Marked
    <2>2. /\ n \in Nat /\ n >= 1 /\ EndAt(t, w, n) \in Nat
          /\ EndAt(t, w, n) <= Len(t)
      BY <2>1, FrameEnd DEF FrameAt
    <2>3. /\ n + L >= 1 /\ EndAt(t, w, n) + L <= Len(u) /\ L \in Int
          /\ Copied(t, u, n, EndAt(t, w, n), L) /\ u \in Seq(Byte)
      BY <1>1, <2>2 DEF Copied
    <2>4. FrameAt(u, w, n + L) /\ EndAt(u, w, n + L) = EndAt(t, w, n) + L
      BY <1>1, <2>1, <2>2, <2>3, FrameMoved
    <2> QED
      BY <2>2, <2>4
  <1>4. \A m \in M \union P : FrameAt(u, w, m)
    BY <1>2, <1>3
  <1>5. ASSUME NEW m \in M \union P, NEW n \in M \union P, m < n
        PROVE  EndAt(u, w, m) < n
    <2>1. CASE m \in M /\ n \in M
      BY <1>2, <1>5, <2>1 DEF Marked
    <2>2. CASE m \in M /\ n \in P
      <3>1. PICK k \in N : n = k + L
        BY <2>2
      <3> QED
        BY <1>1, <1>2, <1>3, <2>2, <3>1
    <2>3. CASE m \in P /\ n \in M
      <3>1. PICK k \in N : m = k + L
        BY <2>3
      <3>2. n <= L
        <4>1. FrameAt(s, w, n)
          BY <2>3 DEF Marked
        <4> QED
          BY <4>1 DEF FrameAt, L
      <3> QED
        BY <1>1, <1>2, <1>3, <1>5, <2>3, <3>1, <3>2
    <2>4. CASE m \in P /\ n \in P
      <3>1. PICK k \in N : m = k + L
        BY <2>4
      <3>2. PICK l \in N : n = l + L
        BY <2>4
      <3>3. k < l
        BY <1>1, <1>3, <1>5, <3>1, <3>2
      <3>4. EndAt(t, w, k) < l
        BY <3>3 DEF Marked
      <3>5. EndAt(u, w, m) = EndAt(t, w, k) + L /\ EndAt(t, w, k) \in Nat /\ l \in Nat
        BY <1>3, <3>1, <3>2
      <3> QED
        BY <1>1, <3>2, <3>4, <3>5
    <2> QED
      BY <2>1, <2>2, <2>3, <2>4
  <1>6. ASSUME NEW i \in 1..Len(u)
        PROVE  u[i] \in Char \/ \E m \in M \union P : m <= i /\ i <= EndAt(u, w, m)
    <2>1. CASE i <= L
      <3>1. i \in 1..L /\ u[i] = s[i]
        BY <1>1, <2>1
      <3>2. s[i] \in Char \/ \E m \in M : m <= i /\ i <= EndAt(s, w, m)
        BY <3>1 DEF Marked, L
      <3> QED
        BY <1>2, <3>1, <3>2
    <2>2. CASE i > L
      <3>1. i - L \in 1..Len(t) /\ (i - L) + L = i /\ u[i] = t[i - L]
        BY <1>1, <2>2
      <3>2. CASE t[i - L] \in Char
        BY <3>1, <3>2
      <3>3. CASE \E n \in N : n <= i - L /\ i - L <= EndAt(t, w, n)
        <4>1. PICK n \in N : n <= i - L /\ i - L <= EndAt(t, w, n)
          BY <3>3
        <4>2. n + L \in P /\ n + L <= i /\ i <= EndAt(u, w, n + L)
          BY <1>1, <1>3, <4>1
        <4> QED
          BY <4>2
      <3>4. t[i - L] \in Char \/ \E n \in N : n <= i - L /\ i - L <= EndAt(t, w, n)
        BY <3>1 DEF Marked
      <3> QED
        BY <3>2, <3>3, <3>4
    <2> QED
      BY <1>1, <2>1, <2>2
  <1>7. Marked(u, w, M \union P)
    BY <1>4, <1>5, <1>6 DEF Marked
  <1> QED
    BY <1>7 DEF u, L

\* What is left when bytes are taken that end where no frame goes on.
LEMMA MarkedDropped ==
  ASSUME NEW s \in Seq(Byte), NEW w \in Widths, NEW M, Marked(s, w, M),
         NEW k \in 0..Len(s), \A m \in M : m > k \/ EndAt(s, w, m) <= k
  PROVE  Marked(DropFirst(k, s), w, {m - k : m \in {n \in M : n > k}})
  <1> DEFINE t == DropFirst(k, s)  O == {n \in M : n > k}  N == {m - k : m \in O}
  <1>1. /\ t \in Seq(Byte) /\ Len(t) = Len(s) - k /\ Len(s) \in Nat /\ k \in Nat
        /\ \A i \in 1..(Len(s) - k) : t[i] = s[i + k]
    BY Dropped
  <1> HIDE DEF t
  <1>2. \A m \in M : FrameAt(s, w, m) /\ m \in Nat /\ EndAt(s, w, m) \in Nat
    BY FrameEnd DEF Marked
  <1>3. ASSUME NEW m \in O
        PROVE  /\ FrameAt(t, w, m - k) /\ EndAt(t, w, m - k) = EndAt(s, w, m) - k
               /\ m \in Nat /\ EndAt(s, w, m) \in Nat /\ m \in M
    <2>1. /\ FrameAt(s, w, m) /\ m \in Nat /\ m > k /\ EndAt(s, w, m) \in Nat
          /\ EndAt(s, w, m) <= Len(s)
      BY <1>2 DEF FrameAt
    <2> DEFINE d == 0 - k
    <2>2. /\ m + d >= 1 /\ EndAt(s, w, m) + d <= Len(t) /\ d \in Int
          /\ m + d = m - k /\ EndAt(s, w, m) + d = EndAt(s, w, m) - k
      BY <1>1, <2>1
    <2>3. Copied(s, t, m, EndAt(s, w, m), d)
      <3> SUFFICES ASSUME NEW i \in m..EndAt(s, w, m) PROVE t[i + d] = s[i]
        BY DEF Copied
      <3>1. i + d \in 1..(Len(s) - k) /\ (i + d) + k = i
        BY <1>1, <2>1
      <3> HIDE DEF d
      <3> QED
        BY <1>1, <3>1
    <2> HIDE DEF d
    <2>4. FrameAt(t, w, m + d) /\ EndAt(t, w, m + d) = EndAt(s, w, m) + d
      BY <1>1, <2>1, <2>2, <2>3, FrameMoved
    <2> QED
      BY <2>1, <2>2, <2>4
  <1>4. \A n \in N : FrameAt(t, w, n)
    BY <1>3
  <1>5. ASSUME NEW a \in N, NEW b \in N, a < b
        PROVE  EndAt(t, w, a) < b
    <2>1. PICK m \in O : a = m - k
      OBVIOUS
    <2>2. PICK n \in O : b = n - k
      OBVIOUS
    <2>3. m < n
      BY <1>1, <1>3, <1>5, <2>1, <2>2
    <2>4. EndAt(s, w, m) < n
      BY <1>3, <2>3 DEF Marked
    <2>5. EndAt(t, w, a) = EndAt(s, w, m) - k /\ EndAt(s, w, m) \in Nat /\ n \in Nat
      BY <1>3, <2>1
    <2> QED
      BY <1>1, <2>2, <2>4, <2>5
  <1>6. ASSUME NEW i \in 1..Len(t)
        PROVE  t[i] \in Char \/ \E n \in N : n <= i /\ i <= EndAt(t, w, n)
    <2>1. i + k \in 1..Len(s) /\ t[i] = s[i + k]
      BY <1>1
    <2>2. s[i + k] \in Char \/ \E m \in M : m <= i + k /\ i + k <= EndAt(s, w, m)
      BY <2>1 DEF Marked
    <2>3. CASE \E m \in M : m <= i + k /\ i + k <= EndAt(s, w, m)
      <3>1. PICK m \in M : m <= i + k /\ i + k <= EndAt(s, w, m)
        BY <2>3
      <3>2. m \in O
        BY <1>1, <1>2, <3>1
      <3>3. m - k \in N /\ m - k <= i /\ i <= EndAt(t, w, m - k)
        BY <1>1, <1>3, <3>1, <3>2
      <3> QED
        BY <3>3
    <2> QED
      BY <2>1, <2>2, <2>3
  <1>7. Marked(t, w, N)
    BY <1>4, <1>5, <1>6 DEF Marked
  <1> QED
    BY <1>7 DEF t

LEMMA TextMarked ==
  ASSUME NEW t \in Seq(Char), NEW w
  PROVE  Marked(t, w, {})
  BY DEF Marked

LEMMA FrameMarked ==
  ASSUME NEW w \in Widths, NEW q \in Seq(Byte), Len(q) % w = 0,
         Len(q) <= MaxPoints * w
  PROVE  Marked(Frame(q, w), w, {1})
  <1> DEFINE f == Frame(q, w)  c == Len(q) \div w
  <1>1. /\ c \in 0..MaxPoints /\ c * w = Len(q) /\ Len(q) \in Nat
        /\ f \in Seq(Byte) /\ Len(f) = Len(q) + 4
        /\ f[1] = H1 /\ f[2] = H2 /\ f[3] = c
        /\ \A i \in 1..Len(q) : f[i + 3] = q[i]
        /\ f[Len(q) + 4] = Sum(c, q)
    BY FrameBytes DEF Overhead
  <1> HIDE DEF f, c
  <1>2. EndAt(f, w, 1) = Len(q) + 4
    <2>1. 1 + 2 = 3 /\ 1 + 3 = 4
      OBVIOUS
    <2>2. EndAt(f, w, 1) = 1 + 3 + Len(q)
      BY <1>1, <2>1 DEF EndAt
    <2> QED
      BY <1>1, <2>2
  <1>3. SubSeq(f, 4, Len(q) + 3) = q
    <2>1. /\ SubSeq(f, 4, Len(q) + 3) \in Seq(Byte)
          /\ Len(SubSeq(f, 4, Len(q) + 3)) = Len(q)
          /\ \A i \in 1..Len(q) : SubSeq(f, 4, Len(q) + 3)[i] = f[i + 3]
      BY <1>1
    <2> QED
      BY <1>1, <2>1, SameBytes
  <1>4. FrameAt(f, w, 1)
    <2>1. 1 + 1 = 2 /\ 1 + 2 = 3 /\ 1 + 3 = 4 /\ (Len(q) + 4) - 1 = Len(q) + 3
      BY <1>1
    <2>2. 1 \in 1..Len(f) /\ 3 <= Len(f) /\ EndAt(f, w, 1) <= Len(f)
      BY <1>1, <1>2
    <2>3. f[EndAt(f, w, 1)]
            = Sum(f[1 + 2], SubSeq(f, 1 + 3, EndAt(f, w, 1) - 1))
      BY <1>1, <1>2, <1>3, <2>1
    <2>4. f[1] = H1 /\ f[1 + 1] = H2 /\ f[1 + 2] \in 0..MaxPoints /\ 1 + 2 <= Len(f)
      BY <1>1, <2>1, <2>2
    <2> QED
      BY <2>2, <2>3, <2>4 DEF FrameAt
  <1>5. \A i \in 1..Len(f) : 1 <= i /\ i <= EndAt(f, w, 1)
    BY <1>1, <1>2
  <1>6. Marked(f, w, {1})
    BY <1>4, <1>5 DEF Marked
  <1> QED
    BY <1>6 DEF f

\* A first header byte in front can only be that of a frame.
LEMMA FirstIsMarked ==
  ASSUME NEW s \in Seq(Byte), NEW w \in Widths, NEW M, Marked(s, w, M),
         s # <<>>, s[1] = H1
  PROVE  1 \in M
  <1>1. 1 \in 1..Len(s) /\ s[1] \notin Char
    BY Bytes
  <1>2. PICK m \in M : m <= 1
    BY <1>1 DEF Marked
  <1>3. m \in Nat /\ m >= 1
    BY FrameEnd DEF Marked
  <1> QED
    BY <1>2, <1>3

\* While the bytes are frames and text, the search passes no frame: if it does
\* it is one whose first byte is the last of the buffer.  ED must not be a count
\* the sensor sends: the frame behind the first byte of a block would be skipped.
LEMMA SearchStopsAtFrames ==
  ASSUME ED \notin 0..MaxPoints, buffer \in Seq(Byte), wire \in Seq(Byte),
         NEW w \in Widths, NEW M, Marked(buffer \o wire, w, M), NEW past
  PROVE  \/ \A m \in M : m >= Search(past).at
         \/ Search(past).at > Len(buffer) /\ buffer[Len(buffer)] = H1
  <1> DEFINE n == Len(buffer) + 1
             s == buffer \o wire
             Clear(i) == \A m \in M : m >= i
             Good(e) == Clear(e.at) \/ (e.at > Len(buffer) /\ buffer[Len(buffer)] = H1)
  <1>1. n \in Nat /\ n >= 1 /\ \A i \in 1..Len(buffer) : s[i] = buffer[i]
    BY Joined
  <1>2. PICK f : /\ \A i \in 1..n : f[i] = Look(i, past, f)
                 /\ Search(past) = f[1]
    BY SearchLooks
  <1>3. \A m \in M : /\ m \in Nat /\ m >= 1 /\ s[m] = H1 /\ s[m + 1] = H2
                     /\ s[m + 2] \in 0..MaxPoints
    <2>1. s \in Seq(Byte)
      BY Joined
    <2> HIDE DEF s
    <2>2. Marked(s, w, M)
      BY DEF s
    <2> QED
      BY <2>1, <2>2, FrameEnd DEF Marked, FrameAt
  <1> HIDE DEF s
  <1>4. ASSUME NEW i \in 1..Len(buffer), Clear(i), i \notin M
        PROVE  Clear(i + 1)
    BY <1>3, <1>4
  <1>5. ASSUME NEW i \in 1..n, Clear(i), IsBlock(i), i + Overhead <= Len(buffer)
        PROVE  Clear(i + Overhead)
    <2>0. /\ i \in Nat /\ Overhead = 4
          /\ i \in 1..Len(buffer) /\ i + 1 \in 1..Len(buffer)
          /\ i + 2 \in 1..Len(buffer) /\ i + 3 \in 1..Len(buffer)
      BY <1>1, <1>5 DEF Overhead
    <2>1. s[i] = ST /\ s[i + 3] = ED
      <3>1. i + Overhead - 1 = i + 3
        BY <2>0
      <3> QED
        BY <1>1, <1>5, <2>0, <3>1 DEF IsBlock
    <2>2. ED # H1 /\ ED # H2 /\ ST # H1
      BY Bytes
    <2>3. i \notin M
      BY <1>3, <2>1, <2>2
    <2>4. i + 1 \notin M
      <3>1. (i + 1) + 2 = i + 3
        BY <2>0
      <3> QED
        BY <1>3, <2>1, <3>1
    <2>5. i + 2 \notin M
      <3>1. (i + 2) + 1 = i + 3
        BY <2>0
      <3> QED
        BY <1>3, <2>1, <2>2, <3>1
    <2>6. i + 3 \notin M
      BY <1>3, <2>1, <2>2
    <2>7. ASSUME NEW m \in M
          PROVE  m >= i + 4
      <3>1. m \in Nat /\ m >= i
        BY <1>3, <1>5
      <3>2. m # i /\ m # i + 1 /\ m # i + 2 /\ m # i + 3
        BY <2>3, <2>4, <2>5, <2>6
      <3> QED
        BY <2>0, <3>1, <3>2
    <2> QED
      BY <2>0, <2>7
  <1> DEFINE S == {k \in Nat : k < n =>
                     \A i \in (n - k)..n : Clear(i) => Good(f[i])}
  <1>6. ASSUME NEW i \in 1..n, \A k \in (i + 1)..n : Clear(k) => Good(f[k]),
               Clear(i)
        PROVE  Good(f[i])
    <2>0. f[i] = Look(i, past, f)
      BY <1>2
    <2>1. CASE i + Overhead > Len(buffer)
      BY <1>6, <2>0, <2>1 DEF Look
    <2>2. CASE ~(i + Overhead > Len(buffer))
      <3> DEFINE j == IF IsBlock(i) THEN i + Overhead ELSE i
      <3>1. /\ j \in 1..Len(buffer) /\ j + 1 \in (i + 1)..n
            /\ j = Len(buffer) => j + 1 = n
        BY <1>1, <2>2 DEF Overhead
      <3>2. f[i] = IF IsHeader(j, past) THEN [at |-> j, found |-> TRUE] ELSE f[j + 1]
        BY <2>0, <2>2 DEF Look
      <3>3. Clear(j)
        <4> HIDE DEF Clear
        <4>1. i + Overhead <= Len(buffer)
          BY <1>1, <2>2 DEF Overhead
        <4> QED
          BY <1>5, <1>6, <4>1
      <3> HIDE DEF j
      <3>4. CASE IsHeader(j, past)
        BY <3>2, <3>3, <3>4
      <3>5. CASE ~IsHeader(j, past) /\ j \notin M
        <4>1. Clear(j + 1)
          BY <1>4, <3>1, <3>3, <3>5
        <4> HIDE DEF Clear, Good
        <4>2. Good(f[j + 1])
          BY <1>6, <3>1, <4>1
        <4> QED
          BY <3>2, <3>5, <4>2
      <3>6. CASE ~IsHeader(j, past) /\ j \in M
        <4>1. buffer[j] = H1 /\ s[j + 1] = H2
          BY <1>1, <1>3, <3>1, <3>6
        <4>2. j = Len(buffer)
          <5> SUFFICES ASSUME j # Len(buffer) PROVE FALSE
            OBVIOUS
          <5>1. j + 1 \in 1..Len(buffer) /\ j < Len(buffer)
            BY <1>1, <3>1
          <5>2. buffer[j + 1] = H2
            BY <1>1, <4>1, <5>1
          <5> QED
            BY <3>6, <4>1, <5>1, <5>2 DEF IsHeader
        <4>3. f[i] = f[n]
          BY <3>1, <3>2, <3>6, <4>2
        <4>4. f[n] = Look(n, past, f) /\ Look(n, past, f) = [at |-> n, found |-> FALSE]
          <5>1. n \in 1..n /\ n + Overhead > Len(buffer)
            BY <1>1 DEF Overhead
          <5> HIDE DEF n
          <5> QED
            BY <1>2, <5>1 DEF Look
        <4>5. f[i].at = n
          BY <4>3, <4>4
        <4> QED
          BY <1>1, <4>1, <4>2, <4>5
      <3> QED
        BY <3>4, <3>5, <3>6
    <2> QED
      BY <2>1, <2>2
  <1> HIDE DEF Good, Clear
  <1>7. 0 \in S
    <2>1. n \in 1..n /\ \A k \in (n + 1)..n : Clear(k) => Good(f[k])
      BY <1>1
    <2>2. Clear(n) => Good(f[n])
      BY <1>6, <2>1
    <2>3. \A i \in (n - 0)..n : i = n
      BY <1>1
    <2> QED
      BY <2>2, <2>3
  <1>8. ASSUME NEW k \in Nat, k \in S
        PROVE  k + 1 \in S
    <2> SUFFICES ASSUME k + 1 < n, NEW i \in (n - (k + 1))..n, Clear(i)
                 PROVE  Good(f[i])
      OBVIOUS
    <2>1. \A x \in (n - k)..n : Clear(x) => Good(f[x])
      BY <1>1, <1>8
    <2>2. i \in 1..n /\ \A x \in (i + 1)..n : x \in (n - k)..n
      BY <1>1
    <2> QED
      BY <1>6, <2>1, <2>2
  <1> HIDE DEF S
  <1>9. n - 1 \in S
    BY <1>1, <1>7, <1>8, Induction
  <1>10. 1 \in (n - (n - 1))..n /\ n - 1 < n
    BY <1>1
  <1>11. Clear(1)
    BY <1>3 DEF Clear
  <1>12. Good(f[1])
    BY <1>9, <1>10, <1>11 DEF S
  <1> QED
    BY <1>2, <1>12 DEF Good, Clear

-----------------------------------------------------------------------------
(***************************************************************************)
(* While nothing is disturbed, driver and sensor agree on the width of a   *)
(* point, and what is held and under way is frames and text.               *)
(***************************************************************************)
Undisturbed ==
  ~disturbed =>
    /\ phase # "overrun"
    /\ width = sensorWidth
    /\ \E M : Marked(buffer \o wire, width, M)

\* The update thread takes a frame where one is, and as it is.
LEMMA TakenIsFrame ==
  ASSUME TypeOK, AtHeader, phase = "frames", NEW M,
         Marked(buffer \o wire, width, M), Whole
  PROVE  /\ 1 \in M /\ Count \in 0..MaxPoints
         /\ EndAt(buffer \o wire, width, 1) = Size
         /\ buffer[Size] = Sum(Count, SubSeq(buffer, 4, Size - 1))
  <1> DEFINE s == buffer \o wire
  <1>0. /\ buffer \in Seq(Byte) /\ wire \in Seq(Byte) /\ width \in Widths
        /\ Len(buffer) \in Nat
    BY DEF TypeOK
  <1>1. /\ s \in Seq(Byte) /\ Len(s) = Len(buffer) + Len(wire) /\ Len(wire) \in Nat
        /\ \A i \in 1..Len(buffer) : s[i] = buffer[i]
    BY <1>0, Joined
  <1>2. Size \in 4..Len(buffer) /\ Size = 4 + Count * width /\ Count * width \in Nat
    BY FrameTaken DEF Size, Overhead
  <1> HIDE DEF s
  <1>3. Marked(s, width, M)
    BY DEF s
  <1>4. 1 \in M
    <2>1. buffer[1] = H1 /\ 1 \in 1..Len(buffer)
      BY <1>0, <1>2 DEF AtHeader
    <2>2. s[1] = H1 /\ s # <<>>
      BY <1>1, <2>1
    <2> QED
      BY <1>0, <1>1, <1>3, <2>2, FirstIsMarked
  <1>5. FrameAt(s, width, 1)
    BY <1>3, <1>4 DEF Marked
  <1>6. s[1 + 2] = Count
    <2>1. 3 \in 1..Len(buffer) /\ 1 + 2 = 3
      BY <1>0, <1>2
    <2> QED
      BY <1>1, <2>1 DEF Count
  <1>7. EndAt(s, width, 1) = Size
    <2> DEFINE cw == Count * width
    <2>1. EndAt(s, width, 1) = 1 + 3 + cw
      BY <1>6 DEF EndAt
    <2>2. Size = 4 + cw /\ cw \in Nat
      BY <1>2
    <2> HIDE DEF cw
    <2> QED
      BY <2>1, <2>2
  <1>8. SubSeq(s, 4, Size - 1) = SubSeq(buffer, 4, Size - 1)
    <2> DEFINE d == 0  x == 4  y == Size - 1
    <2>1. /\ x \in Nat /\ y \in Nat /\ d \in Int /\ x >= 1 /\ y <= Len(buffer)
          /\ x + d >= 1 /\ y + d <= Len(s) /\ x <= y + 1
          /\ x + d = x /\ y + d = y
      BY <1>0, <1>1, <1>2
    <2>2. \A i \in x..y : s[i + d] = buffer[i]
      <3>1. \A i \in x..y : i \in 1..Len(buffer) /\ i + d = i
        BY <1>0, <1>2
      <3> HIDE DEF d, x, y
      <3> QED
        BY <1>1, <3>1
    <2> HIDE DEF d, x, y
    <2>3. SubSeq(s, x + d, y + d) = SubSeq(buffer, x, y)
      BY <1>0, <1>1, <2>1, <2>2, SameSub
    <2>4. SubSeq(s, x, y) = SubSeq(buffer, x, y)
      BY <2>1, <2>3
    <2> QED
      BY <2>4 DEF x, y
  <1>9. s[Size] = Sum(Count, SubSeq(s, 4, Size - 1))
    <2>1. 1 + 3 = 4
      OBVIOUS
    <2> QED
      BY <1>5, <1>6, <1>7, <2>1 DEF FrameAt
  <1>10. s[Size] = buffer[Size]
    BY <1>0, <1>1, <1>2
  <1> QED
    BY <1>4, <1>5, <1>6, <1>7, <1>8, <1>9, <1>10 DEF FrameAt, s

\* Bytes dropped in front are dropped of all there are; bytes read are not new.
LEMMA DroppedOfAll ==
  ASSUME NEW b \in Seq(Byte), NEW q \in Seq(Byte), NEW k \in 0..Len(b)
  PROVE  DropFirst(k, b) \o q = DropFirst(k, b \o q)
  <1> DEFINE x == DropFirst(k, b) \o q  y == DropFirst(k, b \o q)
             n == (Len(b) - k) + Len(q)
  <1>1. Len(b) \in Nat /\ Len(q) \in Nat /\ k \in Nat
    OBVIOUS
  <1>2. /\ DropFirst(k, b) \in Seq(Byte) /\ Len(DropFirst(k, b)) = Len(b) - k
        /\ \A i \in 1..(Len(b) - k) : DropFirst(k, b)[i] = b[i + k]
    BY Dropped
  <1> DEFINE c == DropFirst(k, b)
  <1> HIDE DEF c
  <1>3. /\ c \o q \in Seq(Byte) /\ Len(c \o q) = Len(c) + Len(q)
        /\ \A i \in 1..Len(c) : (c \o q)[i] = c[i]
        /\ \A i \in 1..Len(q) : (c \o q)[i + Len(c)] = q[i]
    BY <1>2, Joined DEF c
  <1> DEFINE e == b \o q
  <1>4. /\ e \in Seq(Byte) /\ Len(e) = Len(b) + Len(q)
        /\ \A i \in 1..Len(b) : e[i] = b[i]
        /\ \A i \in 1..Len(q) : e[i + Len(b)] = q[i]
    BY Joined
  <1> HIDE DEF e
  <1>5. k \in 0..Len(e)
    BY <1>1, <1>4
  <1>6. /\ y \in Seq(Byte) /\ Len(y) = Len(e) - k
        /\ \A i \in 1..(Len(e) - k) : y[i] = e[i + k]
    BY <1>4, <1>5, Dropped DEF e
  <1>7. x = c \o q
    BY DEF c
  <1>8. x \in Seq(Byte) /\ Len(x) = Len(y)
    BY <1>1, <1>2, <1>3, <1>4, <1>6, <1>7 DEF c
  <1> HIDE DEF x, y
  <1>9. ASSUME NEW i \in 1..Len(x)
        PROVE  x[i] = y[i]
    <2>0. i \in Nat /\ i >= 1 /\ i <= (Len(b) - k) + Len(q) /\ Len(c) = Len(b) - k
      BY <1>1, <1>2, <1>3, <1>7 DEF c
    <2>1. CASE i <= Len(b) - k
      <3>1. x[i] = b[i + k]
        <4>1. i \in 1..Len(c) /\ i \in 1..(Len(b) - k)
          BY <1>1, <2>0, <2>1
        <4> QED
          BY <1>2, <1>3, <1>7, <4>1 DEF c
      <3>2. y[i] = e[i + k] /\ e[i + k] = b[i + k]
        <4>1. i \in 1..(Len(e) - k) /\ i + k \in 1..Len(b)
          BY <1>1, <1>4, <2>0, <2>1
        <4> QED
          BY <1>4, <1>6, <4>1
      <3> QED
        BY <3>1, <3>2
    <2>2. CASE i > Len(b) - k
      <3> DEFINE j == i - (Len(b) - k)
      <3>1. /\ j \in 1..Len(q) /\ j + Len(c) = i /\ i + k = j + Len(b)
            /\ i \in 1..(Len(e) - k)
        BY <1>1, <1>4, <2>0, <2>2
      <3> HIDE DEF j
      <3>2. x[i] = q[j]
        BY <1>3, <1>7, <3>1
      <3>3. y[i] = q[j]
        BY <1>4, <1>6, <3>1
      <3> QED
        BY <3>2, <3>3
    <2> QED
      BY <1>1, <2>0, <2>1, <2>2
  <1>10. x = y
    BY <1>6, <1>8, <1>9, SameBytes DEF y
  <1> QED
    BY <1>10 DEF x, y

LEMMA ReadOfAll ==
  ASSUME NEW b \in Seq(Byte), NEW q \in Seq(Byte), NEW k \in 0..Len(q)
  PROVE  (b \o SubSeq(q, 1, k)) \o DropFirst(k, q) = b \o q
  <1> DEFINE h == SubSeq(q, 1, k)  r == DropFirst(k, q)
  <1>1. h \in Seq(Byte) /\ Len(h) = k /\ \A i \in 1..k : h[i] = q[i]
    OBVIOUS
  <1>2. /\ r \in Seq(Byte) /\ Len(r) = Len(q) - k
        /\ \A i \in 1..(Len(q) - k) : r[i] = q[i + k]
    BY Dropped
  <1> HIDE DEF h, r
  <1>3. h \o r = q
    <2>1. /\ h \o r \in Seq(Byte) /\ Len(h \o r) = Len(h) + Len(r)
          /\ \A i \in 1..Len(h) : (h \o r)[i] = h[i]
          /\ \A i \in 1..Len(r) : (h \o r)[i + Len(h)] = r[i]
      BY <1>1, <1>2, Joined
    <2>2. ASSUME NEW i \in 1..Len(q)
          PROVE  (h \o r)[i] = q[i]
      <3>1. CASE i <= k
        <4>1. i \in 1..k /\ i \in 1..Len(h)
          BY <1>1, <3>1
        <4> QED
          BY <1>1, <2>1, <4>1
      <3>2. CASE i > k
        <4> DEFINE j == i - k
        <4>1. /\ j \in 1..(Len(q) - k) /\ j \in 1..Len(r)
              /\ j + k = i /\ j + Len(h) = i
          BY <1>1, <1>2, <3>2
        <4> HIDE DEF j
        <4>2. (h \o r)[i] = r[j]
          BY <2>1, <4>1
        <4>3. r[j] = q[i]
          BY <1>2, <4>1
        <4> QED
          BY <4>2, <4>3
      <3>3. k \in Nat /\ i \in Nat /\ Len(q) \in Nat
        OBVIOUS
      <3>4. i <= k \/ i > k
        BY <3>3
      <3> QED
        BY <3>1, <3>2, <3>4
    <2>3. Len(h \o r) = Len(q)
      <3>1. k \in Nat /\ Len(q) \in Nat
        OBVIOUS
      <3> QED
        BY <1>1, <1>2, <2>1, <3>1
    <2> DEFINE hr == h \o r
    <2> HIDE DEF hr
    <2>4. hr = q
      BY <2>1, <2>2, <2>3, SameBytes DEF hr
    <2> QED
      BY <2>4 DEF hr
  <1>4. (b \o h) \o r = b \o (h \o r)
    BY <1>1, <1>2
  <1> QED
    BY <1>3, <1>4 DEF h, r

\* Bytes sent are behind all there are.
LEMMA SentOfAll ==
  ASSUME NEW b \in Seq(Byte), NEW q \in Seq(Byte), NEW t \in Seq(Byte)
  PROVE  b \o (q \o t) = (b \o q) \o t
  OBVIOUS

Settled(q, w) == \E M : Marked(q, w, M)

LEMMA SentStep ==
  ASSUME TypeOK, Undisturbed, NEW t \in Seq(Byte), Send(t),
         ~disturbed => Settled(t, width)
  PROVE  Undisturbed'
  <1> SUFFICES ASSUME ~disturbed
               PROVE  Undisturbed'
    BY DEF Send, Undisturbed
  <1>1. /\ wire' = wire \o t
        /\ UNCHANGED <<sensorWidth, width, buffer, phase, disturbed>>
    BY DEF Send
  <1>2. buffer \in Seq(Byte) /\ wire \in Seq(Byte) /\ width \in Widths
    BY DEF TypeOK
  <1>3. PICK M : Marked(buffer \o wire, width, M)
    BY DEF Undisturbed
  <1>4. PICK N : Marked(t, width, N)
    BY DEF Settled
  <1> DEFINE s == buffer \o wire
  <1>5. s \in Seq(Byte)
    BY <1>2, Joined
  <1>6. buffer' \o wire' = s \o t
    BY <1>1, <1>2, SentOfAll
  <1>7. Marked(s, width, M)
    BY <1>3
  <1> HIDE DEF s
  <1>8. Marked(s \o t, width, M \union {n + Len(s) : n \in N})
    BY <1>2, <1>4, <1>5, <1>7, MarkedJoined
  <1>9. Marked(buffer' \o wire', width', M \union {n + Len(s) : n \in N})
    BY <1>1, <1>6, <1>8
  <1> QED
    BY <1>1, <1>9 DEF Undisturbed

LEMMA ReadStep ==
  ASSUME TypeOK, Undisturbed, Read
  PROVE  Undisturbed'
  <1>1. PICK n \in 1..(BufferSize - Len(buffer)) \intersect DOMAIN wire :
          /\ buffer' = buffer \o SubSeq(wire, 1, n)
          /\ wire' = DropFirst(n, wire)
    BY DEF Read
  <1>2. buffer \in Seq(Byte) /\ wire \in Seq(Byte)
    BY DEF TypeOK
  <1>3. n \in 0..Len(wire)
    BY <1>2
  <1>4. buffer' \o wire' = buffer \o wire
    BY <1>1, <1>2, <1>3, ReadOfAll
  <1>5. phase' = "search" /\ UNCHANGED <<sensorWidth, width, disturbed>>
    BY DEF Read
  <1> QED
    BY <1>4, <1>5 DEF Undisturbed

\* Before the first frame there is only text.
LEMMA TextBefore ==
  ASSUME NEW b \in Seq(Byte), NEW q \in Seq(Byte), NEW w \in Widths, NEW M,
         Marked(b \o q, w, M), NEW k \in 0..Len(b), \A m \in M : m > k
  PROVE  SubSeq(b, 1, k) \in Seq(Char)
  <1> DEFINE s == b \o q  h == SubSeq(b, 1, k)
  <1>1. /\ s \in Seq(Byte) /\ Len(s) = Len(b) + Len(q)
        /\ \A i \in 1..Len(b) : s[i] = b[i]
        /\ Len(b) \in Nat /\ Len(q) \in Nat /\ k \in Nat
    BY Joined
  <1>2. h \in Seq(Byte) /\ Len(h) = k /\ \A i \in 1..k : h[i] = b[i]
    OBVIOUS
  <1>3. \A i \in 1..Len(s) :
          s[i] \in Char \/ \E m \in M : m <= i /\ i <= EndAt(s, w, m)
    BY DEF Marked
  <1>4. \A m \in M : m \in Nat
    <2>1. \A m \in M : FrameAt(s, w, m)
      BY DEF Marked
    <2> HIDE DEF s
    <2> QED
      BY <1>1, <2>1, FrameEnd
  <1> HIDE DEF s, h
  <1>5. \A i \in 1..k : h[i] \in Char
    <2> SUFFICES ASSUME NEW i \in 1..k PROVE h[i] \in Char
      OBVIOUS
    <2>1. i \in 1..Len(s) /\ i \in 1..Len(b) /\ \A m \in M : ~(m <= i)
      BY <1>1, <1>4
    <2> QED
      BY <1>1, <1>2, <1>3, <2>1
  <1>6. h \in Seq(Char)
    BY <1>2, <1>5
  <1> QED
    BY <1>6 DEF h

LEMMA SkipStep ==
  ASSUME ED \notin 0..MaxPoints, TypeOK, Undisturbed, SkipText
  PROVE  /\ Undisturbed'
         /\ ~disturbed' => SubSeq(buffer, 1, Len(buffer) - Len(buffer')) \in Seq(Char)
  <1>1. PICK past \in Byte :
          LET end == Search(past)
          IN  /\ buffer' = DropFirst(end.at - 1, buffer)
              /\ phase' = IF end.found THEN "frames" ELSE "read"
              /\ disturbed' = (disturbed \/ (/\ end.at > Len(buffer)
                                             /\ buffer[Len(buffer)] = H1))
    BY DEF SkipText
  <1> DEFINE at == Search(past).at  k == at - 1
  <1>2. /\ buffer \in Seq(Byte) /\ wire \in Seq(Byte) /\ width \in Widths
        /\ Len(buffer) \in Nat
    BY DEF TypeOK
  <1>3. k \in 0..Len(buffer) /\ at \in Nat /\ k \in Nat /\ k + 1 = at
    BY <1>2, SearchEnds DEF End
  <1>4. buffer' = DropFirst(k, buffer) /\ UNCHANGED <<wire, sensorWidth, width>>
    BY <1>1 DEF SkipText
  <1>5. phase' # "overrun"
    BY <1>1
  <1>6. ~disturbed' => ~disturbed /\ ~(at > Len(buffer) /\ buffer[Len(buffer)] = H1)
    BY <1>1
  <1> SUFFICES ASSUME ~disturbed'
               PROVE  /\ width = sensorWidth
                      /\ \E M : Marked(buffer' \o wire, width, M)
                      /\ SubSeq(buffer, 1, Len(buffer) - Len(buffer')) \in Seq(Char)
    BY <1>4, <1>5 DEF Undisturbed
  <1>7. width = sensorWidth
    BY <1>6 DEF Undisturbed
  <1>8. PICK M : Marked(buffer \o wire, width, M)
    BY <1>6 DEF Undisturbed
  <1>9. \A m \in M : m >= at
    BY <1>2, <1>6, <1>8, SearchStopsAtFrames
  <1> HIDE DEF at, k
  <1>10. \A m \in M : m \in Nat /\ m > k
    <2>1. \A m \in M : FrameAt(buffer \o wire, width, m)
      BY <1>8 DEF Marked
    <2> DEFINE s == buffer \o wire
    <2>2. s \in Seq(Byte) /\ \A m \in M : FrameAt(s, width, m)
      BY <1>2, <2>1, Joined
    <2> HIDE DEF s
    <2>3. \A m \in M : m \in Nat
      BY <1>2, <2>2, FrameEnd
    <2> QED
      BY <1>3, <1>9, <2>3
  <1>11. SubSeq(buffer, 1, k) \in Seq(Char)
    BY <1>2, <1>3, <1>8, <1>10, TextBefore
  <1>12. Len(buffer) - Len(buffer') = k
    <2>1. Len(buffer') = Len(buffer) - k
      BY <1>2, <1>3, <1>4, Dropped
    <2> QED
      BY <1>2, <1>3, <2>1
  <1>13. \E N : Marked(buffer' \o wire, width, N)
    <2> DEFINE s == buffer \o wire
    <2>1. s \in Seq(Byte) /\ Len(s) = Len(buffer) + Len(wire) /\ Len(wire) \in Nat
      BY <1>2, Joined
    <2>2. buffer' \o wire = DropFirst(k, s)
      BY <1>2, <1>3, <1>4, DroppedOfAll
    <2>3. Marked(s, width, M)
      BY <1>8
    <2> HIDE DEF s
    <2>4. k \in 0..Len(s)
      BY <1>2, <1>3, <2>1
    <2>5. Marked(DropFirst(k, s), width, {m - k : m \in {n \in M : n > k}})
      BY <1>2, <1>10, <2>1, <2>3, <2>4, MarkedDropped
    <2> QED
      BY <2>2, <2>5
  <1> QED
    BY <1>7, <1>11, <1>12, <1>13

\* What is taken is the frame that was sent.
LEMMA TakeStep ==
  ASSUME TypeOK, AtHeader, Undisturbed, TakeFrame
  PROVE  /\ Undisturbed'
         /\ ~disturbed' =>
              /\ scan' # None
              /\ SubSeq(buffer, 1, Len(buffer) - Len(buffer')) = Frame(scan', width)
  <1> DEFINE points == SubSeq(buffer, 4, Size - 1)
  <1>1. /\ phase = "frames" /\ Whole /\ buffer' = DropFirst(Size, buffer)
        /\ scan' = IF buffer[Size] = Sum(Count, points) THEN points ELSE None
        /\ UNCHANGED <<wire, sensorWidth, width, disturbed>>
    BY DEF TakeFrame
  <1>2. phase' # "overrun"
    BY DEF TakeFrame
  <1> SUFFICES ASSUME ~disturbed
               PROVE  /\ \E M : Marked(buffer' \o wire, width, M)
                      /\ scan' # None
                      /\ SubSeq(buffer, 1, Len(buffer) - Len(buffer'))
                           = Frame(scan', width)
    BY <1>1, <1>2 DEF Undisturbed
  <1>3. /\ buffer \in Seq(Byte) /\ wire \in Seq(Byte) /\ width \in Widths
        /\ Len(buffer) \in Nat
    BY DEF TypeOK
  <1>4. PICK M : Marked(buffer \o wire, width, M)
    BY DEF Undisturbed
  <1>5. /\ 1 \in M /\ Count \in 0..MaxPoints
        /\ EndAt(buffer \o wire, width, 1) = Size
        /\ buffer[Size] = Sum(Count, points)
    BY <1>1, <1>4, TakenIsFrame
  <1>6. /\ Count \in Nat /\ Size \in 4..Len(buffer) /\ Count * width \in Nat
        /\ Size = 4 + Count * width
        /\ points \in Seq(Byte) /\ Len(points) = Count * width
        /\ \A i \in 1..(Count * width) : points[i] = buffer[i + 3]
        /\ Len(buffer') = Len(buffer) - Size
    BY <1>1, FrameTaken DEF Size, Overhead
  <1>7. scan' = points /\ scan' # None
    BY <1>1, <1>5, <1>6, FrameAssumption
  <1>8. \E N : Marked(buffer' \o wire, width, N)
    <2> DEFINE s == buffer \o wire
    <2>1. s \in Seq(Byte) /\ Len(s) = Len(buffer) + Len(wire) /\ Len(wire) \in Nat
      BY <1>3, Joined
    <2>2. Size \in 0..Len(buffer) /\ Size \in Nat
      BY <1>3, <1>6
    <2>3. buffer' \o wire = DropFirst(Size, s)
      BY <1>1, <1>3, <2>2, DroppedOfAll
    <2>4. Marked(s, width, M) /\ EndAt(s, width, 1) = Size
      BY <1>4, <1>5
    <2> HIDE DEF s
    <2>5. Size \in 0..Len(s)
      BY <1>3, <2>1, <2>2
    <2>6. ASSUME NEW m \in M
          PROVE  m > Size \/ EndAt(s, width, m) <= Size
      <3>1. FrameAt(s, width, m)
        BY <2>4 DEF Marked
      <3>2. m \in Nat /\ m >= 1
        BY <1>3, <2>1, <3>1, FrameEnd
      <3>3. CASE m = 1
        BY <2>2, <2>4, <3>3
      <3>4. CASE m > 1
        <4>1. EndAt(s, width, 1) < m
          BY <1>5, <2>4, <3>4 DEF Marked
        <4> QED
          BY <2>4, <4>1
      <3> QED
        BY <3>2, <3>3, <3>4
    <2>7. Marked(DropFirst(Size, s), width, {m - Size : m \in {n \in M : n > Size}})
      BY <1>3, <2>1, <2>4, <2>5, <2>6, MarkedDropped
    <2> QED
      BY <2>3, <2>7
  <1>9. SubSeq(buffer, 1, Size) = Frame(points, width)
    <2> DEFINE x == SubSeq(buffer, 1, Size)  f == Frame(points, width)
               cw == Count * width
    <2>1. cw % width = 0 /\ cw <= MaxPoints * width /\ cw \div width = Count
      <3>1. MaxPoints \in Nat /\ Count \in Nat /\ Count <= MaxPoints
        BY <1>5, <1>6, FrameAssumption
      <3> QED
        BY <1>3, <3>1, Multiples
    <2>2. /\ f \in Seq(Byte) /\ Len(f) = cw + 4
          /\ f[1] = H1 /\ f[2] = H2 /\ f[3] = Count
          /\ \A i \in 1..cw : f[i + 3] = points[i]
          /\ f[cw + 4] = Sum(Count, points)
      <3> HIDE DEF Size, points, cw
      <3>1. points \in Seq(Byte) /\ Len(points) = cw
        BY <1>6 DEF cw
      <3>2. Len(points) % width = 0 /\ Len(points) <= MaxPoints * width
        BY <2>1, <3>1
      <3> QED
        BY <1>3, <2>1, <3>1, <3>2, FrameBytes DEF Overhead
    <2>3. /\ x \in Seq(Byte) /\ Len(x) = Size
          /\ \A i \in 1..Size : x[i] = buffer[i]
      <3> HIDE DEF Size
      <3> QED
        BY <1>3, <1>6
    <2>4. Size = cw + 4 /\ cw \in Nat
      <3> HIDE DEF Size
      <3> QED
        BY <1>6
    <2> HIDE DEF f, x
    <2>5. buffer[1] = H1 /\ buffer[2] = H2 /\ buffer[3] = Count
      <3>1. Len(buffer) >= 2
        BY <1>3, <1>6
      <3> QED
        BY <1>1, <3>1 DEF AtHeader, Count
    <2>6. \A i \in 1..cw : f[i + 3] = buffer[i + 3]
      <3> HIDE DEF Size
      <3> QED
        BY <1>6, <2>2
    <2> HIDE DEF cw, points
    <2>7. ASSUME NEW i \in 1..Size
          PROVE  x[i] = f[i]
      <3>1. CASE i \in 1..3
        <4>1. i = 1 \/ i = 2 \/ i = 3
          BY <3>1
        <4>2. x[i] = buffer[i]
          BY <2>3
        <4> QED
          BY <2>2, <2>5, <4>1, <4>2
      <3>2. CASE i \in 4..(cw + 3)
        <4> DEFINE j == i - 3
        <4>1. j \in 1..cw /\ j + 3 = i
          BY <2>4, <3>2
        <4> HIDE DEF j
        <4> QED
          BY <2>3, <2>6, <4>1
      <3>3. CASE i = cw + 4
        BY <1>5, <2>2, <2>3, <2>4, <3>3
      <3> QED
        BY <2>4, <3>1, <3>2, <3>3
    <2>8. x = f
      BY <2>2, <2>3, <2>4, <2>7, SameBytes
    <2> QED
      BY <2>8 DEF x, f
  <1>10. Len(buffer) - Len(buffer') = Size
    <2> HIDE DEF Size
    <2> QED
      BY <1>3, <1>6
  <1> QED
    BY <1>7, <1>8, <1>9, <1>10

\* No step ends what holds while nothing is disturbed, and none that leaves
\* things undisturbed consumes anything but text, or a frame handed on.
LEMMA UndisturbedStep ==
  ASSUME ED \notin 0..MaxPoints, TypeOK, AtHeader, Undisturbed, [Next]_vars
  PROVE  /\ Undisturbed'
         /\ phase # "read" /\ ~disturbed' /\ Len(buffer') < Len(buffer)
              => ConsumesTextOrFrame
  <1>0. /\ buffer \in Seq(Byte) /\ wire \in Seq(Byte) /\ Len(buffer) \in Nat
        /\ width \in Widths /\ sensorWidth \in Widths
    BY DEF TypeOK
  <1>1. CASE SendFrame
    <2>1. PICK p \in Payloads : /\ Len(p) % sensorWidth = 0
                                /\ Len(p) <= MaxPoints * sensorWidth
                                /\ Send(Frame(p, sensorWidth))
      BY <1>1 DEF SendFrame
    <2>2. p \in Seq(Byte)
      BY FrameAssumption
    <2>3. Frame(p, sensorWidth) \in Seq(Byte)
      BY <1>0, <2>1, <2>2, FrameBytes
    <2>4. ~disturbed => Settled(Frame(p, sensorWidth), width)
      <3>1. Marked(Frame(p, sensorWidth), sensorWidth, {1})
        BY <1>0, <2>1, <2>2, FrameMarked
      <3> QED
        BY <3>1 DEF Settled, Undisturbed
    <2>5. Undisturbed'
      BY <2>1, <2>3, <2>4, SentStep
    <2> QED
      BY <1>0, <2>1, <2>5 DEF Send
  <1>2. CASE SendText
    <2>1. PICK t \in Texts : Send(t)
      BY <1>2 DEF SendText
    <2>2. t \in Seq(Char)
      BY FrameAssumption
    <2>3. t \in Seq(Byte)
      <3>1. \A i \in 1..Len(t) : t[i] \in Char
        BY <2>2
      <3>2. \A i \in 1..Len(t) : t[i] \in Byte
        BY <3>1, Bytes
      <3> QED
        BY <2>2, <3>2
    <2>4. Settled(t, width)
      BY <2>2, TextMarked DEF Settled
    <2>5. Undisturbed'
      BY <2>1, <2>3, <2>4, SentStep
    <2> QED
      BY <1>0, <2>1, <2>5 DEF Send
  <1>3. CASE Spoil \/ SensorSwitches \/ enableIntensityData
    <2>1. disturbed'
      BY <1>3 DEF Spoil, SensorSwitches, enableIntensityData
    <2> QED
      BY <2>1 DEF Undisturbed
  <1>4. CASE Restart
    <2>1. /\ phase = "read" /\ buffer' = <<>>
          /\ disturbed' = (wire # <<>> \/ width # sensorWidth)
          /\ UNCHANGED <<wire, sensorWidth, width, phase>>
      BY <1>4 DEF Restart
    <2>2. Undisturbed'
      <3> SUFFICES ASSUME ~disturbed'
                   PROVE  /\ phase # "overrun" /\ width = sensorWidth
                          /\ \E M : Marked(<<>> \o wire, width, M)
        BY <2>1 DEF Undisturbed
      <3>1. wire = <<>> /\ width = sensorWidth
        BY <2>1
      <3>2. <<>> \o wire = <<>> /\ <<>> \in Seq(Char)
        BY <3>1
      <3>3. Marked(<<>>, width, {})
        BY <3>2, TextMarked
      <3> QED
        BY <2>1, <3>1, <3>2, <3>3
    <2> QED
      BY <2>1, <2>2
  <1>5. CASE Read
    <2>1. phase = "read"
      BY <1>5 DEF Read
    <2> QED
      BY <1>5, <2>1, ReadStep
  <1>6. CASE SkipText
    BY <1>6, SkipStep DEF ConsumesTextOrFrame
  <1>7. CASE TakeFrame
    <2>1. disturbed' = disturbed
      BY <1>7 DEF TakeFrame
    <2> QED
      BY <1>7, <2>1, TakeStep DEF ConsumesTextOrFrame
  <1>8. CASE AwaitFrame
    <2>1. phase' = "read" /\ UNCHANGED <<wire, sensorWidth, width, buffer, disturbed>>
      BY <1>8 DEF AwaitFrame
    <2> QED
      BY <1>0, <2>1 DEF Undisturbed
  <1>9. CASE Overrun
    <2>1. /\ phase = "frames" /\ Whole /\ Count > MaxPoints
          /\ UNCHANGED <<wire, sensorWidth, width, buffer, disturbed>>
      BY <1>9 DEF Overrun
    <2>2. disturbed
      <3> SUFFICES ASSUME ~disturbed PROVE FALSE
        OBVIOUS
      <3>1. PICK M : Marked(buffer \o wire, width, M)
        BY DEF Undisturbed
      <3>2. Count \in 0..MaxPoints
        BY <2>1, <3>1, TakenIsFrame
      <3> QED
        BY <2>1, <3>2, FrameAssumption
    <2> QED
      BY <2>1, <2>2 DEF Undisturbed
  <1>10. CASE UNCHANGED vars
    BY <1>0, <1>10 DEF vars, Undisturbed
  <1> QED
    BY <1>1, <1>2, <1>3, <1>4, <1>5, <1>6, <1>7, <1>8, <1>9, <1>10 DEF Next

LEMMA UndisturbedFirst == Init => AtHeader /\ Undisturbed
  <1> SUFFICES ASSUME Init PROVE AtHeader /\ Undisturbed
    OBVIOUS
  <1>1. /\ wire = <<>> /\ buffer = <<>> /\ phase = "read"
        /\ disturbed = (width # sensorWidth)
    BY DEF Init
  <1>2. buffer \o wire = <<>> /\ <<>> \in Seq(Char)
    BY <1>1
  <1>3. Marked(<<>>, width, {})
    BY <1>2, TextMarked
  <1>4. Undisturbed
    BY <1>1, <1>2, <1>3 DEF Undisturbed
  <1> QED
    BY <1>1, <1>4 DEF AtHeader

\* While nothing is disturbed no bytes of points are taken for a header, so that
\* the thread neither writes past ScanData nor goes deaf, for every sequence of
\* frames and text; no count may look like the end of a status block.
THEOREM NotMisled ==
  ASSUME ED \notin 0..MaxPoints
  PROVE  Spec => []NeverMisled
  <1> DEFINE Inv == AtHeader /\ Undisturbed
  <1>1. Init => Inv
    BY UndisturbedFirst
  <1>2. TypeOK /\ DeafOnlyToOversize /\ Inv /\ [Next]_vars => Inv'
    BY HearingStep, UndisturbedStep
  <1>3. TypeOK /\ DeafOnlyToOversize /\ Inv => NeverMisled
    <2> SUFFICES ASSUME TypeOK, DeafOnlyToOversize, Undisturbed, ~disturbed, Deaf
                 PROVE  FALSE
      BY DEF NeverMisled, Undisturbed
    <2>1. PICK M : Marked(buffer \o wire, width, M)
      BY DEF Undisturbed
    <2>2. buffer \in Seq(Byte) /\ wire \in Seq(Byte) /\ width \in Widths
      BY DEF TypeOK
    <2>3. buffer[1] = H1 /\ Overhead + 2 * Count > BufferSize
      BY DEF DeafOnlyToOversize, IsHeader
    <2>4. BufferSize \in Nat /\ MaxPoints \in Nat /\ Overhead + 2 * MaxPoints <= BufferSize
      BY FrameAssumption
    <2>5. Len(buffer) \in Nat /\ Len(buffer) >= 3
      BY <2>2, <2>4, FrameAssumption DEF Deaf, Overhead
    <2> DEFINE s == buffer \o wire
    <2>6. /\ s \in Seq(Byte) /\ s # <<>> /\ s[1] = H1 /\ s[3] = Count
      <3>1. /\ s \in Seq(Byte) /\ Len(s) = Len(buffer) + Len(wire) /\ Len(wire) \in Nat
            /\ \A i \in 1..Len(buffer) : s[i] = buffer[i]
        BY <2>2, Joined
      <3>2. 1 \in 1..Len(buffer) /\ 3 \in 1..Len(buffer)
        BY <2>5
      <3> HIDE DEF s
      <3> QED
        BY <2>3, <2>5, <3>1, <3>2 DEF Count
    <2>7. Marked(s, width, M)
      BY <2>1
    <2> HIDE DEF s
    <2>8. 1 \in M
      BY <2>2, <2>6, <2>7, FirstIsMarked
    <2>9. s[1 + 2] \in 0..MaxPoints /\ 1 + 2 = 3
      BY <2>7, <2>8 DEF Marked, FrameAt
    <2>10. Count \in 0..MaxPoints
      BY <2>6, <2>9
    <2> QED
      BY <2>3, <2>4, <2>10 DEF Overhead
  <1> QED
    BY <1>1, <1>2, <1>3, TypeCorrect, Hears, PTL DEF Spec

\* However reads cut the bytes, and whatever is sent, the update thread
\* consumes nothing but text, or one whole frame that it hands on as it was
\* sent, while nothing is disturbed; no count may look like the end of a block.
THEOREM NothingIsLost ==
  ASSUME ED \notin 0..MaxPoints
  PROVE  Spec => NothingLost
  <1> DEFINE Inv == AtHeader /\ Undisturbed
             Consumes == phase # "read" /\ ~disturbed' /\ Len(buffer') < Len(buffer)
                           => ConsumesTextOrFrame
  <1>1. Init => Inv
    BY UndisturbedFirst
  <1>2. TypeOK /\ DeafOnlyToOversize /\ Inv /\ [Next]_vars => Inv' /\ [Consumes]_vars
    BY HearingStep, UndisturbedStep
  <1> QED
    BY <1>1, <1>2, TypeCorrect, Hears, PTL DEF Spec, NothingLost
=============================================================================
