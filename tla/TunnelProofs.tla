---- MODULE TunnelProofs ----
(***************************************************************************)
(* Proofs about lab34, for every capacity, every content and every order   *)
(* of events: the sender, which shares one tunnel among its clients, and   *)
(* the message codec, whose framing is the same and whose two sides may    *)
(* stop after any byte.                                                    *)
(*                                                                         *)
(* The codec's proof decodes by reference (Decoded) what is under way: a   *)
(* receiver that reads takes the first bytes of it (Reads), and the flags  *)
(* of the encoder are those of whoever decodes what it wrote (Coherent).   *)
(*                                                                         *)
(* (ServerTablesProofs, whose lemmas about the registry are used, brings   *)
(* the variables of IdList along; nothing here has any of them.)           *)
(***************************************************************************)
EXTENDS TunnelSender, MessageCodec, ServerTablesProofs, SequenceTheorems

(* The order on Nat is well founded: what replaces induction below.        *)
LEMMA LeastOf ==
    ASSUME NEW S \in SUBSET Nat, S # {}
    PROVE  \E m \in S : \A x \in S : m <= x
<1>1. PICK m \in S : \A x \in S : ~(<<x, m>> \in OpToRel(<, Nat))
  BY WFMin, NatLessThanWellFounded
<1>2. ASSUME NEW x \in S PROVE m <= x
  <2> SUFFICES ASSUME x < m PROVE FALSE
    OBVIOUS
  <2>1. <<x, m>> \in {p \in Nat \X Nat : p[1] < p[2]}
    OBVIOUS
  <2> QED BY <1>1, <1>2, <2>1 DEF OpToRel
<1> QED BY <1>2

(* f is the recursion over 0 .. n that starts with a and goes on with g. *)
RunOf(f, n, A, a, g) ==
    /\ f \in [0 .. n -> A]
    /\ f[0] = a
    /\ \A k \in 1 .. n : f[k] = g[<<k, f[k - 1]>>]

(* It exists when every step stays in A. *)
LEMMA RecursionExists ==
    ASSUME NEW n \in Nat, NEW A, NEW a \in A, NEW g \in [(1 .. n) \X A -> A]
    PROVE  \E f : RunOf(f, n, A, a, g)
<1> DEFINE Stuck == {m \in 0 .. n : ~\E f : RunOf(f, m, A, a, g)}
<1> SUFFICES ASSUME Stuck # {} PROVE FALSE
  <2>1. n \notin Stuck => \E f : RunOf(f, n, A, a, g)
    OBVIOUS
  <2> QED BY <2>1
<1>1. PICK m \in Stuck : \A x \in Stuck : m <= x
  <2>1. Stuck \in SUBSET Nat
    OBVIOUS
  <2> HIDE DEF Stuck
  <2> QED BY <2>1, LeastOf
<1>2. m # 0
  <2>1. RunOf([k \in 0 .. 0 |-> a], 0, A, a, g)
    BY DEF RunOf
  <2> QED BY <2>1, <1>1
<1>3. m - 1 \in 0 .. n /\ m - 1 \notin Stuck /\ m \in 1 .. n
  <2>1. m \in 0 .. n
    BY <1>1
  <2>2. m - 1 \in 0 .. n /\ m \in 1 .. n /\ ~(m <= m - 1)
    BY <1>2, <2>1
  <2> HIDE DEF Stuck
  <2> QED BY <1>1, <2>2
<1>4. PICK f : RunOf(f, m - 1, A, a, g)
  BY <1>3
<1> DEFINE h == [k \in 0 .. m |-> IF k = m THEN g[<<m, f[m - 1]>>] ELSE f[k]]
<1>5. f[m - 1] \in A /\ g[<<m, f[m - 1]>>] \in A
  <2>1. f[m - 1] \in A
    BY <1>3, <1>4 DEF RunOf
  <2> QED BY <1>3, <2>1
<1>6. h \in [0 .. m -> A]
  <2>1. \A k \in 0 .. m : k # m => f[k] \in A
    BY <1>3, <1>4 DEF RunOf
  <2> QED BY <1>5, <2>1
<1>7. h[0] = a
  BY <1>3, <1>4 DEF RunOf
<1>8. ASSUME NEW k \in 1 .. m PROVE h[k] = g[<<k, h[k - 1]>>]
  <2>1. h[k - 1] = f[k - 1]
    BY <1>3
  <2>2. CASE k = m
    <3>1. m \in 0 .. m /\ h[m] = g[<<m, f[m - 1]>>]
      BY <1>3
    <3> QED BY <2>1, <2>2, <3>1
  <2>3. CASE k # m
    <3>1. k \in 1 .. m - 1 /\ k \in 0 .. m
      BY <1>3, <2>3
    <3>2. h[k] = f[k]
      BY <2>3, <3>1
    <3>3. f[k] = g[<<k, f[k - 1]>>]
      BY <1>4, <3>1 DEF RunOf
    <3> QED BY <2>1, <3>2, <3>3
  <2> QED BY <2>2, <2>3
<1> HIDE DEF h
<1>9. m \notin Stuck
  <2>1. RunOf(h, m, A, a, g)
    BY <1>6, <1>7, <1>8 DEF RunOf
  <2> QED BY <2>1
<1> QED BY <1>1, <1>9

LEMMA EscapeByteType ==
    ASSUME NEW encoded \in Seq(Octets), NEW c \in Octets
    PROVE  /\ EscapeByte(encoded, c) \in Seq(Octets)
           /\ Len(EscapeByte(encoded, c)) >= Len(encoded) + 1
<1>1. <<MESSAGE_ESCAPE, c>> \in Seq(Octets) /\ Len(<<MESSAGE_ESCAPE, c>>) = 2
  BY DEF MESSAGE_ESCAPE, Octets
<1>2. Len(encoded) \in Nat
  BY LenProperties
<1> QED BY <1>1, <1>2, ConcatProperties, AppendProperties DEF EscapeByte

(* The intermediate results of an escaping. *)
LEMMA EscapedSteps ==
    ASSUME NEW s \in Seq(Octets)
    PROVE  \E f \in [0 .. Len(s) -> Seq(Octets)] :
              /\ f[0] = <<>>
              /\ \A k \in 1 .. Len(s) : f[k] = EscapeByte(f[k - 1], s[k])
              /\ Escaped(s) = f[Len(s)]
<1> DEFINE n == Len(s)
           A == Seq(Octets)
           g == [p \in (1 .. n) \X A |-> EscapeByte(p[2], s[p[1]])]
           Step(after) == [k \in 0 .. n |->
               IF k = 0 THEN <<>>
               ELSE CHOOSE next \in {EscapeByte(before, s[k]) : before \in {after[k - 1]}} : TRUE]
<1>1. n \in Nat /\ \A k \in 1 .. n : s[k] \in Octets
  BY LenProperties, ElementOfSeq
<1>2. g \in [(1 .. n) \X A -> A]
  BY <1>1, EscapeByteType
<1>3. <<>> \in A
  BY EmptySeq
<1>4. PICK f : RunOf(f, n, A, <<>>, g)
  <2>1. n \in Nat
    BY <1>1
  <2> HIDE DEF n, A, g
  <2> QED BY <2>1, <1>2, <1>3, RecursionExists, Zenon
<1>5. ASSUME NEW k \in 1 .. n PROVE f[k - 1] \in A /\ f[k] = EscapeByte(f[k - 1], s[k])
  <2>1. k - 1 \in 0 .. n
    BY <1>1
  <2>2. f[k - 1] \in A
    BY <1>4, <2>1 DEF RunOf
  <2>3. g[<<k, f[k - 1]>>] = EscapeByte(f[k - 1], s[k])
    BY <2>2
  <2>4. f[k] = g[<<k, f[k - 1]>>]
    BY <1>4 DEF RunOf
  <2> QED BY <2>2, <2>3, <2>4
<1>6. ASSUME NEW after, NEW k \in 1 .. n
      PROVE  Step(after)[k] = EscapeByte(after[k - 1], s[k])
  <2> DEFINE v == EscapeByte(after[k - 1], s[k])
  <2>1. {EscapeByte(before, s[k]) : before \in {after[k - 1]}} = {v}
    OBVIOUS
  <2>2. (CHOOSE next \in {v} : TRUE) = v
    OBVIOUS
  <2>3. k \in 0 .. n /\ k # 0
    BY <1>1
  <2> QED BY <2>1, <2>2, <2>3
<1>7. f = Step(f)
  <2>1. f = [k \in 0 .. n |-> f[k]]
    BY <1>4 DEF RunOf
  <2>2. ASSUME NEW k \in 0 .. n PROVE f[k] = Step(f)[k]
    <3>1. CASE k = 0
      <4>1. Step(f)[0] = <<>>
        BY <1>1
      <4> QED BY <1>4, <3>1, <4>1 DEF RunOf
    <3>2. CASE k # 0
      <4>1. k \in 1 .. n
        BY <1>1, <3>2
      <4> HIDE DEF Step
      <4> QED BY <1>5, <1>6, <4>1
    <3> QED BY <3>1, <3>2
  <2>3. Step(f) = [k \in 0 .. n |-> Step(f)[k]]
    OBVIOUS
  <2> HIDE DEF Step
  <2> QED BY <2>1, <2>2, <2>3, Zenon
<1> DEFINE Fold == CHOOSE after : after = Step(after)
<1>8. Fold = Step(Fold)
  <2> HIDE DEF Step
  <2> QED BY <1>7, Zenon
<1>9. \A k \in 0 .. n : Fold[k] = f[k]
  <2> DEFINE Wrong == {k \in 0 .. n : Fold[k] # f[k]}
  <2> SUFFICES ASSUME Wrong # {} PROVE FALSE
    OBVIOUS
  <2> HIDE DEF Fold
  <2>1. PICK k \in Wrong : \A x \in Wrong : k <= x
    <3>1. Wrong \in SUBSET Nat
      BY <1>1
    <3> HIDE DEF Wrong
    <3> QED BY <3>1, LeastOf
  <2>2. k # 0
    <3>1. Step(Fold)[0] = <<>>
      BY <1>1
    <3> HIDE DEF Step
    <3> QED BY <1>4, <1>8, <2>1, <3>1 DEF RunOf
  <2>3. k - 1 \in 0 .. n /\ k \in 1 .. n /\ ~(k <= k - 1)
    BY <1>1, <2>1, <2>2
  <2>4. Fold[k - 1] = f[k - 1]
    BY <2>1, <2>3
  <2>5. Fold[k] = EscapeByte(Fold[k - 1], s[k])
    <3> HIDE DEF Step
    <3> QED BY <1>6, <1>8, <2>3
  <2>6. f[k] = EscapeByte(f[k - 1], s[k])
    BY <1>5, <2>3
  <2>7. k \notin Wrong
    BY <2>4, <2>5, <2>6
  <2> QED BY <2>1, <2>7
<1>10. Escaped(s) = Fold[n]
  BY Zenon DEF Escaped, Folded
<1> HIDE DEF Fold
<1>11. Escaped(s) = f[Len(s)]
  BY <1>1, <1>9, <1>10
<1>12. f \in [0 .. n -> A] /\ f[0] = <<>>
  BY <1>4 DEF RunOf
<1> QED BY <1>5, <1>11, <1>12


(* Escaping yields octets, no fewer than it was given, and none from none. *)
LEMMA EscapedType ==
    ASSUME NEW s \in Seq(Octets)
    PROVE  /\ Escaped(s) \in Seq(Octets)
           /\ Len(Escaped(s)) \in Nat
           /\ Len(Escaped(s)) >= Len(s)
           /\ Len(s) = 0 => Len(Escaped(s)) = 0
<1>1. PICK f \in [0 .. Len(s) -> Seq(Octets)] :
         /\ f[0] = <<>>
         /\ \A k \in 1 .. Len(s) : f[k] = EscapeByte(f[k - 1], s[k])
         /\ Escaped(s) = f[Len(s)]
  BY EscapedSteps
<1>2. Len(s) \in Nat /\ \A k \in 1 .. Len(s) : s[k] \in Octets
  BY LenProperties, ElementOfSeq
<1> DEFINE Short == {k \in 0 .. Len(s) : ~(Len(f[k]) >= k)}
<1>3. Short = {}
  <2> SUFFICES ASSUME Short # {} PROVE FALSE
    OBVIOUS
  <2>1. PICK k \in Short : \A x \in Short : k <= x
    <3>1. Short \in SUBSET Nat
      BY <1>2
    <3> HIDE DEF Short
    <3> QED BY <3>1, LeastOf
  <2>2. k # 0
    <3>1. Len(f[0]) = 0
      BY <1>1, EmptySeq
    <3> QED BY <2>1, <3>1
  <2>3. k - 1 \in 0 .. Len(s) /\ k \in 1 .. Len(s) /\ ~(k <= k - 1)
    BY <1>2, <2>1, <2>2
  <2>4. Len(f[k - 1]) >= k - 1
    BY <2>1, <2>3
  <2>5. f[k - 1] \in Seq(Octets) /\ Len(f[k - 1]) \in Nat /\ Len(f[k]) \in Nat
    BY <1>1, <2>3, LenProperties
  <2>6. Len(EscapeByte(f[k - 1], s[k])) >= Len(f[k - 1]) + 1
    BY <1>2, <2>3, <2>5, EscapeByteType
  <2>7. f[k] = EscapeByte(f[k - 1], s[k])
    BY <1>1, <2>3
  <2>8. Len(f[k]) >= k
    BY <2>3, <2>4, <2>5, <2>6, <2>7
  <2> QED BY <2>1, <2>8
<1>4. Len(s) \in 0 .. Len(s)
  BY <1>2
<1>5. Escaped(s) \in Seq(Octets)
  BY <1>1, <1>4
<1>6. Len(Escaped(s)) >= Len(s)
  BY <1>1, <1>3, <1>4
<1>7. Len(s) = 0 => Len(Escaped(s)) = 0
  BY <1>1, EmptySeq
<1> QED BY <1>5, <1>6, <1>7, LenProperties

(* Bytes that are not reserved are sent as they are. *)
LEMMA EscapedPlain ==
    ASSUME NEW s \in Seq(Octets), \A k \in 1 .. Len(s) : s[k] \in Plain
    PROVE  Escaped(s) = s
<1>1. PICK f \in [0 .. Len(s) -> Seq(Octets)] :
         /\ f[0] = <<>>
         /\ \A k \in 1 .. Len(s) : f[k] = EscapeByte(f[k - 1], s[k])
         /\ Escaped(s) = f[Len(s)]
  BY EscapedSteps
<1>2. Len(s) \in Nat /\ \A k \in 1 .. Len(s) : s[k] \in Octets
  BY LenProperties, ElementOfSeq
<1>3. ASSUME NEW k \in 1 .. Len(s) PROVE f[k] = Append(f[k - 1], s[k])
  <2>1. s[k] \notin {MESSAGE_EDGE, MESSAGE_ESCAPE}
    BY SenderAssumption DEF Plain, MESSAGE_EDGE, MESSAGE_ESCAPE
  <2> QED BY <1>1, <2>1 DEF EscapeByte, ReservedByte
<1> DEFINE Wrong == {k \in 0 .. Len(s) : ~(/\ Len(f[k]) = k
                                          /\ \A m \in 1 .. k : f[k][m] = s[m])}
<1>4. Wrong = {}
  <2> SUFFICES ASSUME Wrong # {} PROVE FALSE
    OBVIOUS
  <2>1. PICK k \in Wrong : \A x \in Wrong : k <= x
    <3>1. Wrong \in SUBSET Nat
      BY <1>2
    <3> HIDE DEF Wrong
    <3> QED BY <3>1, LeastOf
  <2>2. k # 0
    <3>1. Len(f[0]) = 0
      BY <1>1, EmptySeq
    <3> QED BY <2>1, <3>1
  <2>3. k - 1 \in 0 .. Len(s) /\ k \in 1 .. Len(s) /\ ~(k <= k - 1)
    BY <1>2, <2>1, <2>2
  <2>4. Len(f[k - 1]) = k - 1 /\ \A m \in 1 .. k - 1 : f[k - 1][m] = s[m]
    BY <2>1, <2>3
  <2>5. f[k - 1] \in Seq(Octets) /\ s[k] \in Octets
    BY <1>1, <1>2, <2>3
  <2> DEFINE t == f[k - 1]
  <2>6. /\ Len(Append(t, s[k])) = Len(t) + 1
        /\ \A m \in 1 .. Len(t) : Append(t, s[k])[m] = t[m]
        /\ Append(t, s[k])[Len(t) + 1] = s[k]
    <3> HIDE DEF t
    <3>1. t \in Seq(Octets)
      BY <2>5 DEF t
    <3> QED BY <2>5, <3>1, AppendProperties
  <2>7. f[k] = Append(t, s[k])
    BY <1>3, <2>3
  <2> HIDE DEF t
  <2>8. Len(t) = k - 1 /\ \A m \in 1 .. k - 1 : t[m] = s[m]
    BY <2>4 DEF t
  <2>9. Len(f[k]) = k /\ \A m \in 1 .. k : f[k][m] = s[m]
    BY <2>3, <2>6, <2>7, <2>8
  <2> QED BY <2>1, <2>9
<1>5. Len(s) \in 0 .. Len(s)
  BY <1>2
<1>6. f[Len(s)] \in Seq(Octets)
  BY <1>1, <1>5
<1>7. Len(f[Len(s)]) = Len(s) /\ \A m \in 1 .. Len(s) : f[Len(s)][m] = s[m]
  BY <1>4, <1>5
<1>8. f[Len(s)] = s
  BY <1>6, <1>7, SeqEqual
<1> QED BY <1>1, <1>8

(* The front of a message. *)
LEMMA FrontOf ==
    ASSUME NEW S, NEW s \in Seq(S), NEW n \in 0 .. Len(s)
    PROVE  /\ SubSeq(s, 1, n) \in Seq(S)
           /\ Len(SubSeq(s, 1, n)) = n
           /\ \A k \in 1 .. n : SubSeq(s, 1, n)[k] = s[k]
<1>1. Len(s) \in Nat /\ n \in Int
  BY LenProperties
<1>2. \A k \in 1 .. n : s[k] \in S
  BY <1>1, ElementOfSeq
<1>3. /\ SubSeq(s, 1, n) \in Seq(S)
      /\ Len(SubSeq(s, 1, n)) = IF 1 <= n THEN n - 1 + 1 ELSE 0
      /\ \A k \in 1 .. n - 1 + 1 : SubSeq(s, 1, n)[k] = s[1 + k - 1]
  BY <1>1, <1>2, SubSeqProperties
<1>4. n - 1 + 1 = n /\ \A k \in 1 .. n : 1 + k - 1 = k
  BY <1>1
<1>5. \A k \in 1 .. n : SubSeq(s, 1, n)[k] = s[k]
  BY <1>3, <1>4, Zenon
<1>6. Len(SubSeq(s, 1, n)) = n
  BY <1>1, <1>3
<1> QED BY <1>3, <1>5, <1>6

(* The rest of it. *)
LEMMA RestOf ==
    ASSUME NEW S, NEW s \in Seq(S), NEW n \in 0 .. Len(s)
    PROVE  /\ SubSeq(s, n + 1, Len(s)) \in Seq(S)
           /\ Len(SubSeq(s, n + 1, Len(s))) = Len(s) - n
           /\ \A k \in 1 .. Len(s) - n : SubSeq(s, n + 1, Len(s))[k] = s[n + k]
<1> DEFINE m == n + 1
           l == Len(s)
<1>1. l \in Nat /\ m \in Int /\ n \in 0 .. l
  BY LenProperties
<1>2. \A k \in m .. l : s[k] \in S
  BY <1>1, ElementOfSeq
<1>3. /\ SubSeq(s, m, l) \in Seq(S)
      /\ Len(SubSeq(s, m, l)) = IF m <= l THEN l - m + 1 ELSE 0
      /\ \A k \in 1 .. l - m + 1 : SubSeq(s, m, l)[k] = s[m + k - 1]
  <2>1. l \in Int
    BY <1>1
  <2> HIDE DEF m, l
  <2> QED BY <1>1, <1>2, <2>1, SubSeqProperties
<1>4. l - m + 1 = l - n /\ \A k \in 1 .. l - n : m + k - 1 = n + k
  BY <1>1
<1>5. \A k \in 1 .. l - n : SubSeq(s, m, l)[k] = s[n + k]
  BY <1>3, <1>4, Zenon
<1>6. Len(SubSeq(s, m, l)) = l - n
  BY <1>1, <1>3
<1> QED BY <1>3, <1>5, <1>6

(* How many bytes of a message fit: their escaped form does, so there are  *)
(* no more of them than there is room.                                     *)
LEMMA ConsumedFits ==
    ASSUME NEW s \in Seq(Octets), NEW room \in Nat
    PROVE  /\ Consumed(s, room) \in 0 .. Len(s)
           /\ Consumed(s, room) <= room
<1> DEFINE size(n) == Len(Escaped(SubSeq(s, 1, n)))
           Fits == {n \in 0 .. Len(s) : size(n) <= room}
           Back == {m \in 0 .. Len(s) : Len(s) - m \in Fits}
<1>1. Len(s) \in Nat
  BY LenProperties
<1>2. ASSUME NEW n \in 0 .. Len(s)
      PROVE  size(n) \in Nat /\ size(n) >= n /\ (n = 0 => size(n) = 0)
  <2> DEFINE t == SubSeq(s, 1, n)
  <2>1. t \in Seq(Octets) /\ Len(t) = n
    BY FrontOf
  <2> HIDE DEF t
  <2>2. Len(Escaped(t)) \in Nat /\ Len(Escaped(t)) >= n /\ (n = 0 => Len(Escaped(t)) = 0)
    BY <2>1, EscapedType
  <2> QED BY <2>2 DEF t
<1> HIDE DEF size
<1>3. Len(s) \in Back
  <2>1. size(0) <= room /\ 0 \in 0 .. Len(s)
    BY <1>1, <1>2
  <2>2. Len(s) - Len(s) = 0 /\ Len(s) \in 0 .. Len(s)
    BY <1>1
  <2> QED BY <2>1, <2>2
<1>4. PICK m \in Back : \A x \in Back : m <= x
  <2>1. Back \in SUBSET Nat
    BY <1>1
  <2> HIDE DEF Back
  <2> QED BY <1>3, <2>1, LeastOf
<1> DEFINE n == Len(s) - m
<1>5. n \in 0 .. Len(s) /\ size(n) <= room
  BY <1>4
<1>6. ASSUME NEW k \in n + 1 .. Len(s) PROVE size(k) > room
  <2>1. k \in 0 .. Len(s) /\ m \in 0 .. Len(s)
    BY <1>1, <1>4, <1>5
  <2>2. Len(s) - k \in 0 .. Len(s) /\ Len(s) - (Len(s) - k) = k /\ ~(m <= Len(s) - k)
    BY <1>1, <2>1
  <2>3. Len(s) - k \notin Back
    <3> HIDE DEF Back
    <3> QED BY <1>4, <2>2
  <2>4. ~(size(k) <= room)
    BY <2>1, <2>2, <2>3
  <2> QED BY <1>2, <2>1, <2>4
<1> HIDE DEF n
<1> DEFINE Most(x) == size(x) <= room /\ \A k \in x + 1 .. Len(s) : size(k) > room
<1>7. \E x \in 0 .. Len(s) : Most(x)
  BY <1>5, <1>6
<1>8. Consumed(s, room) = CHOOSE x \in 0 .. Len(s) : Most(x)
  BY Zenon DEF Consumed, size
<1> HIDE DEF Most
<1>9. Consumed(s, room) \in 0 .. Len(s) /\ Most(Consumed(s, room))
  BY <1>7, <1>8, Zenon
<1>10. size(Consumed(s, room)) <= room /\ size(Consumed(s, room)) \in Nat
       /\ size(Consumed(s, room)) >= Consumed(s, room)
  BY <1>2, <1>9 DEF Most
<1> QED BY <1>1, <1>9, <1>10


-----------------------------------------------------------------------------
(* The type invariant in parts, of which a step disturbs one or two. *)

ListType ==
    /\ tsTable \in [Ids -> Ids] /\ tsCount \in 0 .. MaxClients
    /\ removeFlag \in [Ids -> BOOLEAN]
    /\ addQueue \in Seq(Ids) /\ Len(addQueue) <= MaxClients

BufferType ==
    /\ buffers \in [Ids -> Seq(Octets)] /\ allocated \in [Ids -> BOOLEAN]
    /\ \A id \in Ids : Len(buffers[id]) <= IF allocated[id] THEN BufferSize ELSE 0

TunnelType ==
    /\ tunnelCount \in 0 .. MessageSize
    /\ tunnelStart \in 0 .. MessageSize - 1
    /\ tunnelOrder \in Ids \cup {NO_ORDER, CONTROL_ORDER}

LoopType ==
    /\ sendOrder \in Ids \cup {NO_ORDER} /\ sendCount \in 0 .. BufferSize
    /\ pc \in {"poll", "accept", "io", "fill", "data", "send", "undefined", "exit"}
    /\ i \in 0 .. MaxClients /\ left \in 0 .. MaxClients
    /\ sent \in [Ids -> Plain]

LEMMA TypeParts ==
    TypeOK <=> RegistryTypeOK /\ ListType /\ BufferType /\ TunnelType /\ LoopType
BY DEF TypeOK, ListType, BufferType, TunnelType, LoopType

(* What TablesAgree needs to be inductive: which states may lack tables. *)
SenderTables == TablesAgree /\ (up <=> pc # "exit")

LEMMA TablesParts ==
    SenderTables <=> /\ RegistryInv /\ ListType /\ BufferType /\ TunnelType /\ LoopType
                     /\ up => tsCount <= clientCount
                     /\ ListMatchesRegistry
                     /\ up <=> pc # "exit"
BY TypeParts DEF SenderTables, TablesAgree, TablesInBounds, RegistryInv

(* Lists, buffers and ring keep their types when nobody touches them. *)
LEMMA SameTypes ==
    ASSUME ListType, BufferType, TunnelType, UNCHANGED <<tsVars, ringVars, bufferVars>>
    PROVE  ListType' /\ BufferType' /\ TunnelType'
<1>1. ListType'
  BY DEF ListType, tsVars
<1>2. BufferType'
  BY DEF BufferType, bufferVars
<1>3. TunnelType'
  BY DEF TunnelType, ringVars
<1> QED BY <1>1, <1>2, <1>3

(* The list is sound as long as neither it nor the registry changes. *)
LEMMA ListKept ==
    ASSUME ListMatchesRegistry, UNCHANGED <<tsTable, tsCount, up>>, Live' = Live,
           faults \subseteq faults'
    PROVE  ListMatchesRegistry'
BY DEF ListMatchesRegistry, Listed

LEMMA NumbersOK ==
    /\ MaxClients \in Nat /\ MaxClients > 0 /\ MaxClients <= CONTROL_ORDER
    /\ BufferSize \in Nat /\ BufferSize > 0
    /\ MessageSize \in Nat /\ MessageSize > 0
    /\ Cycle \in Nat /\ Cycle > 1 /\ Cycle <= MESSAGE_ESCAPE
    /\ MESSAGE_ESCAPE = 125 /\ CONTROL_ORDER = 255
BY MaxClientsAssumption, SenderAssumption DEF MESSAGE_ESCAPE, CONTROL_ORDER

LEMMA OctetsOK ==
    /\ Ids \subseteq Octets /\ Plain \subseteq Octets /\ Reserved \subseteq Octets
    /\ \A id \in Ids : id \in Nat /\ id < CONTROL_ORDER
BY NumbersOK, SenderAssumption
   DEF Ids, Plain, Octets, MESSAGE_EDGE, MESSAGE_ESCAPE

(* The lowest bit of arithmetic with % that is needed. *)
LEMMA ModType ==
    ASSUME NEW x \in Nat, NEW n \in Nat, n > 0
    PROVE  x % n \in 0 .. n - 1
OBVIOUS

(* A list that was not cut yet has as many clients as the registry. *)
LEMMA ListedAre ==
    ASSUME ListType
    PROVE  /\ 0 .. tsCount - 1 \subseteq Ids
           /\ \A k \in 0 .. tsCount - 1 : tsTable[k] \in Ids
BY NumbersOK DEF ListType, Ids

(* There are no more descriptors than clients. *)
LEMMA OpenBounded ==
    ASSUME RegistryInv, up
    PROVE  Cardinality(open) \in 0 .. MaxClients
<1> DEFINE P == {s \in UsedSlots : clients[s].fd # REMOVED_CLIENT}
           f == [s \in P |-> clients[s].fd]
<1>1. clientCount \in 0 .. MaxClients
  BY DEF RegistryInv, RegistryTypeOK
<1>2. IsFiniteSet(UsedSlots) /\ Cardinality(UsedSlots) = clientCount
  <2>1. 0 \in Int /\ clientCount - 1 \in Int
    BY <1>1
  <2> QED BY <1>1, <2>1, FS_Interval DEF UsedSlots
<1>3. IsFiniteSet(P) /\ Cardinality(P) <= clientCount
  <2>1. P \in SUBSET UsedSlots
    OBVIOUS
  <2> HIDE DEF P
  <2> QED BY <1>2, <2>1, FS_Subset
<1>4. f \in Surjection(P, open)
  <2>1. open = {clients[s].fd : s \in UsedSlots} \ {REMOVED_CLIENT}
    BY DEF RegistryInv, OpenFdsPolled
  <2>2. f \in [P -> open]
    BY <2>1
  <2>3. \A fd \in open : \E s \in P : f[s] = fd
    BY <2>1
  <2> HIDE DEF f, P
  <2> QED BY <2>2, <2>3, Fun_IsSurj
<1>5. IsFiniteSet(open) /\ Cardinality(open) <= Cardinality(P)
  <2> HIDE DEF f, P
  <2> QED BY <1>3, <1>4, FS_Surjection
<1> HIDE DEF f, P
<1>6. Cardinality(open) \in Nat /\ Cardinality(P) \in Nat
  BY <1>3, <1>5, FS_CardinalityType
<1> QED BY <1>1, <1>3, <1>5, <1>6, NumbersOK


-----------------------------------------------------------------------------
(* The steps of poll, accept and perform_client_io. *)

(* Steps that leave the registry alone. *)
LEMMA SameRegistry ==
    ASSUME SenderTables, UNCHANGED registryVars, UNCHANGED <<tsTable, tsCount>>,
           faults \subseteq faults', pc # "exit", pc' # "exit",
           ListType', BufferType', TunnelType', LoopType'
    PROVE  SenderTables'
<1>1. RegistryInv' /\ Live' = Live /\ UNCHANGED <<clientCount, up>>
  BY RegistryUnchanged, TablesParts
<1>2. ListMatchesRegistry'
  BY <1>1, ListKept, TablesParts
<1>3. (up => tsCount <= clientCount)' /\ (up <=> pc # "exit")'
  BY <1>1, TablesParts
<1> QED BY <1>1, <1>2, <1>3, TablesParts, PTL

LEMMA PollTables ==
    ASSUME SenderTables, Poll
    PROVE  SenderTables'
<1> DEFINE ready == [fd \in Fds |-> {"POLLOUT"}]
<1>1. /\ PollClients(ready) /\ pc = "poll" /\ up
      /\ pc' \in {"accept", "io"} /\ left' = Cardinality(open) /\ i' = 0
      /\ UNCHANGED <<tsVars, ringVars, sendVars, bufferVars, tunnelOut, sent, rx, faults, bypassed>>
  BY TablesParts DEF Poll
<1>2. ready \in [Fds -> SUBSET Events]
  BY SenderAssumption
<1>3. RegistryInv' /\ UNCHANGED <<idTable, clientCount, up>>
  BY <1>1, <1>2, PollClientsInv, TablesParts DEF PollClients
<1>4. Live' = Live
  BY <1>3 DEF Live, IsValidId
<1>5. ListType' /\ BufferType' /\ TunnelType'
  BY <1>1, TablesParts DEF ListType, BufferType, TunnelType, tsVars, ringVars, bufferVars
<1>6. LoopType'
  <2>1. left' \in 0 .. MaxClients
    BY <1>1, OpenBounded, TablesParts
  <2> QED BY <1>1, <2>1, TablesParts, NumbersOK DEF LoopType, sendVars
<1>7. ListMatchesRegistry'
  BY <1>1, <1>3, <1>4, ListKept, TablesParts DEF tsVars
<1>8. (up => tsCount <= clientCount)' /\ (up <=> pc # "exit")'
  BY <1>1, <1>3, TablesParts DEF tsVars
<1> QED BY <1>3, <1>5, <1>6, <1>7, <1>8, TablesParts, PTL

LEMMA AcceptTables ==
    ASSUME SenderTables, Accept
    PROVE  SenderTables'
<1> DEFINE id == NextId
<1>1. PICK fd \in Fds \ open : AddClient(fd)
  BY DEF Accept
<1>2. /\ pc = "accept" /\ ~IsFull /\ pc' = "io"
      /\ buffers' = [buffers EXCEPT ![id] = <<>>]
      /\ allocated' = [allocated EXCEPT ![id] = TRUE]
      /\ addQueue' = IF Len(addQueue) < MaxClients THEN Append(addQueue, id) ELSE addQueue
      /\ faults \subseteq faults'
      /\ tsTable' = [tsTable EXCEPT ![tsCount] = id] /\ tsCount' = tsCount + 1
      /\ sent' = [sent EXCEPT ![id] = 0]
      /\ UNCHANGED <<removeFlag, ringVars, sendVars, pollVars, i, rx, bypassed>>
  BY DEF Accept
<1>3. up
  BY <1>2, TablesParts
<1>4. /\ id \in Ids /\ id \notin Live /\ Live' = Live \cup {id}
      /\ clientCount' = clientCount + 1 /\ up' = up
  BY <1>1, <1>3, AddClientEffect, TablesParts
<1>5. RegistryInv'
  BY <1>1, <1>3, AddClientInv, TablesParts
<1> HIDE DEF id
<1>6. tsCount \in 0 .. MaxClients - 1 /\ tsCount <= clientCount /\ clientCount \in Nat
  BY <1>2, <1>3, TablesParts, NumbersOK DEF ListType, IsFull, RegistryInv, RegistryTypeOK
<1>7. ListType'
  <2>1. addQueue' \in Seq(Ids) /\ Len(addQueue') <= MaxClients
    <3>1. addQueue \in Seq(Ids) /\ Len(addQueue) <= MaxClients /\ Len(addQueue) \in Nat
      BY TablesParts, LenProperties DEF ListType
    <3>2. Append(addQueue, id) \in Seq(Ids) /\ Len(Append(addQueue, id)) = Len(addQueue) + 1
      BY <1>4, <3>1, AppendProperties
    <3> QED BY <1>2, <3>1, <3>2, NumbersOK
  <2>2. tsCount' \in 0 .. MaxClients
    BY <1>2, <1>6, NumbersOK
  <2> QED BY <1>2, <1>4, <2>1, <2>2, TablesParts DEF ListType
<1>8. BufferType'
  <2>1. <<>> \in Seq(Octets) /\ Len(<<>>) = 0
    BY EmptySeq
  <2> QED BY <1>2, <1>4, <2>1, TablesParts, NumbersOK DEF BufferType
<1>9. TunnelType' /\ LoopType'
  <2>1. 0 \in Plain
    BY NumbersOK DEF Plain
  <2> QED BY <1>2, <2>1, TablesParts DEF TunnelType, LoopType, ringVars, sendVars, pollVars
<1>10. ListMatchesRegistry'
  <2> SUFFICES ASSUME "wrongIndex" \notin faults
               PROVE  /\ Listed' = Live'
                      /\ \A k, m \in 0 .. tsCount : tsTable'[k] = tsTable'[m] => k = m
    <3>1. 0 .. tsCount' - 1 = 0 .. tsCount
      BY <1>2, <1>6
    <3> QED BY <1>2, <3>1 DEF ListMatchesRegistry
  <2>1. Listed = Live /\ \A k, m \in 0 .. tsCount - 1 : tsTable[k] = tsTable[m] => k = m
    BY <1>3, TablesParts DEF ListMatchesRegistry
  <2>2. \A k \in 0 .. tsCount : tsTable'[k] = IF k = tsCount THEN id ELSE tsTable[k]
    BY <1>2, <1>6, TablesParts DEF ListType, Ids
  <2>3. 0 .. tsCount = (0 .. tsCount - 1) \cup {tsCount} /\ tsCount \notin 0 .. tsCount - 1
    BY <1>6
  <2>4. Listed' = {tsTable'[k] : k \in 0 .. tsCount}
    <3>1. 0 .. tsCount' - 1 = 0 .. tsCount
      BY <1>2, <1>6
    <3> QED BY <3>1 DEF Listed
  <2>5. Listed' = Listed \cup {id}
    BY <2>2, <2>3, <2>4 DEF Listed
  <2>6. \A k \in 0 .. tsCount - 1 : tsTable[k] # id
    BY <1>4, <2>1 DEF Listed
  <2> QED BY <1>4, <2>1, <2>2, <2>3, <2>5, <2>6
<1>11. (up => tsCount <= clientCount)' /\ (up <=> pc # "exit")'
  BY <1>2, <1>3, <1>4, <1>6
<1> QED BY <1>5, <1>7, <1>8, <1>9, <1>10, <1>11, TablesParts, PTL

LEMMA NoAcceptTables ==
    ASSUME SenderTables, Refuse \/ AcceptFails
    PROVE  SenderTables'
<1>1. /\ UNCHANGED registryVars /\ UNCHANGED <<tsVars, ringVars, sendVars, bufferVars, sent, faults, i>>
      /\ pc = "accept" /\ pc' \in {"io", "poll"} /\ left' \in {left, 0}
  BY DEF Refuse, AcceptFails, pollVars
<1>2. ListType' /\ BufferType' /\ TunnelType' /\ LoopType'
  <2>1. ListType' /\ BufferType' /\ TunnelType'
    BY <1>1, TablesParts, SameTypes
  <2>2. LoopType'
    BY <1>1, TablesParts, NumbersOK DEF LoopType, sendVars
  <2> QED BY <2>1, <2>2
<1> QED BY <1>1, <1>2, SameRegistry DEF tsVars

(* What the loop over the clients does in every case. *)
LEMMA IoStep ==
    ASSUME SenderTables, IoGuard, IoNext
    PROVE  /\ up /\ pc' = pc /\ pc = "io" /\ Current \in Ids /\ i \in 0 .. tsCount - 1
           /\ UNCHANGED <<tsTable, tsCount, addQueue, allocated, ringVars, sendVars, faults, rx, bypassed>>
           /\ i' \in 0 .. MaxClients /\ left' \in 0 .. MaxClients /\ TunnelType'
<1>1. /\ pc = "io" /\ pc' = pc /\ left > 0 /\ i < tsCount
      /\ left' = left - (IF Reported(Current) THEN 1 ELSE 0) /\ i' = i + 1
      /\ UNCHANGED <<tsTable, tsCount, addQueue, ringVars, sendVars, allocated, faults, rx, bypassed>>
  BY DEF IoGuard, IoNext
<1>2. i \in 0 .. tsCount - 1 /\ tsCount \in 0 .. MaxClients /\ left \in 0 .. MaxClients
  BY <1>1, TablesParts, NumbersOK DEF LoopType, ListType
<1>3. Current \in Ids
  BY <1>2, ListedAre, TablesParts DEF Current
<1>4. i' \in 0 .. MaxClients /\ left' \in 0 .. MaxClients
  BY <1>1, <1>2, NumbersOK
<1>5. TunnelType' /\ up
  BY <1>1, TablesParts DEF TunnelType, ringVars
<1> QED BY <1>1, <1>2, <1>3, <1>4, <1>5

LEMMA ClientPassesTables ==
    ASSUME SenderTables, ClientPasses
    PROVE  SenderTables'
<1>1. /\ up /\ pc' = pc /\ pc = "io"
      /\ UNCHANGED <<tsTable, tsCount, addQueue, allocated, ringVars, sendVars, faults>>
      /\ i' \in 0 .. MaxClients /\ left' \in 0 .. MaxClients /\ TunnelType'
      /\ UNCHANGED registryVars /\ UNCHANGED <<removeFlag, buffers, sent>>
  BY IoStep DEF ClientPasses
<1>2. ListType' /\ BufferType' /\ LoopType'
  BY <1>1, TablesParts DEF ListType, BufferType, LoopType, sendVars
<1> QED BY <1>1, <1>2, SameRegistry

(* What a read may find. *)
LEMMA ArrivingType ==
    ASSUME NEW next \in Plain, NEW room \in Nat, room > 0, NEW bytes \in Arriving(next, room)
    PROVE  /\ bytes \in Seq(Octets) /\ Len(bytes) \in 1 .. room
           /\ \/ /\ \A k \in 1 .. Len(bytes) : bytes[k] = (next + k - 1) % Cycle
                 /\ \A k \in 1 .. Len(bytes) : bytes[k] \in Plain
              \/ Len(bytes) = 1 /\ bytes[1] \in Reserved /\ bytes[1] \notin Plain
<1>1. CASE \E n \in 1 .. room : bytes = [k \in 1 .. n |-> (next + k - 1) % Cycle]
  <2>1. PICK n \in 1 .. room : bytes = [k \in 1 .. n |-> (next + k - 1) % Cycle]
    BY <1>1
  <2>2. ASSUME NEW k \in 1 .. n PROVE (next + k - 1) % Cycle \in Plain
    <3>1. next + k - 1 \in Nat
      BY NumbersOK DEF Plain
    <3> QED BY <3>1, ModType, NumbersOK DEF Plain
  <2>3. bytes \in [1 .. n -> Octets]
    BY <2>1, <2>2, OctetsOK
  <2>4. n \in Nat
    OBVIOUS
  <2>5. bytes \in Seq(Octets)
    BY <2>3, <2>4, SeqDef
  <2>6. Len(bytes) = n
    <3>1. DOMAIN bytes = 1 .. n /\ DOMAIN bytes = 1 .. Len(bytes) /\ Len(bytes) \in Nat
      BY <2>1, <2>5, LenProperties
    <3> QED BY <2>4, <3>1
  <2> QED BY <2>1, <2>2, <2>5, <2>6
<1>2. CASE \E c \in Reserved : bytes = <<c>>
  <2>1. PICK c \in Reserved : bytes = <<c>>
    BY <1>2
  <2>2. c \in Octets /\ c \notin Plain
    BY SenderAssumption, NumbersOK DEF Octets, Plain, MESSAGE_EDGE, MESSAGE_ESCAPE
  <2>3. <<c>> \in Seq(Octets) /\ Len(<<c>>) = 1 /\ <<c>>[1] = c
    BY <2>2
  <2> QED BY <2>1, <2>2, <2>3
<1> QED BY <1>1, <1>2 DEF Arriving

LEMMA ClientReadsTables ==
    ASSUME SenderTables, ClientReads
    PROVE  SenderTables'
<1> DEFINE id == Current
           room == BufferSize - Len(buffers[id])
<1>1. /\ up /\ pc' = pc /\ pc = "io" /\ id \in Ids
      /\ UNCHANGED <<tsTable, tsCount, addQueue, allocated, ringVars, sendVars, faults>>
      /\ i' \in 0 .. MaxClients /\ left' \in 0 .. MaxClients /\ TunnelType'
      /\ UNCHANGED registryVars /\ removeFlag' = removeFlag /\ ~CbFull(id)
  BY IoStep DEF ClientReads
<1>2. PICK bytes \in Arriving(sent[id], room) :
         /\ buffers' = [buffers EXCEPT ![id] = buffers[id] \o bytes]
         /\ sent' = [sent EXCEPT ![id] =
                        IF Head(bytes) \in Plain THEN (sent[id] + Len(bytes)) % Cycle ELSE sent[id]]
  BY DEF ClientReads
<1>3. /\ buffers[id] \in Seq(Octets) /\ Len(buffers[id]) \in Nat /\ sent[id] \in Plain
      /\ allocated[id] = TRUE /\ room \in Nat /\ room > 0 /\ Len(buffers[id]) + room = BufferSize
  <2>1. buffers[id] \in Seq(Octets) /\ sent[id] \in Plain /\ allocated[id] \in BOOLEAN
    BY <1>1, TablesParts DEF BufferType, LoopType
  <2>2. Len(buffers[id]) \in Nat
    BY <2>1, LenProperties
  <2>3. Len(buffers[id]) <= IF allocated[id] THEN BufferSize ELSE 0
    BY <1>1, TablesParts DEF BufferType
  <2>4. allocated[id] = TRUE
    BY <1>1, <2>1, <2>2, <2>3 DEF CbFull
  <2> QED BY <1>1, <2>1, <2>2, <2>3, <2>4, NumbersOK DEF CbFull
<1> HIDE DEF room
<1>4. bytes \in Seq(Octets) /\ Len(bytes) \in 1 .. room
  BY <1>3, ArrivingType
<1>5. BufferType'
  <2>1. buffers[id] \o bytes \in Seq(Octets) /\ Len(buffers[id] \o bytes) <= BufferSize
    <3>1. /\ buffers[id] \o bytes \in Seq(Octets)
          /\ Len(buffers[id] \o bytes) = Len(buffers[id]) + Len(bytes)
      BY <1>3, <1>4, ConcatProperties
    <3> QED BY <1>3, <1>4, <3>1
  <2> QED BY <1>1, <1>2, <1>3, <2>1, TablesParts DEF BufferType
<1>6. LoopType'
  <2>1. (sent[id] + Len(bytes)) % Cycle \in Plain
    <3>1. sent[id] + Len(bytes) \in Nat
      BY <1>3, <1>4, NumbersOK DEF Plain
    <3> QED BY <3>1, ModType, NumbersOK DEF Plain
  <2>2. sent' \in [Ids -> Plain]
    BY <1>1, <1>2, <1>3, <2>1, TablesParts DEF LoopType
  <2> QED BY <1>1, <2>2, TablesParts DEF LoopType, sendVars
<1>7. ListType'
  BY <1>1, TablesParts DEF ListType
<1> QED BY <1>1, <1>5, <1>6, <1>7, SameRegistry

LEMMA ClientEndsTables ==
    ASSUME SenderTables, ClientEnds
    PROVE  SenderTables'
<1> DEFINE id == Current
<1>1. /\ up /\ pc' = pc /\ pc = "io" /\ id \in Ids
      /\ UNCHANGED <<tsTable, tsCount, addQueue, allocated, ringVars, sendVars, faults>>
      /\ i' \in 0 .. MaxClients /\ left' \in 0 .. MaxClients /\ TunnelType'
      /\ UNCHANGED <<buffers, sent>> /\ TsRemoveClient(id)
  BY IoStep DEF ClientEnds
<1>2. ListType' /\ BufferType' /\ LoopType'
  BY <1>1, TablesParts DEF ListType, BufferType, LoopType, sendVars, TsRemoveClient
<1>3. CASE UNCHANGED registryVars
  BY <1>1, <1>2, <1>3, SameRegistry
<1>4. CASE DisconnectClient(id)
  <2>1. RegistryInv'
    BY <1>1, <1>4, DisconnectClientInv, TablesParts
  <2>2. UNCHANGED <<idTable, clientCount, up>>
    BY <1>4 DEF DisconnectClient
  <2>3. Live' = Live
    BY <2>2 DEF Live, IsValidId
  <2>4. ListMatchesRegistry'
    BY <1>1, <2>2, <2>3, ListKept, TablesParts
  <2>5. (up => tsCount <= clientCount)' /\ (up <=> pc # "exit")'
    BY <1>1, <2>2, TablesParts
  <2> QED BY <1>1, <1>2, <2>1, <2>4, <2>5, TablesParts, PTL
<1> QED BY <1>1, <1>3, <1>4 DEF TsRemoveClient

LEMMA IoEndTables ==
    ASSUME SenderTables, IoEnd
    PROVE  SenderTables'
<1>1. /\ UNCHANGED registryVars /\ UNCHANGED <<tsVars, ringVars, sendVars, bufferVars, sent, faults>>
      /\ pc = "io" /\ pc' = "fill" /\ left' = 0 /\ i' = 0
  BY DEF IoEnd
<1>2. ListType' /\ BufferType' /\ TunnelType' /\ LoopType'
  <2>1. ListType' /\ BufferType' /\ TunnelType'
    BY <1>1, TablesParts, SameTypes
  <2>2. LoopType'
    BY <1>1, TablesParts, NumbersOK DEF LoopType, sendVars
  <2> QED BY <2>1, <2>2
<1> QED BY <1>1, <1>2, SameRegistry DEF tsVars


-----------------------------------------------------------------------------
(* What fill_message puts into the ring. *)

LEMMA HeaderIs ==
    ASSUME NEW order \in Octets
    PROVE  /\ OrderHeader(order) \in Seq(Octets)
           /\ Len(OrderHeader(order)) = IF tunnelOrder = NO_ORDER THEN 2 ELSE 3
           /\ OrderHeader(order)[1] = MESSAGE_EDGE
           /\ tunnelOrder = NO_ORDER => OrderHeader(order)[2] = order
           /\ tunnelOrder # NO_ORDER => /\ OrderHeader(order)[2] = MESSAGE_EDGE
                                        /\ OrderHeader(order)[3] = order
<1> DEFINE b == <<MESSAGE_EDGE, order>>
           e == <<MESSAGE_EDGE>>
<1>1. b \in Seq(Octets) /\ Len(b) = 2 /\ b[1] = MESSAGE_EDGE /\ b[2] = order
  BY DEF MESSAGE_EDGE, Octets
<1>2. e \in Seq(Octets) /\ Len(e) = 1 /\ e[1] = MESSAGE_EDGE
  BY DEF MESSAGE_EDGE, Octets
<1>3. CASE tunnelOrder = NO_ORDER
  <2>1. OrderHeader(order) = <<>> \o b
    BY <1>3 DEF OrderHeader
  <2> HIDE DEF b
  <2>2. OrderHeader(order) = b
    BY <1>1, <2>1, ConcatEmptySeq
  <2> QED BY <1>1, <1>3, <2>2
<1>4. CASE tunnelOrder # NO_ORDER
  <2>1. OrderHeader(order) = e \o b
    BY <1>4 DEF OrderHeader
  <2> HIDE DEF b, e
  <2>2. /\ e \o b \in Seq(Octets) /\ Len(e \o b) = Len(e) + Len(b)
        /\ \A k \in 1 .. Len(e) + Len(b) : (e \o b)[k] = IF k <= Len(e) THEN e[k] ELSE b[k - Len(e)]
    BY <1>1, <1>2, ConcatProperties
  <2>3. (e \o b)[1] = e[1] /\ (e \o b)[2] = b[1] /\ (e \o b)[3] = b[2]
    BY <1>1, <1>2, <2>2
  <2> QED BY <1>1, <1>2, <1>4, <2>1, <2>2, <2>3
<1> QED BY <1>3, <1>4

(* The length of the header that opens a control frame. *)
ControlLength ==
    IF tunnelOrder = CONTROL_ORDER THEN 0 ELSE IF tunnelOrder = NO_ORDER THEN 2 ELSE 3

LEMMA ControlIs ==
    ASSUME NEW op \in Octets, NEW id \in Octets
    PROVE  /\ ControlBytes(op, id) \in Seq(Octets)
           /\ ControlLength \in Nat /\ Len(ControlBytes(op, id)) = ControlLength + 2
           /\ \A k \in 1 .. ControlLength : ControlBytes(op, id)[k] = OrderHeader(CONTROL_ORDER)[k]
           /\ ControlBytes(op, id)[ControlLength + 1] = op
           /\ ControlBytes(op, id)[ControlLength + 2] = id
<1> DEFINE l == ControlLength
           a == IF tunnelOrder = CONTROL_ORDER THEN <<>> ELSE OrderHeader(CONTROL_ORDER)
           b == <<op, id>>
<1>1. CONTROL_ORDER \in Octets
  BY DEF CONTROL_ORDER, Octets
<1>2. a \in Seq(Octets) /\ Len(a) = l /\ l \in Nat
      /\ \A k \in 1 .. l : a[k] = OrderHeader(CONTROL_ORDER)[k]
  <2>1. CASE tunnelOrder = CONTROL_ORDER
    BY <2>1, EmptySeq DEF ControlLength
  <2>2. CASE tunnelOrder # CONTROL_ORDER
    BY <1>1, <2>2, HeaderIs DEF ControlLength
  <2> QED BY <2>1, <2>2
<1>3. b \in Seq(Octets) /\ Len(b) = 2 /\ b[1] = op /\ b[2] = id
  OBVIOUS
<1>4. ControlBytes(op, id) = a \o b
  BY DEF ControlBytes
<1> HIDE DEF a, b, l
<1>5. /\ a \o b \in Seq(Octets) /\ Len(a \o b) = Len(a) + Len(b)
      /\ \A k \in 1 .. Len(a) + Len(b) : (a \o b)[k] = IF k <= Len(a) THEN a[k] ELSE b[k - Len(a)]
  BY <1>2, <1>3, ConcatProperties
<1>6. \A k \in 1 .. l : (a \o b)[k] = a[k]
  BY <1>2, <1>3, <1>5
<1>7. (a \o b)[l + 1] = b[1] /\ (a \o b)[l + 2] = b[2]
  BY <1>2, <1>3, <1>5
<1> QED BY <1>2, <1>3, <1>4, <1>5, <1>6, <1>7 DEF l

(* The ring never holds more than its size. *)
LEMMA PutType ==
    ASSUME TunnelType, NEW s \in Seq(Octets), Put(s)
    PROVE  tunnelCount' \in 0 .. MessageSize /\ tunnelStart' = tunnelStart
<1>1. Len(s) \in Nat
  BY LenProperties
<1> QED BY <1>1, NumbersOK DEF Put, FreeSpace, TunnelType

LEMMA ControlType ==
    ASSUME TunnelType, NEW op \in {CLIENT_ADD, CLIENT_REMOVE}, NEW id \in Ids, ControlMessage(op, id)
    PROVE  TunnelType'
<1>1. op \in Octets /\ id \in Octets
  BY OctetsOK DEF Octets, CLIENT_ADD, CLIENT_REMOVE
<1>2. ControlBytes(op, id) \in Seq(Octets)
  BY <1>1, ControlIs
<1> QED BY <1>2, PutType DEF ControlMessage, TunnelType

-----------------------------------------------------------------------------
(* Whose turn it is. *)

(* next_message_client finds an index of the list, of a client that has    *)
(* something to send.                                                      *)
LEMMA NextFromFinds ==
    ASSUME ListType, NEW first \in Nat, tsCount # 0, Candidates(first) # {}
    PROVE  /\ NextFrom(first) \in 0 .. tsCount - 1
           /\ buffers[tsTable[NextFrom(first)]] # <<>>
           /\ \E k \in Candidates(first) :
                 /\ NextFrom(first) = (first + k) % tsCount
                 /\ \A m \in Candidates(first) : k <= m
<1>1. tsCount \in Nat /\ tsCount > 0 /\ Candidates(first) # {}
  BY NumbersOK DEF ListType
<1>2. \E k \in Candidates(first) : \A m \in Candidates(first) : k <= m
  <2>1. Candidates(first) \in SUBSET Nat
    BY <1>1 DEF Candidates
  <2> QED BY <1>1, <2>1, LeastOf
<1> DEFINE Lowest(k) == \A m \in Candidates(first) : k <= m
           k == CHOOSE k \in Candidates(first) : Lowest(k)
<1>3. k \in Candidates(first) /\ Lowest(k)
  <2>1. \E x \in Candidates(first) : Lowest(x)
    BY <1>2
  <2> HIDE DEF Lowest
  <2> QED BY <2>1, Zenon
<1>4. NextFrom(first) = (first + k) % tsCount
  <2>1. ~(tsCount = 0 \/ Candidates(first) = {})
    BY <1>1
  <2> QED BY <2>1 DEF NextFrom
<1> HIDE DEF k
<1>5. k \in 0 .. tsCount - 1 /\ buffers[tsTable[(first + k) % tsCount]] # <<>>
  BY <1>3 DEF Candidates
<1>6. first + k \in Nat
  BY <1>1, <1>5
<1> HIDE DEF Lowest
<1>7. NextFrom(first) \in 0 .. tsCount - 1
  BY <1>1, <1>4, <1>6, ModType
<1> QED BY <1>3, <1>4, <1>5, <1>7 DEF Lowest

LEMMA NextFromIs ==
    ASSUME ListType, NEW first \in Nat, NextFrom(first) # NO_ORDER
    PROVE  /\ NextFrom(first) \in 0 .. tsCount - 1
           /\ buffers[tsTable[NextFrom(first)]] # <<>>
           /\ \E k \in Candidates(first) :
                 /\ NextFrom(first) = (first + k) % tsCount
                 /\ \A m \in Candidates(first) : k <= m
<1>1. tsCount # 0 /\ Candidates(first) # {}
  BY DEF NextFrom
<1> QED BY <1>1, NextFromFinds

LEMMA TurnType ==
    ASSUME ListType, BufferType, LoopType, TurnOrder # NO_ORDER
    PROVE  /\ TurnOrder \in Ids /\ TurnId \in Ids /\ TurnId \in Octets
           /\ buffers[TurnId] \in Seq(Octets)
           /\ Len(buffers[TurnId]) \in 0 .. BufferSize
           /\ TurnCount \in 0 .. BufferSize
           /\ sendCount = 0 => /\ TurnOrder \in 0 .. tsCount - 1
                               /\ buffers[TurnId] # <<>>
                               /\ TurnCount = Len(buffers[TurnId])
           /\ sendCount # 0 => TurnCount = sendCount
           /\ sendCount # 0 /\ sendOrder # NO_ORDER => TurnOrder = sendOrder
<1>1. sendOrder + 1 \in Nat
  BY NumbersOK DEF LoopType, Ids, NO_ORDER
<1>2. ASSUME sendOrder = NO_ORDER \/ sendCount = 0
      PROVE  /\ TurnOrder \in Ids /\ TurnOrder \in 0 .. tsCount - 1
             /\ buffers[tsTable[TurnOrder]] # <<>>
  <2>1. TurnOrder = NextFrom(sendOrder + 1)
    BY <1>2 DEF TurnOrder, NextMessageClient
  <2>2. TurnOrder \in 0 .. tsCount - 1 /\ buffers[tsTable[TurnOrder]] # <<>>
    BY <1>1, <2>1, NextFromIs
  <2>3. TurnOrder \in Ids
    BY <2>2, ListedAre
  <2> QED BY <2>2, <2>3
<1>3. ASSUME ~(sendOrder = NO_ORDER \/ sendCount = 0)
      PROVE  TurnOrder \in Ids
  BY <1>3 DEF TurnOrder, LoopType
<1>4. /\ TurnOrder \in Ids
      /\ sendCount = 0 => TurnOrder \in 0 .. tsCount - 1 /\ buffers[tsTable[TurnOrder]] # <<>>
  BY <1>2, <1>3
<1>5. TurnId \in Ids /\ TurnId \in Octets
  BY <1>4, OctetsOK DEF TurnId, ListType
<1>6. buffers[TurnId] \in Seq(Octets) /\ Len(buffers[TurnId]) \in 0 .. BufferSize
  <2>1. buffers[TurnId] \in Seq(Octets) /\ allocated[TurnId] \in BOOLEAN
        /\ Len(buffers[TurnId]) <= IF allocated[TurnId] THEN BufferSize ELSE 0
    BY <1>5 DEF BufferType
  <2> QED BY <2>1, NumbersOK, LenProperties
<1>7. TurnCount \in 0 .. BufferSize
  BY <1>6 DEF TurnCount, LoopType
<1>8. sendCount = 0 => TurnCount = Len(buffers[TurnId])
  BY DEF TurnCount
<1>9. sendCount # 0 => TurnCount = sendCount
  BY DEF TurnCount
<1>10. sendCount # 0 /\ sendOrder # NO_ORDER => TurnOrder = sendOrder
  BY DEF TurnOrder
<1> QED BY <1>4, <1>5, <1>6, <1>7, <1>8, <1>9, <1>10 DEF TurnId


-----------------------------------------------------------------------------
(* tpb_encapsulate. *)

(* What it is about to put: the header, if the frame of another order is   *)
(* open, and as many bytes of the message as fit into the contiguous piece *)
(* behind the content.                                                     *)
Header == IF tunnelOrder = TurnId THEN <<>> ELSE OrderHeader(TurnId)

Message == SubSeq(buffers[TurnId], 1, TurnCount)

Space == FreeContiguousSpace(tunnelCount + Len(Header))

Position == (tunnelStart + tunnelCount + Len(Header)) % MessageSize

Taken == Consumed(Message, IF TurnCount < Space THEN TurnCount ELSE Space)

Encapsulated == Header \o SubSeq(Escaped(Message), 1, Taken)

(* The contiguous piece lies inside the ring's array, and in what is free. *)
LEMMA SpaceIs ==
    ASSUME TunnelType, NEW l \in Nat, tunnelCount + l <= MessageSize
    PROVE  LET space == FreeContiguousSpace(tunnelCount + l)
               position == (tunnelStart + tunnelCount + l) % MessageSize
           IN  /\ space \in Nat /\ position \in Nat
               /\ position + space <= MessageSize
               /\ tunnelCount + l + space <= MessageSize
<1> DEFINE c == tunnelCount + l
           x == tunnelStart + c
           space == FreeContiguousSpace(c)
           position == (tunnelStart + tunnelCount + l) % MessageSize
<1>1. /\ c \in 0 .. MessageSize /\ tunnelStart \in 0 .. MessageSize - 1
      /\ tunnelCount \in 0 .. MessageSize
  BY NumbersOK DEF TunnelType
<1>2. tunnelStart + tunnelCount + l = x /\ x \in Nat
  BY <1>1
<1>3. space = IF x <= MessageSize THEN MessageSize - x ELSE MessageSize - c
  BY DEF FreeContiguousSpace
<1>4. position = x % MessageSize
  BY <1>2
<1> HIDE DEF position, space, x, c
<1>5. CASE x < MessageSize
  <2>1. x % MessageSize = x
    BY <1>2, <1>5, NumbersOK
  <2> QED BY <1>1, <1>2, <1>3, <1>4, <1>5, <2>1, NumbersOK DEF position, space, x, c
<1>6. CASE x = MessageSize
  <2>1. x % MessageSize = 0
    BY <1>6, NumbersOK
  <2> QED BY <1>1, <1>2, <1>3, <1>4, <1>6, <2>1, NumbersOK DEF position, space, x, c
<1>7. CASE x > MessageSize
  <2>1. x - MessageSize \in 0 .. MessageSize - 1 /\ x = MessageSize * 1 + (x - MessageSize)
    BY <1>1, <1>2, <1>7, NumbersOK DEF x
  <2>2. x % MessageSize = x - MessageSize
    BY <2>1, NumbersOK
  <2> QED BY <1>1, <1>2, <1>3, <1>4, <1>7, <2>2, NumbersOK DEF position, space, x, c
<1> QED BY <1>2, <1>5, <1>6, <1>7, NumbersOK

(* Everything that is put fits, and the write stays inside the array.      *)
LEMMA EncapsulatedFits ==
    ASSUME ListType, BufferType, TunnelType, LoopType,
           TurnOrder # NO_ORDER, TurnCount <= Len(buffers[TurnId]), HeaderFits
    PROVE  /\ Header \in Seq(Octets) /\ Len(Header) \in 0 .. 3
           /\ Message \in Seq(Octets) /\ Len(Message) = TurnCount
           /\ \A k \in 1 .. TurnCount : Message[k] = buffers[TurnId][k]
           /\ Taken \in 0 .. TurnCount
           /\ Position + Taken <= MessageSize
           /\ Encapsulated \in Seq(Octets)
           /\ Len(Encapsulated) = Len(Header) + Taken
           /\ Len(Encapsulated) <= FreeSpace
           /\ \A k \in 1 .. Len(Header) : Encapsulated[k] = Header[k]
           /\ \A k \in 1 .. Taken : Encapsulated[Len(Header) + k] = Escaped(Message)[k]
<1>1. /\ TurnId \in Octets /\ buffers[TurnId] \in Seq(Octets)
      /\ Len(buffers[TurnId]) \in Nat /\ TurnCount \in Nat
  BY TurnType, NumbersOK
<1>2. Header \in Seq(Octets) /\ Len(Header) \in 0 .. 3
  BY <1>1, HeaderIs, EmptySeq DEF Header
<1>3. tunnelCount + Len(Header) <= MessageSize /\ tunnelCount \in Nat
  <2>1. CASE tunnelOrder = TurnId
    <3>1. Len(Header) = 0
      BY <2>1, EmptySeq DEF Header
    <3> QED BY <3>1, NumbersOK DEF TunnelType
  <2>2. CASE tunnelOrder # TurnId
    <3>1. 0 \in Octets
      BY DEF Octets
    <3>2. Len(Header) = Len(OrderHeader(0))
      <4>1. Header = OrderHeader(TurnId)
        BY <2>2 DEF Header
      <4>2. Len(OrderHeader(0)) = IF tunnelOrder = NO_ORDER THEN 2 ELSE 3
        BY <3>1, HeaderIs
      <4>3. Len(OrderHeader(TurnId)) = IF tunnelOrder = NO_ORDER THEN 2 ELSE 3
        BY <1>1, HeaderIs
      <4> QED BY <4>1, <4>2, <4>3
    <3>3. 1 + Len(OrderHeader(0)) <= MessageSize - tunnelCount
      BY <2>2 DEF HeaderFits, FreeSpace
    <3> QED BY <1>2, <3>2, <3>3, NumbersOK DEF TunnelType
  <2> QED BY <2>1, <2>2
<1>4. /\ Space \in Nat /\ Position \in Nat /\ Position + Space <= MessageSize
      /\ tunnelCount + Len(Header) + Space <= MessageSize
  <2>1. Len(Header) \in Nat
    BY <1>2
  <2> QED BY <1>3, <2>1, SpaceIs DEF Space, Position
<1>5. Message \in Seq(Octets) /\ Len(Message) = TurnCount
      /\ \A k \in 1 .. TurnCount : Message[k] = buffers[TurnId][k]
  BY <1>1, FrontOf DEF Message
<1> DEFINE room == IF TurnCount < Space THEN TurnCount ELSE Space
<1>6. Taken \in 0 .. TurnCount /\ Taken <= Space
  <2>1. room \in Nat /\ room <= Space
    BY <1>1, <1>4
  <2>2. Taken = Consumed(Message, room)
    BY DEF Taken
  <2> HIDE DEF room
  <2>3. Taken \in 0 .. Len(Message) /\ Taken <= room
    BY <1>5, <2>1, <2>2, ConsumedFits
  <2> QED BY <1>1, <1>4, <1>5, <2>1, <2>3
<1>7. Escaped(Message) \in Seq(Octets) /\ Taken \in 0 .. Len(Escaped(Message))
  <2>1. /\ Escaped(Message) \in Seq(Octets) /\ Len(Escaped(Message)) \in Nat
        /\ Len(Escaped(Message)) >= Len(Message)
    BY <1>5, EscapedType
  <2> QED BY <1>1, <1>5, <1>6, <2>1
<1> DEFINE data == SubSeq(Escaped(Message), 1, Taken)
<1>8. /\ data \in Seq(Octets) /\ Len(data) = Taken
      /\ \A k \in 1 .. Taken : data[k] = Escaped(Message)[k]
  BY <1>7, FrontOf
<1>9. Encapsulated = Header \o data
  BY DEF Encapsulated
<1> HIDE DEF data
<1>10. /\ Header \o data \in Seq(Octets)
       /\ Len(Header \o data) = Len(Header) + Len(data)
       /\ \A k \in 1 .. Len(Header) + Len(data) :
             (Header \o data)[k] = IF k <= Len(Header) THEN Header[k] ELSE data[k - Len(Header)]
  BY <1>2, <1>8, ConcatProperties
<1>11. \A k \in 1 .. Len(Header) : Encapsulated[k] = Header[k]
  BY <1>2, <1>6, <1>8, <1>9, <1>10
<1>12. ASSUME NEW k \in 1 .. Taken PROVE Encapsulated[Len(Header) + k] = Escaped(Message)[k]
  <2>1. Len(Header) + k \in 1 .. Len(Header) + Len(data) /\ ~(Len(Header) + k <= Len(Header))
        /\ Len(Header) + k - Len(Header) = k
    BY <1>1, <1>2, <1>6, <1>8
  <2> QED BY <1>8, <1>9, <1>10, <2>1
<1>13. Len(Encapsulated) = Len(Header) + Taken
  BY <1>8, <1>9, <1>10
<1>14. Len(Encapsulated) <= FreeSpace /\ Position + Taken <= MessageSize
  BY <1>1, <1>2, <1>3, <1>4, <1>6, <1>13, NumbersOK DEF FreeSpace
<1> QED BY <1>2, <1>5, <1>6, <1>9, <1>10, <1>11, <1>12, <1>13, <1>14

(* The step, with what the lemma above says about it. *)
LEMMA EncapsulateStep ==
    ASSUME SenderTables, EncapsulateData
    PROVE  /\ ControlSent /\ TurnOrder # NO_ORDER
           /\ TurnCount <= Len(buffers[TurnId]) /\ HeaderFits
           /\ faults' = faults \cup ReservedId(TurnId) \cup
                 Fault("reserved", \E k \in 1 .. TurnCount : buffers[TurnId][k] \notin Plain)
           /\ Put(Encapsulated)
           /\ buffers' = [buffers EXCEPT ![TurnId] = SubSeq(@, Taken + 1, Len(@))]
           /\ sendCount' = TurnCount - Taken
           /\ pc' = IF Taken = TurnCount THEN "data" ELSE "send"
           /\ tunnelOrder' = TurnId
           /\ sendOrder' = TurnOrder /\ CountTurn
           /\ i' = 0
           /\ UNCHANGED <<registryVars, tsVars, allocated, pollVars, sent>>
<1>1. /\ ControlSent /\ TurnOrder # NO_ORDER
      /\ TurnCount <= Len(buffers[TurnId]) /\ HeaderFits
      /\ faults' = faults \cup ReservedId(TurnId) \cup
            Fault("reserved", \E k \in 1 .. TurnCount : buffers[TurnId][k] \notin Plain)
      /\ tunnelOrder' = TurnId
      /\ sendOrder' = TurnOrder /\ CountTurn
      /\ i' = 0
      /\ UNCHANGED <<registryVars, tsVars, allocated, pollVars, sent>>
  BY DEF EncapsulateData
<1>2. /\ Put(Encapsulated)
      /\ buffers' = [buffers EXCEPT ![TurnId] = SubSeq(@, Taken + 1, Len(@))]
      /\ sendCount' = TurnCount - Taken
      /\ pc' = CASE Position + Taken > MessageSize -> "undefined"
                 [] Position + Taken <= MessageSize /\ Taken = TurnCount -> "data"
                 [] OTHER -> "send"
  BY Zenon DEF EncapsulateData, Encapsulated, Taken, Space, Message, Header, Position
<1>3. Position + Taken <= MessageSize /\ Position \in Nat /\ Taken \in Nat
  <2>1. ListType /\ BufferType /\ TunnelType /\ LoopType
    BY TablesParts
  <2>2. Position + Taken <= MessageSize /\ Taken \in 0 .. TurnCount /\ Len(Header) \in 0 .. 3
    BY <1>1, <2>1, EncapsulatedFits
  <2>3. tunnelStart + tunnelCount + Len(Header) \in Nat
    BY <2>1, <2>2, NumbersOK DEF TunnelType
  <2>4. Position \in 0 .. MessageSize - 1
    BY <2>3, ModType, NumbersOK DEF Position
  <2> QED BY <2>2, <2>4
<1>4. pc' = IF Taken = TurnCount THEN "data" ELSE "send"
  BY <1>2, <1>3, NumbersOK
<1> QED BY <1>1, <1>2, <1>4


-----------------------------------------------------------------------------
(* The steps of fill_message and tpb_send. *)

(* process_empty_removed, in detail: the entry it stops at, and the entry  *)
(* that ts_actual_remove takes.  They are one as long as the id it passes  *)
(* is the index.                                                           *)
Removal(k, id, victim) ==
    /\ pc = "fill" /\ k \in i .. tsCount - 1 /\ k \in 0 .. tsCount - 1
    /\ \A m \in Leaving : k <= m
    /\ id = tsTable[k] /\ id \in Ids /\ victim = tsTable[id] /\ victim \in Ids
    /\ removeFlag[id] /\ buffers[id] = <<>>
    /\ faults \subseteq faults'
    /\ "dropped" \notin faults' => Len(ControlBytes(CLIENT_REMOVE, id)) <= FreeSpace
    /\ "reservedId" \notin faults' => ~ReservedByte(id)
    /\ "wrongIndex" \notin faults' => id = k /\ victim = k
    /\ "unfinished" \notin faults' => ~(sendCount > 0 /\ sendOrder \in {k, tsCount - 1})
    /\ ControlMessage(CLIENT_REMOVE, id)
    /\ removeFlag' = [removeFlag EXCEPT ![id] = FALSE]
    /\ IF IsValidId(victim) THEN RemoveClient(victim) ELSE UNCHANGED registryVars
    /\ buffers' = [buffers EXCEPT ![victim] = <<>>]
    /\ allocated' = [allocated EXCEPT ![victim] = FALSE]
    /\ tsTable' = [tsTable EXCEPT ![id] = tsTable[tsCount - 1]]
    /\ tsCount' = tsCount - 1
    /\ i' = k
    /\ bypassed' = [bypassed EXCEPT ![tsTable[tsCount - 1]] = 0]
    /\ UNCHANGED <<addQueue, sendVars, pollVars, pc, sent>>

LEMMA RemovalIs ==
    ASSUME SenderTables, RemoveEmpty
    PROVE  \E k, id, victim : Removal(k, id, victim)
<1>1. PICK k \in Leaving :
        /\ \A m \in Leaving : k <= m
        /\ faults' = faults \cup ControlFaults(CLIENT_REMOVE, tsTable[k])
              \cup Fault("wrongIndex", tsTable[k] # k)
              \cup Fault("unfinished", sendCount > 0 /\ sendOrder \in {k, tsCount - 1})
        /\ ControlMessage(CLIENT_REMOVE, tsTable[k])
        /\ removeFlag' = [removeFlag EXCEPT ![tsTable[k]] = FALSE]
        /\ TsActualRemove(tsTable[k])
        /\ i' = k
  BY DEF RemoveEmpty
<1> DEFINE id == tsTable[k]
           victim == tsTable[id]
<1>2. k \in i .. tsCount - 1 /\ i \in Nat /\ tsCount \in Nat /\ EmptyRemoved(id)
  BY <1>1, TablesParts, NumbersOK DEF Leaving, LoopType, ListType
<1>3. k \in 0 .. tsCount - 1
  BY <1>2
<1>4. id \in Ids /\ victim \in Ids
  BY <1>3, ListedAre, TablesParts DEF ListType
<1>5. "dropped" \notin faults' => Len(ControlBytes(CLIENT_REMOVE, id)) <= FreeSpace
  <2>1. "dropped" \notin faults' => ~(Len(ControlBytes(CLIENT_REMOVE, id)) > FreeSpace)
    BY <1>1 DEF ControlFaults, Fault
  <2>2. Len(ControlBytes(CLIENT_REMOVE, id)) \in Nat
    <3>1. ControlBytes(CLIENT_REMOVE, id) \in Seq(Octets)
      <4>1. CLIENT_REMOVE \in Octets
        BY DEF Octets, CLIENT_REMOVE
      <4>2. id \in Octets
        BY <1>4, OctetsOK
      <4> QED BY <4>1, <4>2, ControlIs
    <3> QED BY <3>1, LenProperties
  <2>3. FreeSpace \in Nat
    BY TablesParts, NumbersOK DEF TunnelType, FreeSpace
  <2> QED BY <2>1, <2>2, <2>3
<1>6. "wrongIndex" \notin faults' => id = k
  BY <1>1 DEF Fault
<1>7. "unfinished" \notin faults' => ~(sendCount > 0 /\ sendOrder \in {k, tsCount - 1})
  BY <1>1 DEF Fault
<1>8. /\ IF IsValidId(victim) THEN RemoveClient(victim) ELSE UNCHANGED registryVars
      /\ buffers' = [buffers EXCEPT ![victim] = <<>>]
      /\ allocated' = [allocated EXCEPT ![victim] = FALSE]
      /\ tsTable' = [tsTable EXCEPT ![id] = tsTable[tsCount - 1]]
      /\ tsCount' = tsCount - 1
  BY <1>1 DEF TsActualRemove, ListWithout
<1>9. /\ pc = "fill" /\ bypassed' = [bypassed EXCEPT ![tsTable[tsCount - 1]] = 0]
      /\ UNCHANGED <<addQueue, sendVars, pollVars, pc, sent>>
  BY DEF RemoveEmpty
<1>10. "reservedId" \notin faults' => ~ReservedByte(id)
  BY <1>1 DEF ControlFaults, ReservedId, Fault
<1>11. Removal(k, id, victim)
  BY <1>1, <1>2, <1>3, <1>4, <1>5, <1>6, <1>7, <1>8, <1>9, <1>10 DEF Removal, EmptyRemoved
<1> QED BY <1>11

(* The list after a removal that took the client it was meant for. *)
LEMMA ListAfterRemoval ==
    ASSUME SenderTables, NEW k, NEW id, NEW victim, Removal(k, id, victim),
           "wrongIndex" \notin faults'
    PROVE  /\ id = k /\ victim = k /\ k \in Ids /\ tsTable[k] = k
           /\ tsCount \in 1 .. MaxClients /\ tsCount' = tsCount - 1
           /\ \A m \in 0 .. tsCount - 2 :
                 tsTable'[m] = IF m = k THEN tsTable[tsCount - 1] ELSE tsTable[m]
           /\ Listed = Live /\ Live' = Live \ {k} /\ Listed' = Live'
           /\ \A l, m \in 0 .. tsCount - 1 : tsTable[l] = tsTable[m] => l = m
           /\ \A l, m \in 0 .. tsCount - 2 : tsTable'[l] = tsTable'[m] => l = m
           /\ RemoveClient(k) /\ up /\ clientCount' = clientCount - 1
<1>1. /\ k \in 0 .. tsCount - 1 /\ id = k /\ victim = k /\ k \in Ids /\ tsTable[k] = k
      /\ tsCount' = tsCount - 1 /\ pc = "fill"
      /\ tsTable' = [tsTable EXCEPT ![k] = tsTable[tsCount - 1]]
      /\ IF IsValidId(victim) THEN RemoveClient(victim) ELSE UNCHANGED registryVars
      /\ "wrongIndex" \notin faults
  BY DEF Removal
<1>2. tsCount \in 1 .. MaxClients /\ tsTable \in [Ids -> Ids] /\ up
  BY <1>1, TablesParts, NumbersOK DEF ListType
<1>3. /\ Listed = Live
      /\ \A l, m \in 0 .. tsCount - 1 : tsTable[l] = tsTable[m] => l = m
  BY <1>1, <1>2, TablesParts DEF ListMatchesRegistry
<1>4. k \in Live
  BY <1>1, <1>3 DEF Listed
<1>5. RemoveClient(k)
  BY <1>1, <1>4 DEF Live
<1>6. Live' = Live \ {k} /\ clientCount' = clientCount - 1
  BY <1>1, <1>5, RemoveClientOthers, TablesParts
<1>7. \A m \in 0 .. tsCount - 2 :
         tsTable'[m] = IF m = k THEN tsTable[tsCount - 1] ELSE tsTable[m]
  BY <1>1, <1>2, NumbersOK DEF Ids
<1>8. \A m \in 0 .. tsCount - 2 : m \in 0 .. tsCount - 1 /\ m # tsCount - 1
  BY <1>2
<1>9. tsCount - 1 \in 0 .. tsCount - 1
  BY <1>2
<1>10. ASSUME NEW l \in 0 .. tsCount - 2, NEW m \in 0 .. tsCount - 2, tsTable'[l] = tsTable'[m]
       PROVE  l = m
  BY <1>3, <1>7, <1>8, <1>9, <1>10
<1>11. Listed' = {tsTable'[m] : m \in 0 .. tsCount - 2}
  <2>1. tsCount' - 1 = tsCount - 2
    BY <1>1, <1>2
  <2> QED BY <2>1 DEF Listed
<1>12. ASSUME NEW x \in Live \ {k} PROVE x \in Listed'
  <2>1. PICK m \in 0 .. tsCount - 1 : x = tsTable[m]
    BY <1>3 DEF Listed
  <2>2. m # k
    BY <1>1, <2>1
  <2>3. CASE m = tsCount - 1
    <3>1. k \in 0 .. tsCount - 2 /\ tsTable'[k] = x
      BY <1>1, <1>2, <1>7, <2>1, <2>2, <2>3
    <3> QED BY <1>11, <3>1
  <2>4. CASE m # tsCount - 1
    <3>1. m \in 0 .. tsCount - 2 /\ tsTable'[m] = x
      BY <1>2, <1>7, <2>1, <2>2, <2>4
    <3> QED BY <1>11, <3>1
  <2> QED BY <2>3, <2>4
<1>13. ASSUME NEW m \in 0 .. tsCount - 2 PROVE tsTable'[m] \in Live \ {k}
  <2>1. CASE m = k
    <3>1. tsTable[tsCount - 1] # tsTable[k]
      BY <1>1, <1>3, <1>8, <1>9, <2>1
    <3> QED BY <1>1, <1>3, <1>7, <1>9, <2>1, <3>1 DEF Listed
  <2>2. CASE m # k
    <3>1. tsTable[m] # tsTable[k]
      BY <1>1, <1>3, <1>8, <2>2
    <3> QED BY <1>1, <1>3, <1>7, <1>8, <2>2, <3>1 DEF Listed
  <2> QED BY <2>1, <2>2
<1>14. Listed' = Live'
  BY <1>6, <1>11, <1>12, <1>13
<1> QED BY <1>1, <1>2, <1>3, <1>5, <1>6, <1>7, <1>10, <1>14

LEMMA RemoveEmptyTables ==
    ASSUME SenderTables, RemoveEmpty
    PROVE  SenderTables'
<1>1. PICK k, id, victim : Removal(k, id, victim)
  BY RemovalIs
<1>2. /\ pc = "fill" /\ k \in 0 .. tsCount - 1 /\ id \in Ids /\ victim \in Ids
      /\ ControlMessage(CLIENT_REMOVE, id)
      /\ removeFlag' = [removeFlag EXCEPT ![id] = FALSE]
      /\ IF IsValidId(victim) THEN RemoveClient(victim) ELSE UNCHANGED registryVars
      /\ buffers' = [buffers EXCEPT ![victim] = <<>>]
      /\ allocated' = [allocated EXCEPT ![victim] = FALSE]
      /\ tsTable' = [tsTable EXCEPT ![id] = tsTable[tsCount - 1]]
      /\ tsCount' = tsCount - 1 /\ i' = k
      /\ UNCHANGED <<addQueue, sendVars, pollVars, pc, sent>>
  BY <1>1 DEF Removal
<1>3. up /\ tsCount \in 1 .. MaxClients /\ tsCount <= clientCount /\ clientCount \in Nat
  BY <1>2, TablesParts, NumbersOK DEF ListType, RegistryInv, RegistryTypeOK
<1>4. RegistryInv' /\ up' = up /\ tsCount' <= clientCount'
  <2>1. CASE IsValidId(victim)
    <3>1. RemoveClient(victim)
      BY <1>2, <2>1
    <3>2. RegistryInv'
      BY <1>2, <1>3, <3>1, RemoveClientInv, TablesParts
    <3>3. clientCount' = clientCount - 1 /\ up' = up
      BY <3>1 DEF RemoveClient
    <3> QED BY <1>2, <1>3, <3>2, <3>3
  <2>2. CASE ~IsValidId(victim)
    <3>1. UNCHANGED registryVars
      BY <1>2, <2>2
    <3>2. RegistryInv' /\ UNCHANGED <<clientCount, up>>
      BY <3>1, RegistryUnchanged, TablesParts
    <3> QED BY <1>2, <1>3, <3>2
  <2> QED BY <2>1, <2>2
<1>5. ListType'
  <2>1. tsTable[tsCount - 1] \in Ids
    <3>1. tsCount - 1 \in 0 .. tsCount - 1
      BY <1>3
    <3> QED BY <3>1, ListedAre, TablesParts
  <2> QED BY <1>2, <1>3, <2>1, TablesParts, NumbersOK DEF ListType
<1>6. BufferType'
  <2>1. <<>> \in Seq(Octets) /\ Len(<<>>) = 0
    BY EmptySeq
  <2> QED BY <1>2, <2>1, TablesParts, NumbersOK DEF BufferType
<1>7. TunnelType'
  BY <1>2, ControlType, TablesParts
<1>8. LoopType'
  <2>1. k \in 0 .. MaxClients
    BY <1>2, <1>3, NumbersOK
  <2> QED BY <1>2, <2>1, TablesParts DEF LoopType, sendVars, pollVars
<1>9. ListMatchesRegistry'
  <2> SUFFICES ASSUME "wrongIndex" \notin faults'
               PROVE  /\ Listed' = Live'
                      /\ \A l, m \in 0 .. tsCount' - 1 : tsTable'[l] = tsTable'[m] => l = m
    BY DEF ListMatchesRegistry
  <2>1. /\ Listed' = Live'
        /\ \A l, m \in 0 .. tsCount - 2 : tsTable'[l] = tsTable'[m] => l = m
    BY <1>1, ListAfterRemoval
  <2>2. tsCount' - 1 = tsCount - 2
    BY <1>2, <1>3
  <2> QED BY <2>1, <2>2
<1>10. (up => tsCount <= clientCount)' /\ (up <=> pc # "exit")'
  BY <1>2, <1>3, <1>4
<1> QED BY <1>4, <1>5, <1>6, <1>7, <1>8, <1>9, <1>10, TablesParts, PTL

LEMMA AnnounceTables ==
    ASSUME SenderTables, Announce
    PROVE  SenderTables'
<1>1. /\ pc = "fill" /\ addQueue # <<>>
      /\ faults \subseteq faults' /\ ControlMessage(CLIENT_ADD, Head(addQueue))
      /\ addQueue' = Tail(addQueue)
      /\ UNCHANGED <<registryVars, tsTable, tsCount, removeFlag, sendVars, bufferVars,
                     pollVars, pc, i, sent, bypassed>>
  BY DEF Announce
<1>2. addQueue \in Seq(Ids) /\ Len(addQueue) \in 0 .. MaxClients
  BY TablesParts, LenProperties DEF ListType
<1>3. /\ Head(addQueue) \in Ids /\ Tail(addQueue) \in Seq(Ids)
      /\ Len(Tail(addQueue)) = Len(addQueue) - 1
  BY <1>1, <1>2, HeadTailProperties
<1>4. ListType'
  BY <1>1, <1>2, <1>3, TablesParts, NumbersOK DEF ListType
<1>5. TunnelType'
  BY <1>1, <1>3, ControlType, TablesParts
<1>6. BufferType' /\ LoopType'
  BY <1>1, TablesParts DEF BufferType, LoopType, bufferVars, sendVars, pollVars
<1> QED BY <1>1, <1>4, <1>5, <1>6, SameRegistry

(* Steps that leave the clients and the ring alone. *)
LEMMA QuietTables ==
    ASSUME SenderTables, FillStops \/ NothingToSend \/ DataUndefined \/ NoRoomForData
    PROVE  SenderTables'
<1>1. /\ UNCHANGED registryVars /\ UNCHANGED <<tsVars, ringVars, bufferVars, pollVars, sent, faults>>
      /\ pc \in {"fill", "data"} /\ pc' \in {"send", "undefined"} /\ i' = 0
  BY DEF FillStops, NothingToSend, DataUndefined, NoRoomForData, ControlSent
<1>2. sendOrder' \in Ids \cup {NO_ORDER} /\ sendCount' \in 0 .. BufferSize
  <2>1. CASE FillStops \/ NothingToSend \/ DataUndefined
    BY <2>1, TablesParts DEF FillStops, NothingToSend, DataUndefined, sendVars, LoopType
  <2>2. CASE NoRoomForData
    <3>1. TurnOrder # NO_ORDER /\ sendOrder' = TurnOrder /\ sendCount' = TurnCount
      BY <2>2 DEF NoRoomForData
    <3>2. TurnOrder \in Ids /\ TurnCount \in 0 .. BufferSize
      BY <3>1, TurnType, TablesParts
    <3> QED BY <3>1, <3>2
  <2> QED BY <2>1, <2>2
<1>3. ListType' /\ BufferType' /\ TunnelType' /\ LoopType'
  <2>1. ListType' /\ BufferType' /\ TunnelType'
    BY <1>1, TablesParts, SameTypes
  <2>2. LoopType'
    BY <1>1, <1>2, TablesParts, NumbersOK DEF LoopType, pollVars
  <2> QED BY <2>1, <2>2
<1> QED BY <1>1, <1>3, SameRegistry DEF tsVars

LEMMA EncapsulateTables ==
    ASSUME SenderTables, EncapsulateData
    PROVE  SenderTables'
<1>1. ListType /\ BufferType /\ TunnelType /\ LoopType
  BY TablesParts
<1>2. /\ ControlSent /\ TurnOrder # NO_ORDER
      /\ TurnCount <= Len(buffers[TurnId]) /\ HeaderFits
      /\ faults \subseteq faults'
      /\ Put(Encapsulated)
      /\ buffers' = [buffers EXCEPT ![TurnId] = SubSeq(@, Taken + 1, Len(@))]
      /\ sendCount' = TurnCount - Taken
      /\ pc' \in {"data", "send"}
      /\ tunnelOrder' = TurnId
      /\ sendOrder' = TurnOrder
      /\ i' = 0
      /\ UNCHANGED <<registryVars, tsVars, allocated, pollVars, sent>>
  BY EncapsulateStep
<1>3. /\ TurnOrder \in Ids /\ TurnId \in Ids /\ TurnCount \in 0 .. BufferSize
      /\ buffers[TurnId] \in Seq(Octets) /\ Len(buffers[TurnId]) \in 0 .. BufferSize
  BY <1>1, <1>2, TurnType
<1>4. Taken \in 0 .. TurnCount /\ Encapsulated \in Seq(Octets)
  BY <1>1, <1>2, EncapsulatedFits
<1>5. TunnelType'
  <2>1. tunnelCount' \in 0 .. MessageSize /\ tunnelStart' = tunnelStart
    BY <1>1, <1>2, <1>4, PutType
  <2> QED BY <1>1, <1>2, <1>3, <2>1 DEF TunnelType
<1>6. BufferType'
  <2>1. Taken \in 0 .. Len(buffers[TurnId])
    BY <1>2, <1>3, <1>4, NumbersOK
  <2> DEFINE rest == SubSeq(buffers[TurnId], Taken + 1, Len(buffers[TurnId]))
  <2>2. rest \in Seq(Octets) /\ Len(rest) = Len(buffers[TurnId]) - Taken
    BY <1>3, <2>1, RestOf
  <2>3. Len(rest) <= Len(buffers[TurnId])
    BY <1>3, <2>1, <2>2, NumbersOK
  <2>4. buffers' = [buffers EXCEPT ![TurnId] = rest] /\ UNCHANGED allocated
    BY <1>2
  <2> HIDE DEF rest
  <2>5. ASSUME NEW id \in Ids
        PROVE  Len(buffers'[id]) <= IF allocated'[id] THEN BufferSize ELSE 0
    <3>1. Len(buffers[id]) \in Nat /\ Len(buffers[id]) <= IF allocated[id] THEN BufferSize ELSE 0
      BY <1>1, LenProperties DEF BufferType
    <3>2. CASE id = TurnId
      <4>1. buffers'[id] = rest
        BY <1>1, <1>3, <2>4, <3>2 DEF BufferType
      <4>2. Len(rest) \in Nat
        BY <2>2, LenProperties
      <4> QED BY <2>3, <2>4, <3>1, <3>2, <4>1, <4>2, NumbersOK
    <3>3. CASE id # TurnId
      BY <1>1, <2>4, <3>1, <3>3 DEF BufferType
    <3> QED BY <3>2, <3>3
  <2>6. buffers' \in [Ids -> Seq(Octets)] /\ allocated' \in [Ids -> BOOLEAN]
    BY <1>1, <1>3, <2>2, <2>4 DEF BufferType
  <2> QED BY <2>5, <2>6 DEF BufferType
<1>7. LoopType'
  <2>1. sendCount' \in 0 .. BufferSize
    BY <1>2, <1>3, <1>4, NumbersOK
  <2> QED BY <1>1, <1>2, <1>3, <2>1, NumbersOK DEF LoopType, pollVars
<1>8. ListType'
  BY <1>1, <1>2 DEF ListType, tsVars
<1>9. pc # "exit" /\ pc' # "exit"
  BY <1>2 DEF ControlSent
<1> QED BY <1>2, <1>5, <1>6, <1>7, <1>8, <1>9, SameRegistry DEF tsVars

LEMMA SendTables ==
    ASSUME SenderTables, NEW writeable \in BOOLEAN, TpbSend(writeable)
    PROVE  SenderTables'
<1>1. /\ UNCHANGED registryVars
      /\ UNCHANGED <<tsVars, tunnelOrder, sendVars, bufferVars, left, i, sent, faults>>
      /\ pc = "send" /\ pc' = "poll"
  BY DEF TpbSend
<1>2. tunnelCount' \in 0 .. MessageSize /\ tunnelStart' \in 0 .. MessageSize - 1
  <2>1. tunnelCount \in 0 .. MessageSize /\ tunnelStart \in 0 .. MessageSize - 1
    BY TablesParts DEF TunnelType
  <2>2. CASE writeable
    <3> DEFINE x == IF tunnelStart + tunnelCount > MessageSize THEN tunnelCount
                    ELSE tunnelStart + tunnelCount
    <3>1. tunnelStart' = x % MessageSize /\ tunnelCount' = 0
      BY <2>2 DEF TpbSend
    <3>2. x \in Nat
      BY <2>1, NumbersOK
    <3> HIDE DEF x
    <3>3. x % MessageSize \in 0 .. MessageSize - 1
      BY <3>2, ModType, NumbersOK
    <3> QED BY <3>1, <3>3, NumbersOK
  <2>3. CASE ~writeable
    BY <2>1, <2>3 DEF TpbSend
  <2> QED BY <2>2, <2>3
<1>3. ListType' /\ BufferType' /\ TunnelType' /\ LoopType'
  BY <1>1, <1>2, TablesParts
     DEF ListType, BufferType, TunnelType, LoopType, tsVars, bufferVars, sendVars
<1> QED BY <1>1, <1>3, SameRegistry DEF tsVars

LEMMA InterruptTables ==
    ASSUME SenderTables, Interrupt
    PROVE  SenderTables'
<1>1. pc # "exit" /\ up /\ SafeCleanup /\ ~up' /\ pc' = "exit"
  BY TablesParts DEF Interrupt, SafeCleanup
<1>2. RegistryInv'
  BY <1>1, SafeCleanupInv, TablesParts
<1>3. 0 \in Ids /\ 0 \in Plain /\ <<>> \in Seq(Ids) /\ Len(<<>>) = 0 /\ <<>> \in Seq(Octets)
  BY NumbersOK, EmptySeq DEF Ids, Plain
<1>4. ListType'
  BY <1>3, NumbersOK DEF Interrupt, ListType
<1>5. BufferType'
  BY <1>3, NumbersOK DEF Interrupt, BufferType
<1>6. TunnelType'
  BY NumbersOK DEF Interrupt, TunnelType, NO_ORDER
<1>7. LoopType'
  BY <1>3, NumbersOK DEF Interrupt, LoopType
<1>8. ListMatchesRegistry'
  BY <1>1 DEF ListMatchesRegistry
<1>9. (up => tsCount <= clientCount)' /\ (up <=> pc # "exit")'
  BY <1>1
<1> QED BY <1>2, <1>4, <1>5, <1>6, <1>7, <1>8, <1>9, TablesParts, PTL

LEMMA InitTables == Init => SenderTables
<1> SUFFICES ASSUME Init PROVE SenderTables
  OBVIOUS
<1>1. RegistryInv /\ up /\ clientCount = 0 /\ Live = {}
  BY InitRegistryInv DEF Init, RegistryInit, Live, IsValidId
<1>2. 0 \in Ids /\ 0 \in Plain /\ <<>> \in Seq(Ids) /\ Len(<<>>) = 0 /\ <<>> \in Seq(Octets)
  BY NumbersOK, EmptySeq DEF Ids, Plain
<1>3. ListType
  BY <1>2, NumbersOK DEF Init, ListType
<1>4. BufferType
  BY <1>2, NumbersOK DEF Init, BufferType
<1>5. TunnelType
  BY NumbersOK DEF Init, TunnelType, NO_ORDER
<1>6. LoopType
  BY <1>2, NumbersOK DEF Init, LoopType
<1>7. ListMatchesRegistry
  <2>1. tsCount = 0 /\ 0 .. tsCount - 1 = {}
    BY DEF Init
  <2> QED BY <1>1, <2>1 DEF ListMatchesRegistry, Listed
<1>8. (up => tsCount <= clientCount) /\ (up <=> pc # "exit")
  BY <1>1 DEF Init
<1> QED BY <1>1, <1>3, <1>4, <1>5, <1>6, <1>7, <1>8, TablesParts

LEMMA StutterTables ==
    ASSUME SenderTables, UNCHANGED vars
    PROVE  SenderTables'
<1>1. UNCHANGED registryVars /\ UNCHANGED <<tsVars, ringVars, sendVars, bufferVars, pollVars, pc, i, sent, faults>>
  BY DEF vars
<1>2. ListType' /\ BufferType' /\ TunnelType' /\ LoopType'
  BY <1>1, TablesParts
     DEF ListType, BufferType, TunnelType, LoopType, tsVars, ringVars, sendVars, bufferVars, pollVars
<1>3. CASE pc # "exit"
  BY <1>1, <1>2, <1>3, SameRegistry DEF tsVars
<1>4. CASE pc = "exit"
  <2>1. RegistryInv' /\ Live' = Live /\ UNCHANGED <<clientCount, up>>
    BY <1>1, RegistryUnchanged, TablesParts
  <2>2. ListMatchesRegistry'
    BY <1>1, <2>1, ListKept, TablesParts DEF tsVars
  <2>3. (up => tsCount <= clientCount)' /\ (up <=> pc # "exit")'
    BY <1>1, <2>1, TablesParts DEF tsVars
  <2> QED BY <1>2, <2>1, <2>2, <2>3, TablesParts, PTL
<1> QED BY <1>3, <1>4

LEMMA StepTables ==
    ASSUME SenderTables, [Next]_vars
    PROVE  SenderTables'
<1>1. CASE Poll BY <1>1, PollTables
<1>2. CASE Accept BY <1>2, AcceptTables
<1>3. CASE Refuse \/ AcceptFails BY <1>3, NoAcceptTables
<1>4. CASE ClientPasses BY <1>4, ClientPassesTables
<1>5. CASE ClientReads BY <1>5, ClientReadsTables
<1>6. CASE ClientEnds BY <1>6, ClientEndsTables
<1>7. CASE IoEnd BY <1>7, IoEndTables
<1>8. CASE RemoveEmpty BY <1>8, RemoveEmptyTables
<1>9. CASE Announce BY <1>9, AnnounceTables
<1>10. CASE FillStops \/ NothingToSend \/ DataUndefined \/ NoRoomForData
  BY <1>10, QuietTables
<1>11. CASE EncapsulateData BY <1>11, EncapsulateTables
<1>12. CASE TpbSend(TRUE) \/ TpbSend(FALSE) BY <1>12, SendTables
<1>13. CASE Interrupt BY <1>13, InterruptTables
<1>14. CASE UNCHANGED vars BY <1>14, StutterTables
<1> QED
  BY <1>1, <1>2, <1>3, <1>4, <1>5, <1>6, <1>7, <1>8, <1>9, <1>10, <1>11, <1>12, <1>13, <1>14
     DEF Next, Loop, Stopped

LEMMA TablesHold == Spec => []SenderTables
<1>1. Init => SenderTables
  BY InitTables
<1>2. SenderTables /\ [Next]_vars => SenderTables'
  BY StepTables
<1> QED BY <1>1, <1>2, PTL DEF Spec

(* However often ts_actual_remove is misled by an id that is not the        *)
(* client's index, the registry stays sound and the sender's table never   *)
(* outgrows it; until that happens, the table names the registered clients,*)
(* each once.                                                              *)
THEOREM SenderTablesAgree == Spec => []TablesAgree
<1>1. SenderTables => TablesAgree
  BY DEF SenderTables
<1> QED BY <1>1, TablesHold, PTL


-----------------------------------------------------------------------------
(* MessageIsBacked, with the position that makes it inductive: the message *)
(* under way is that of an entry of the list.                              *)
Undisturbed == faults \cap {"wrongIndex", "unfinished"} = {}

Backed ==
    Undisturbed =>
        /\ pc # "undefined"
        /\ sendCount > 0 => /\ sendOrder \in 0 .. tsCount - 1
                            /\ sendCount <= Len(buffers[tsTable[sendOrder]])

SenderBacked == SenderTables /\ Backed

LEMMA UndisturbedList ==
    ASSUME SenderTables, up, Undisturbed
    PROVE  /\ Listed = Live
           /\ \A k, m \in 0 .. tsCount - 1 : tsTable[k] = tsTable[m] => k = m
BY TablesParts DEF ListMatchesRegistry, Undisturbed

(* Steps that neither send nor change the clients' bytes or places. *)
LEMMA KeepsBacked ==
    ASSUME SenderBacked, pc' # "undefined", faults \subseteq faults',
           UNCHANGED <<tsTable, tsCount, sendOrder, sendCount, buffers>>
    PROVE  Backed'
BY DEF SenderBacked, Backed, Undisturbed

LEMMA AcceptBacked ==
    ASSUME SenderBacked, Accept
    PROVE  Backed'
<1>1. SenderTables /\ Backed
  BY DEF SenderBacked
<1>2. PICK fd \in Fds \ open : AddClient(fd)
  BY DEF Accept
<1>3. /\ pc = "accept" /\ pc' = "io" /\ faults \subseteq faults'
      /\ buffers' = [buffers EXCEPT ![NextId] = <<>>]
      /\ tsTable' = [tsTable EXCEPT ![tsCount] = NextId] /\ tsCount' = tsCount + 1
      /\ UNCHANGED <<sendOrder, sendCount>>
  BY DEF Accept, sendVars
<1>4. up /\ tsCount \in Nat
  BY <1>1, <1>3, TablesParts, NumbersOK DEF ListType
<1>5. NextId \in Ids /\ NextId \notin Live
  BY <1>1, <1>2, <1>4, AddClientEffect, TablesParts
<1> SUFFICES ASSUME Undisturbed, sendCount > 0
             PROVE  /\ sendOrder \in 0 .. tsCount
                    /\ sendCount <= Len(buffers'[tsTable'[sendOrder]])
  <2>1. Undisturbed' => Undisturbed
    BY <1>3 DEF Undisturbed
  <2>2. tsCount' - 1 = tsCount
    BY <1>3, <1>4
  <2> QED BY <1>3, <2>1, <2>2 DEF Backed
<1>6. sendOrder \in 0 .. tsCount - 1 /\ sendCount <= Len(buffers[tsTable[sendOrder]])
  BY <1>1 DEF Backed
<1>7. sendOrder \in 0 .. tsCount /\ sendOrder # tsCount
  BY <1>4, <1>6
<1>8. tsTable'[sendOrder] = tsTable[sendOrder] /\ tsTable[sendOrder] \in Ids
  BY <1>1, <1>3, <1>6, <1>7, ListedAre, TablesParts DEF ListType
<1>9. tsTable[sendOrder] # NextId
  BY <1>1, <1>4, <1>5, <1>6, UndisturbedList DEF Listed
<1> QED BY <1>1, <1>3, <1>6, <1>7, <1>8, <1>9, TablesParts DEF BufferType

(* A read only adds to what a buffer holds. *)
LEMMA ClientReadsEffect ==
    ASSUME SenderTables, ClientReads
    PROVE  \E bytes \in Seq(Octets) :
              /\ Len(bytes) > 0
              /\ buffers' = [buffers EXCEPT ![Current] = buffers[Current] \o bytes]
              /\ \/ /\ \A k \in 1 .. Len(bytes) : bytes[k] = (sent[Current] + k - 1) % Cycle
                    /\ \A k \in 1 .. Len(bytes) : bytes[k] \in Plain
                    /\ sent' = [sent EXCEPT ![Current] = (sent[Current] + Len(bytes)) % Cycle]
                 \/ Len(bytes) = 1 /\ bytes[1] \notin Plain /\ sent' = sent
<1> DEFINE id == Current
           room == BufferSize - Len(buffers[id])
<1>1. id \in Ids /\ ~CbFull(id)
  BY IoStep DEF ClientReads
<1>2. PICK bytes \in Arriving(sent[id], room) :
         /\ buffers' = [buffers EXCEPT ![id] = buffers[id] \o bytes]
         /\ sent' = [sent EXCEPT ![id] =
                        IF Head(bytes) \in Plain THEN (sent[id] + Len(bytes)) % Cycle ELSE sent[id]]
  BY DEF ClientReads
<1>3. sent[id] \in Plain /\ room \in Nat /\ room > 0
  <2>1. buffers[id] \in Seq(Octets) /\ sent[id] \in Plain /\ allocated[id] \in BOOLEAN
    BY <1>1, TablesParts DEF BufferType, LoopType
  <2>2. Len(buffers[id]) \in Nat
    BY <2>1, LenProperties
  <2>3. Len(buffers[id]) <= IF allocated[id] THEN BufferSize ELSE 0
    BY <1>1, TablesParts DEF BufferType
  <2>4. allocated[id] = TRUE
    BY <1>1, <2>1, <2>2, <2>3 DEF CbFull
  <2> QED BY <1>1, <2>1, <2>2, <2>3, <2>4, NumbersOK DEF CbFull
<1> HIDE DEF room
<1>4. /\ bytes \in Seq(Octets) /\ Len(bytes) \in 1 .. room
      /\ \/ /\ \A k \in 1 .. Len(bytes) : bytes[k] = (sent[id] + k - 1) % Cycle
            /\ \A k \in 1 .. Len(bytes) : bytes[k] \in Plain
         \/ Len(bytes) = 1 /\ bytes[1] \in Reserved /\ bytes[1] \notin Plain
  BY <1>3, ArrivingType
<1>5. bytes \in Seq(Octets) /\ Len(bytes) > 0 /\ 1 \in 1 .. Len(bytes)
  BY <1>3, <1>4
<1>6. Head(bytes) = bytes[1]
  BY <1>5, HeadTailProperties
<1>7. CASE bytes[1] \in Plain
  <2>1. /\ \A k \in 1 .. Len(bytes) : bytes[k] = (sent[id] + k - 1) % Cycle
        /\ \A k \in 1 .. Len(bytes) : bytes[k] \in Plain
    BY <1>4, <1>7
  <2>2. sent' = [sent EXCEPT ![id] = (sent[id] + Len(bytes)) % Cycle]
    BY <1>2, <1>6, <1>7
  <2> QED BY <1>2, <1>5, <2>1, <2>2
<1>8. CASE bytes[1] \notin Plain
  <2>1. Len(bytes) = 1
    BY <1>4, <1>5, <1>8
  <2>2. sent' = [sent EXCEPT ![id] = sent[id]]
    BY <1>2, <1>6, <1>8
  <2>3. sent' = sent
    BY <1>1, <2>2, TablesParts DEF LoopType
  <2> QED BY <1>2, <1>5, <1>8, <2>1, <2>3
<1> QED BY <1>7, <1>8

LEMMA ClientReadsBacked ==
    ASSUME SenderBacked, ClientReads
    PROVE  Backed'
<1>1. SenderTables /\ Backed
  BY DEF SenderBacked
<1>2. PICK bytes \in Seq(Octets) :
         buffers' = [buffers EXCEPT ![Current] = buffers[Current] \o bytes]
  BY <1>1, ClientReadsEffect
<1>3. /\ pc' = pc /\ pc = "io" /\ Current \in Ids
      /\ UNCHANGED <<tsTable, tsCount, sendOrder, sendCount, faults>>
  BY <1>1, IoStep DEF ClientReads, sendVars
<1>4. ASSUME NEW id \in Ids PROVE Len(buffers[id]) <= Len(buffers'[id])
                                  /\ Len(buffers[id]) \in Nat /\ Len(buffers'[id]) \in Nat
  <2>1. buffers[id] \in Seq(Octets) /\ buffers[Current] \in Seq(Octets)
    BY <1>1, <1>3, TablesParts DEF BufferType
  <2>2. Len(buffers[id]) \in Nat /\ Len(bytes) \in Nat /\ Len(buffers[Current]) \in Nat
    BY <2>1, LenProperties
  <2>3. Len(buffers[Current] \o bytes) = Len(buffers[Current]) + Len(bytes)
    BY <2>1, ConcatProperties
  <2>4. buffers'[id] = IF id = Current THEN buffers[Current] \o bytes ELSE buffers[id]
    BY <1>1, <1>2, TablesParts DEF BufferType
  <2> QED BY <2>2, <2>3, <2>4
<1> SUFFICES ASSUME Undisturbed, sendCount > 0
             PROVE  /\ sendOrder \in 0 .. tsCount - 1
                    /\ sendCount <= Len(buffers'[tsTable[sendOrder]])
  BY <1>3 DEF Backed, Undisturbed
<1>5. sendOrder \in 0 .. tsCount - 1 /\ sendCount <= Len(buffers[tsTable[sendOrder]])
  BY <1>1 DEF Backed
<1>6. tsTable[sendOrder] \in Ids /\ sendCount \in Nat
  BY <1>1, <1>5, ListedAre, TablesParts, NumbersOK DEF LoopType
<1> QED BY <1>4, <1>5, <1>6

LEMMA RemoveEmptyBacked ==
    ASSUME SenderBacked, RemoveEmpty
    PROVE  Backed'
<1>1. SenderTables /\ Backed
  BY DEF SenderBacked
<1>2. PICK k, id, victim : Removal(k, id, victim)
  BY <1>1, RemovalIs
<1>3. /\ pc' = pc /\ pc = "fill" /\ UNCHANGED <<sendOrder, sendCount>>
      /\ faults \subseteq faults' /\ victim \in Ids /\ id \in Ids
      /\ buffers' = [buffers EXCEPT ![victim] = <<>>]
      /\ "unfinished" \notin faults' => ~(sendCount > 0 /\ sendOrder \in {k, tsCount - 1})
  BY <1>2 DEF Removal, sendVars
<1> SUFFICES ASSUME Undisturbed', sendCount > 0
             PROVE  /\ sendOrder \in 0 .. tsCount' - 1
                    /\ sendCount <= Len(buffers'[tsTable'[sendOrder]])
  BY <1>3 DEF Backed
<1>4. "wrongIndex" \notin faults' /\ "unfinished" \notin faults' /\ Undisturbed
  BY <1>3 DEF Undisturbed
<1>5. sendOrder \in 0 .. tsCount - 1 /\ sendCount <= Len(buffers[tsTable[sendOrder]])
  BY <1>1, <1>4 DEF Backed
<1>6. sendOrder # k /\ sendOrder # tsCount - 1
  BY <1>3, <1>4
<1>7. /\ id = k /\ victim = k /\ k \in Ids /\ tsTable[k] = k
      /\ tsCount \in 1 .. MaxClients /\ tsCount' = tsCount - 1
      /\ \A m \in 0 .. tsCount - 2 :
            tsTable'[m] = IF m = k THEN tsTable[tsCount - 1] ELSE tsTable[m]
      /\ \A l, m \in 0 .. tsCount - 1 : tsTable[l] = tsTable[m] => l = m
  BY <1>1, <1>2, <1>4, ListAfterRemoval
<1>8. sendOrder \in 0 .. tsCount - 2 /\ tsCount' - 1 = tsCount - 2
  BY <1>5, <1>6, <1>7, NumbersOK
<1>9. k \in 0 .. tsCount - 1
  BY <1>2 DEF Removal
<1>10. tsTable'[sendOrder] = tsTable[sendOrder] /\ tsTable[sendOrder] # victim
  BY <1>5, <1>6, <1>7, <1>8, <1>9
<1>11. tsTable[sendOrder] \in Ids
  BY <1>1, <1>5, ListedAre, TablesParts
<1>12. buffers'[tsTable'[sendOrder]] = buffers[tsTable[sendOrder]]
  BY <1>1, <1>3, <1>10, <1>11, TablesParts DEF BufferType
<1> QED BY <1>5, <1>8, <1>12

(* As long as nothing was disturbed, who sends is listed and has the bytes. *)
LEMMA TurnBacked ==
    ASSUME SenderBacked, Undisturbed
    PROVE  /\ TurnOrder # NO_ORDER =>
                /\ TurnOrder \in 0 .. tsCount - 1
                /\ TurnCount <= Len(buffers[TurnId])
                /\ TurnCount > 0
           /\ TurnOrder = NO_ORDER => sendCount = 0
<1>1. SenderTables /\ Backed /\ sendCount \in Nat
  BY TablesParts, NumbersOK DEF SenderBacked, LoopType
<1>2. ASSUME sendCount # 0
      PROVE  /\ TurnOrder = sendOrder /\ TurnCount = sendCount
             /\ sendOrder \in 0 .. tsCount - 1 /\ sendOrder # NO_ORDER
             /\ TurnCount <= Len(buffers[TurnId])
  <2>1. sendOrder \in 0 .. tsCount - 1 /\ sendCount <= Len(buffers[tsTable[sendOrder]])
    BY <1>1, <1>2 DEF Backed
  <2>2. sendOrder # NO_ORDER
    BY <2>1 DEF NO_ORDER
  <2> QED BY <1>2, <2>1, <2>2 DEF TurnOrder, TurnCount, TurnId
<1>3. ASSUME sendCount = 0, TurnOrder # NO_ORDER
      PROVE  /\ TurnOrder \in 0 .. tsCount - 1 /\ TurnCount = Len(buffers[TurnId])
             /\ buffers[TurnId] # <<>> /\ TurnCount \in 0 .. BufferSize
             /\ buffers[TurnId] \in Seq(Octets)
  BY <1>1, <1>3, TurnType, TablesParts
<1>4. ASSUME sendCount = 0, TurnOrder # NO_ORDER
      PROVE  TurnCount > 0 /\ TurnCount <= Len(buffers[TurnId])
  BY <1>3, <1>4, EmptySeq, NumbersOK
<1> QED BY <1>1, <1>2, <1>3, <1>4

LEMMA QuietBacked ==
    ASSUME SenderBacked, FillStops \/ NothingToSend \/ DataUndefined \/ NoRoomForData
    PROVE  Backed'
<1>1. UNCHANGED <<tsTable, tsCount, buffers, faults>>
  BY DEF FillStops, NothingToSend, DataUndefined, NoRoomForData, tsVars, bufferVars
<1> SUFFICES ASSUME Undisturbed
             PROVE  /\ pc' # "undefined"
                    /\ sendCount' > 0 => /\ sendOrder' \in 0 .. tsCount - 1
                                         /\ sendCount' <= Len(buffers[tsTable[sendOrder']])
  BY <1>1 DEF Backed, Undisturbed
<1>2. CASE FillStops
  BY <1>2 DEF FillStops, SenderBacked, Backed, sendVars
<1>3. CASE NothingToSend
  BY <1>3, TurnBacked DEF NothingToSend
<1>4. CASE DataUndefined
  <2>1. TurnOrder # NO_ORDER /\ TurnCount > Len(buffers[TurnId])
    BY <1>4 DEF DataUndefined
  <2>2. TurnCount <= Len(buffers[TurnId])
    BY <2>1, TurnBacked
  <2>3. TurnCount \in 0 .. BufferSize /\ Len(buffers[TurnId]) \in 0 .. BufferSize
    BY <2>1, TurnType, TablesParts DEF SenderBacked
  <2> QED BY <2>1, <2>2, <2>3, NumbersOK
<1>5. CASE NoRoomForData
  BY <1>5, TurnBacked DEF NoRoomForData, TurnId
<1> QED BY <1>2, <1>3, <1>4, <1>5

(* What is left of the turn's bytes once a part of them was taken. *)
LEMMA EncapsulateLeaves ==
    ASSUME SenderTables, EncapsulateData
    PROVE  /\ buffers' = [buffers EXCEPT ![TurnId] = buffers'[TurnId]]
           /\ buffers'[TurnId] \in Seq(Octets)
           /\ Len(buffers'[TurnId]) = Len(buffers[TurnId]) - Taken
           /\ \A k \in 1 .. Len(buffers'[TurnId]) : buffers'[TurnId][k] = buffers[TurnId][Taken + k]
           /\ Taken \in 0 .. TurnCount /\ Taken \in 0 .. Len(buffers[TurnId])
           /\ TurnCount \in Nat /\ TurnCount <= Len(buffers[TurnId])
           /\ TurnId \in Ids /\ TurnOrder # NO_ORDER /\ Len(buffers[TurnId]) \in Nat
<1>1. ListType /\ BufferType /\ TunnelType /\ LoopType
  BY TablesParts
<1>2. /\ TurnOrder # NO_ORDER /\ TurnCount <= Len(buffers[TurnId]) /\ HeaderFits
      /\ buffers' = [buffers EXCEPT ![TurnId] = SubSeq(@, Taken + 1, Len(@))]
  BY EncapsulateStep
<1>3. /\ TurnId \in Ids /\ TurnCount \in 0 .. BufferSize
      /\ buffers[TurnId] \in Seq(Octets) /\ Len(buffers[TurnId]) \in 0 .. BufferSize
  BY <1>1, <1>2, TurnType
<1>4. Taken \in 0 .. TurnCount
  BY <1>1, <1>2, EncapsulatedFits
<1>5. Taken \in 0 .. Len(buffers[TurnId])
  BY <1>2, <1>3, <1>4, NumbersOK
<1> DEFINE rest == SubSeq(buffers[TurnId], Taken + 1, Len(buffers[TurnId]))
<1>6. /\ rest \in Seq(Octets) /\ Len(rest) = Len(buffers[TurnId]) - Taken
      /\ \A k \in 1 .. Len(buffers[TurnId]) - Taken : rest[k] = buffers[TurnId][Taken + k]
  BY <1>3, <1>5, RestOf
<1>7. buffers' = [buffers EXCEPT ![TurnId] = rest]
  BY <1>2
<1> HIDE DEF rest
<1>8. buffers'[TurnId] = rest
  BY <1>1, <1>3, <1>7 DEF BufferType
<1>9. \A k \in 1 .. Len(buffers'[TurnId]) : buffers'[TurnId][k] = buffers[TurnId][Taken + k]
  <2>1. 1 .. Len(rest) = 1 .. Len(buffers[TurnId]) - Taken
    BY <1>6
  <2> QED BY <1>6, <1>8, <2>1
<1>10. buffers' = [buffers EXCEPT ![TurnId] = buffers'[TurnId]]
  BY <1>7, <1>8
<1>11. buffers'[TurnId] \in Seq(Octets) /\ Len(buffers'[TurnId]) = Len(buffers[TurnId]) - Taken
  BY <1>6, <1>8
<1>12. TurnCount \in Nat /\ Len(buffers[TurnId]) \in Nat
  BY <1>3, NumbersOK
<1> QED BY <1>2, <1>3, <1>4, <1>5, <1>9, <1>10, <1>11, <1>12

LEMMA EncapsulateBacked ==
    ASSUME SenderBacked, EncapsulateData
    PROVE  Backed'
<1>1. SenderTables
  BY DEF SenderBacked
<1>2. /\ TurnOrder # NO_ORDER /\ faults \subseteq faults'
      /\ sendCount' = TurnCount - Taken /\ sendOrder' = TurnOrder
      /\ pc' \in {"data", "send"} /\ UNCHANGED <<tsTable, tsCount>>
  BY <1>1, EncapsulateStep DEF tsVars
<1> SUFFICES ASSUME Undisturbed
             PROVE  /\ TurnOrder \in 0 .. tsCount - 1
                    /\ TurnCount - Taken <= Len(buffers'[tsTable[TurnOrder]])
  BY <1>2 DEF Backed, Undisturbed
<1>3. TurnOrder \in 0 .. tsCount - 1
  BY <1>2, TurnBacked
<1>4. /\ Len(buffers'[TurnId]) = Len(buffers[TurnId]) - Taken /\ Taken \in 0 .. TurnCount
      /\ TurnCount \in Nat /\ TurnCount <= Len(buffers[TurnId]) /\ Len(buffers[TurnId]) \in Nat
  BY <1>1, EncapsulateLeaves
<1>5. TurnCount - Taken <= Len(buffers'[TurnId])
  BY <1>4
<1> QED BY <1>3, <1>5 DEF TurnId

LEMMA StepBacked ==
    ASSUME SenderBacked, [Next]_vars
    PROVE  Backed'
<1>1. CASE Poll
  BY <1>1, KeepsBacked DEF Poll, tsVars, sendVars, bufferVars
<1>2. CASE Accept BY <1>2, AcceptBacked
<1>3. CASE Refuse \/ AcceptFails
  BY <1>3, KeepsBacked DEF Refuse, AcceptFails, tsVars, sendVars, bufferVars
<1>4. CASE ClientPasses \/ ClientEnds
  <2>1. UNCHANGED <<tsTable, tsCount, sendOrder, sendCount, buffers, faults>> /\ pc = "io" /\ pc' = pc
    BY <1>4 DEF ClientPasses, ClientEnds, IoGuard, IoNext, sendVars
  <2> QED BY <2>1, KeepsBacked
<1>5. CASE ClientReads BY <1>5, ClientReadsBacked
<1>6. CASE IoEnd
  BY <1>6, KeepsBacked DEF IoEnd, tsVars, sendVars, bufferVars
<1>7. CASE RemoveEmpty BY <1>7, RemoveEmptyBacked
<1>8. CASE Announce
  BY <1>8, KeepsBacked DEF Announce, sendVars, bufferVars
<1>9. CASE FillStops \/ NothingToSend \/ DataUndefined \/ NoRoomForData
  BY <1>9, QuietBacked
<1>10. CASE EncapsulateData BY <1>10, EncapsulateBacked
<1>11. CASE TpbSend(TRUE) \/ TpbSend(FALSE)
  BY <1>11, KeepsBacked DEF TpbSend, tsVars, sendVars, bufferVars
<1>12. CASE Interrupt
  BY <1>12 DEF Interrupt, Backed
<1>13. CASE UNCHANGED vars
  BY <1>13 DEF SenderBacked, Backed, Undisturbed, vars, tsVars, sendVars, bufferVars
<1> QED
  BY <1>1, <1>2, <1>3, <1>4, <1>5, <1>6, <1>7, <1>8, <1>9, <1>10, <1>11, <1>12, <1>13
     DEF Next, Loop, Stopped

LEMMA BackedHolds == Spec => []SenderBacked
<1>1. Init => SenderBacked
  BY InitTables DEF SenderBacked, Backed, Init
<1>2. SenderBacked /\ [Next]_vars => SenderBacked'
  BY StepTables, StepBacked DEF SenderBacked
<1> QED BY <1>1, <1>2, PTL DEF Spec

(* fill_message never takes more bytes than send_count promised and the    *)
(* client's buffer holds, whichever clients read, end or are removed       *)
(* between two pieces of a message, until a removal disturbs the table.    *)
THEOREM MessagesAreBacked == Spec => []MessageIsBacked
<1>1. SenderBacked => MessageIsBacked
  BY DEF SenderBacked, Backed, Undisturbed, MessageIsBacked
<1> QED BY <1>1, BackedHolds, PTL


-----------------------------------------------------------------------------
(* The rotation. *)

LEMMA WrapIs ==
    ASSUME NEW n \in Nat, n > 0, NEW x \in 0 .. 2 * n - 1
    PROVE  x % n = IF x < n THEN x ELSE x - n
<1>1. CASE x < n
  BY <1>1
<1>2. CASE x >= n
  <2>1. x - n \in 0 .. n - 1 /\ x = n * 1 + (x - n)
    BY <1>2
  <2> QED BY <1>2, <2>1
<1> QED BY <1>1, <1>2

(* The index behind first, cyclically, that comes to place j. *)
StepsTo(first, j) == IF j >= first THEN j - first ELSE j - first + tsCount

LEMMA StepsToIs ==
    ASSUME ListType, NEW first \in 0 .. tsCount, NEW j \in 0 .. tsCount - 1
    PROVE  /\ StepsTo(first, j) \in 0 .. tsCount - 1
           /\ (first + StepsTo(first, j)) % tsCount = j
<1>1. tsCount \in Nat /\ tsCount > 0
  BY NumbersOK DEF ListType
<1>2. StepsTo(first, j) \in 0 .. tsCount - 1
  BY <1>1 DEF StepsTo
<1>3. first + StepsTo(first, j) = IF j >= first THEN j ELSE j + tsCount
  BY <1>1 DEF StepsTo
<1> HIDE DEF StepsTo
<1> DEFINE x == first + StepsTo(first, j)
<1>4. x \in 0 .. 2 * tsCount - 1
  BY <1>1, <1>3
<1>5. x = IF j >= first THEN j ELSE j + tsCount
  BY <1>3
<1> HIDE DEF x
<1>6. x % tsCount = IF x < tsCount THEN x ELSE x - tsCount
  BY <1>1, <1>4, WrapIs
<1>7. x % tsCount = j
  BY <1>1, <1>5, <1>6
<1> QED BY <1>2, <1>7 DEF x

(* next_message_client passes over no client that has something to send. *)
LEMMA NextFromSkips ==
    ASSUME ListType, NEW previous \in -1 .. tsCount - 1,
           NEW t, t = NextFrom(previous + 1), t # NO_ORDER
    PROVE  /\ t \in 0 .. tsCount - 1
           /\ previous < t =>
                \A j \in 0 .. tsCount - 1 : previous < j /\ j < t => buffers[tsTable[j]] = <<>>
           /\ t <= previous =>
                \A j \in 0 .. tsCount - 1 : previous < j \/ j < t => buffers[tsTable[j]] = <<>>
<1> DEFINE first == previous + 1
<1>1. tsCount \in Nat /\ first \in 0 .. tsCount /\ first \in Nat
  BY NumbersOK DEF ListType
<1> HIDE DEF first
<1>2. t = NextFrom(first)
  BY DEF first
<1>3. /\ t \in 0 .. tsCount - 1
      /\ \E c \in Candidates(first) : t = (first + c) % tsCount /\ \A m \in Candidates(first) : c <= m
  BY <1>1, <1>2, NextFromIs
<1>4. PICK c \in Candidates(first) : t = (first + c) % tsCount /\ \A m \in Candidates(first) : c <= m
  BY <1>3
<1>5. c \in 0 .. tsCount - 1
  BY <1>4 DEF Candidates
<1>6. t = IF first + c < tsCount THEN first + c ELSE (first + c) - tsCount
  <2>1. tsCount > 0 /\ first + c \in 0 .. 2 * tsCount - 1
    BY <1>1, <1>5
  <2>2. (first + c) % tsCount = IF first + c < tsCount THEN first + c ELSE (first + c) - tsCount
    BY <1>1, <2>1, WrapIs
  <2> QED BY <1>4, <2>2
<1>7. ASSUME NEW j \in 0 .. tsCount - 1, StepsTo(first, j) < c
      PROVE  buffers[tsTable[j]] = <<>>
  <2>1. StepsTo(first, j) \in 0 .. tsCount - 1 /\ (first + StepsTo(first, j)) % tsCount = j
    BY <1>1, StepsToIs
  <2>2. StepsTo(first, j) \notin Candidates(first)
    <3>1. ~(c <= StepsTo(first, j))
      BY <1>1, <1>5, <1>7, <2>1
    <3> QED BY <1>4, <3>1
  <2> QED BY <2>1, <2>2 DEF Candidates
<1>8. ASSUME NEW j \in 0 .. tsCount - 1, previous < t, previous < j, j < t
      PROVE  StepsTo(first, j) < c
  BY <1>1, <1>3, <1>5, <1>6, <1>8 DEF StepsTo, first
<1>9. ASSUME NEW j \in 0 .. tsCount - 1, t <= previous, previous < j \/ j < t
      PROVE  StepsTo(first, j) < c
  BY <1>1, <1>3, <1>5, <1>6, <1>9 DEF StepsTo, first
<1> QED BY <1>3, <1>7, <1>8, <1>9

LEMMA NextFromNone ==
    ASSUME ListType, NEW first \in 0 .. tsCount, NextFrom(first) = NO_ORDER
    PROVE  \A j \in 0 .. tsCount - 1 : buffers[tsTable[j]] = <<>>
<1> SUFFICES ASSUME NEW j \in 0 .. tsCount - 1 PROVE buffers[tsTable[j]] = <<>>
  OBVIOUS
<1>1. tsCount \in Nat /\ tsCount # 0 /\ first \in Nat
  BY NumbersOK DEF ListType
<1>2. Candidates(first) = {}
  <2> SUFFICES ASSUME Candidates(first) # {} PROVE FALSE
    OBVIOUS
  <2>1. NextFrom(first) \in 0 .. tsCount - 1
    BY <1>1, NextFromFinds
  <2> QED BY <1>1, <2>1 DEF NO_ORDER
<1>3. StepsTo(first, j) \in 0 .. tsCount - 1 /\ (first + StepsTo(first, j)) % tsCount = j
  BY StepsToIs
<1> QED BY <1>2, <1>3 DEF Candidates

-----------------------------------------------------------------------------
(* TurnsAreFair.  A client behind the one whose turn it is has waited for  *)
(* no more messages than there are places between them, the other way      *)
(* round the list; outside of the data loop nobody has waited unless a     *)
(* message is under way.                                                   *)
InTurn(waited, turn, k) ==
    /\ k = turn => waited = 0
    /\ k < turn => waited <= turn - k
    /\ k > turn => waited <= MaxClients - k + turn

NobodyWaits == \A id \in Ids : bypassed[id] = 0

Waiting ==
    /\ \A id \in Ids \ Listed : buffers[id] = <<>>
    /\ \A id \in Ids : buffers[id] = <<>> => bypassed[id] = 0
    /\ \A k \in 0 .. tsCount - 1 : InTurn(bypassed[tsTable[k]], sendOrder, k)
    /\ pc = "data" => sendCount = 0 /\ sendOrder \in 0 .. tsCount - 1
    /\ pc # "data" /\ sendCount = 0 => NobodyWaits

Fair ==
    /\ bypassed \in [Ids -> Nat]
    /\ up /\ Unhindered => Waiting
    /\ ~up => NobodyWaits

SenderFair == SenderBacked /\ Fair

LEMMA FairIsFair ==
    ASSUME SenderFair
    PROVE  TurnsAreFair
<1>1. ListType /\ LoopType /\ Fair
  BY TablesParts DEF SenderFair, SenderBacked
<1> SUFFICES ASSUME Unhindered, NEW id \in Ids PROVE bypassed[id] < MaxClients
  BY DEF TurnsAreFair
<1>2. CASE NobodyWaits
  BY <1>2, NumbersOK DEF NobodyWaits
<1>3. CASE Waiting
  <2>1. CASE id \in Listed
    <3>1. PICK k \in 0 .. tsCount - 1 : id = tsTable[k]
      BY <2>1 DEF Listed
    <3>2. InTurn(bypassed[id], sendOrder, k)
      BY <1>3, <3>1 DEF Waiting
    <3>3. bypassed[id] \in Nat
      BY <1>1 DEF Fair
    <3>4. k \in 0 .. MaxClients - 1
      <4>1. tsCount \in 0 .. MaxClients
        BY <1>1 DEF ListType
      <4> QED BY <4>1, NumbersOK
    <3>5. sendOrder \in -1 .. MaxClients - 1
      <4>1. sendOrder \in Ids \cup {NO_ORDER}
        BY <1>1 DEF LoopType
      <4> QED BY <4>1, NumbersOK DEF NO_ORDER, Ids
    <3> QED BY <3>2, <3>3, <3>4, <3>5, NumbersOK DEF InTurn
  <2>2. CASE id \notin Listed
    BY <1>3, <2>2, NumbersOK DEF Waiting
  <2> QED BY <2>1, <2>2
<1> QED BY <1>1, <1>2, <1>3 DEF Fair

(* Steps that neither send nor change the clients' bytes or places. *)
LEMMA KeepsFair ==
    ASSUME SenderFair, faults \subseteq faults', up' = up, pc # "data", pc' # "data",
           UNCHANGED <<tsTable, tsCount, sendOrder, sendCount, buffers, bypassed>>
    PROVE  Fair'
BY DEF Unhindered, SenderFair, Fair, Waiting, NobodyWaits, Listed

(* Nobody waits: that is in order wherever the turn is. *)
LEMMA NobodyIsBehind ==
    ASSUME NEW turn \in Ids \cup {NO_ORDER}, NEW k \in Ids
    PROVE  InTurn(0, turn, k)
BY NumbersOK DEF InTurn, Ids, NO_ORDER

LEMMA AcceptFair ==
    ASSUME SenderFair, Accept
    PROVE  Fair'
<1>1. SenderTables /\ Fair /\ SenderBacked /\ ListType /\ BufferType /\ LoopType
  BY TablesParts DEF SenderFair, SenderBacked
<1>2. PICK fd \in Fds \ open : AddClient(fd)
  BY DEF Accept
<1>3. /\ pc = "accept" /\ pc' = "io" /\ faults \subseteq faults' /\ ~IsFull
      /\ buffers' = [buffers EXCEPT ![NextId] = <<>>]
      /\ tsTable' = [tsTable EXCEPT ![tsCount] = NextId] /\ tsCount' = tsCount + 1
      /\ UNCHANGED <<sendOrder, sendCount, bypassed>>
  BY DEF Accept, sendVars
<1>4. up /\ clientCount \in Nat /\ tsCount \in 0 .. MaxClients - 1
  BY <1>1, <1>3, TablesParts, NumbersOK DEF ListType, IsFull, RegistryInv, RegistryTypeOK
<1>5. NextId \in Ids /\ NextId \notin Live /\ up' = up
  BY <1>1, <1>2, <1>4, AddClientEffect, TablesParts
<1> SUFFICES ASSUME Unhindered' PROVE Waiting'
  BY <1>1, <1>3, <1>4, <1>5 DEF Fair
<1>6. Unhindered /\ Waiting /\ Undisturbed
  BY <1>1, <1>3, <1>4 DEF Unhindered, Fair, Undisturbed
<1>7. NextId \notin Listed
  BY <1>1, <1>4, <1>5, <1>6, UndisturbedList
<1> DEFINE new == NextId
<1>8. new \in Ids /\ new \notin Listed /\ buffers[new] = <<>> /\ bypassed[new] = 0
  BY <1>5, <1>6, <1>7 DEF Waiting
<1> HIDE DEF new
<1>9. \A id \in Ids : buffers'[id] = buffers[id]
  BY <1>1, <1>3, <1>8 DEF new, BufferType
<1>10. /\ tsCount' - 1 = tsCount /\ tsCount \in Ids
       /\ \A k \in 0 .. tsCount : tsTable'[k] = IF k = tsCount THEN new ELSE tsTable[k]
       /\ \A k \in 0 .. tsCount : k # tsCount => k \in 0 .. tsCount - 1
  <2>1. /\ tsCount \in 0 .. MaxClients - 1 /\ tsCount' = tsCount + 1
        /\ tsTable' = [tsTable EXCEPT ![tsCount] = new]
    BY <1>1, <1>3, <1>4, NumbersOK DEF new, ListType
  <2>2. \A k \in 0 .. tsCount : k \in Ids
    BY <2>1, NumbersOK DEF Ids
  <2>3. tsTable \in [Ids -> Ids]
    BY <1>1 DEF ListType
  <2>4. \A k \in 0 .. tsCount : tsTable'[k] = IF k = tsCount THEN new ELSE tsTable[k]
    BY <2>1, <2>2, <2>3
  <2> QED BY <2>1, <2>2, <2>4
<1>11. Listed \subseteq Listed'
  <2> SUFFICES ASSUME NEW k \in 0 .. tsCount - 1 PROVE tsTable[k] \in Listed'
    BY DEF Listed
  <2>1. k \in 0 .. tsCount /\ k # tsCount
    BY <1>4
  <2>2. tsTable[k] = tsTable'[k] /\ k \in 0 .. tsCount' - 1
    BY <1>10, <2>1
  <2> QED BY <2>2 DEF Listed
<1>12. ASSUME NEW k \in 0 .. tsCount PROVE InTurn(bypassed[tsTable'[k]], sendOrder, k)
  <2>1. CASE k = tsCount
    <3>1. bypassed[tsTable'[k]] = 0
      BY <1>8, <1>10, <2>1
    <3> QED BY <1>1, <1>10, <2>1, <3>1, NobodyIsBehind DEF LoopType
  <2>2. CASE k # tsCount
    BY <1>6, <1>10, <2>2 DEF Waiting
  <2> QED BY <2>1, <2>2
<1>13. \A k \in 0 .. tsCount' - 1 : InTurn(bypassed'[tsTable'[k]], sendOrder', k)
  BY <1>3, <1>10, <1>12
<1>14. \A id \in Ids \ Listed' : buffers'[id] = <<>>
  BY <1>6, <1>9, <1>11 DEF Waiting
<1>15. \A id \in Ids : buffers'[id] = <<>> => bypassed'[id] = 0
  BY <1>3, <1>6, <1>9 DEF Waiting
<1>16. pc' # "data" /\ (sendCount' = 0 => NobodyWaits')
  BY <1>3, <1>6 DEF Waiting, NobodyWaits
<1>17. pc' = "data" => sendCount' = 0 /\ sendOrder' \in 0 .. tsCount' - 1
  BY <1>16
<1> QED BY <1>13, <1>14, <1>15, <1>16, <1>17 DEF Waiting, InTurn

LEMMA ClientReadsFair ==
    ASSUME SenderFair, ClientReads
    PROVE  Fair'
<1>1. SenderTables /\ Fair /\ BufferType
  BY TablesParts DEF SenderFair, SenderBacked
<1>2. PICK bytes \in Seq(Octets) :
         Len(bytes) > 0 /\ buffers' = [buffers EXCEPT ![Current] = buffers[Current] \o bytes]
  BY <1>1, ClientReadsEffect
<1>3. /\ up /\ pc' = pc /\ pc = "io" /\ Current \in Ids /\ i \in 0 .. tsCount - 1
      /\ UNCHANGED <<tsTable, tsCount, sendOrder, sendCount, faults, bypassed>>
  BY <1>1, IoStep DEF ClientReads, sendVars
<1>4. up' = up
  BY DEF ClientReads, registryVars
<1> SUFFICES ASSUME Unhindered PROVE Waiting'
  BY <1>1, <1>3, <1>4 DEF Unhindered, Fair
<1>5. Waiting
  BY <1>1, <1>3 DEF Fair
<1>6. Current \in Listed /\ Listed' = Listed
  BY <1>3 DEF Current, Listed
<1>7. \A id \in Ids : id # Current => buffers'[id] = buffers[id]
  BY <1>1, <1>2 DEF BufferType
<1>8. buffers'[Current] # <<>>
  <2>1. buffers'[Current] = buffers[Current] \o bytes /\ buffers[Current] \in Seq(Octets)
    BY <1>1, <1>2, <1>3 DEF BufferType
  <2>2. Len(buffers'[Current]) = Len(buffers[Current]) + Len(bytes)
    BY <2>1, ConcatProperties
  <2>3. Len(buffers[Current]) \in Nat /\ Len(bytes) \in Nat
    BY <2>1, LenProperties
  <2>4. Len(buffers'[Current]) # 0
    BY <1>2, <2>2, <2>3
  <2> QED BY <2>4, EmptySeq
<1>9. \A id \in Ids \ Listed' : buffers'[id] = <<>>
  BY <1>5, <1>6, <1>7 DEF Waiting
<1>10. \A id \in Ids : buffers'[id] = <<>> => bypassed'[id] = 0
  BY <1>3, <1>5, <1>7, <1>8 DEF Waiting
<1> QED BY <1>3, <1>5, <1>9, <1>10 DEF Waiting, NobodyWaits

LEMMA RemoveEmptyFair ==
    ASSUME SenderFair, RemoveEmpty
    PROVE  Fair'
<1>1. SenderTables /\ Fair /\ ListType /\ BufferType /\ LoopType
  BY TablesParts DEF SenderFair, SenderBacked
<1>2. PICK k, id, victim : Removal(k, id, victim)
  BY <1>1, RemovalIs
<1>3. /\ pc' = pc /\ pc = "fill" /\ UNCHANGED <<sendOrder, sendCount>>
      /\ faults \subseteq faults' /\ k \in 0 .. tsCount - 1 /\ tsTable[k] = id
      /\ buffers[id] = <<>>
      /\ buffers' = [buffers EXCEPT ![victim] = <<>>]
      /\ bypassed' = [bypassed EXCEPT ![tsTable[tsCount - 1]] = 0]
      /\ "unfinished" \notin faults' => ~(sendCount > 0 /\ sendOrder \in {k, tsCount - 1})
  BY <1>2 DEF Removal, sendVars
<1>4. up /\ up' = up
  <2>1. up
    BY <1>1, <1>3, TablesParts
  <2>2. SenderTables' /\ pc' # "exit"
    BY <1>1, <1>3, RemoveEmptyTables
  <2>3. (up <=> pc # "exit")'
    BY <2>2, TablesParts, PTL
  <2>4. up' <=> pc' # "exit"
    BY <2>3
  <2>5. up \in BOOLEAN /\ up' \in BOOLEAN
    <3>1. RegistryInv /\ RegistryInv'
      BY <1>1, <2>2, TablesParts, PTL
    <3> QED BY <3>1 DEF RegistryInv, RegistryTypeOK
  <2> QED BY <2>1, <2>2, <2>4, <2>5
<1>5. bypassed' \in [Ids -> Nat]
  BY <1>1, <1>3 DEF Fair
<1> SUFFICES ASSUME Unhindered' PROVE Waiting'
  BY <1>4, <1>5 DEF Fair
<1>6. Unhindered /\ Waiting
  BY <1>1, <1>3, <1>4 DEF Unhindered, Fair
<1> DEFINE n == tsCount
           moved == tsTable[n - 1]
<1>7. /\ id = k /\ victim = k /\ k \in Ids
      /\ n \in 1 .. MaxClients /\ tsCount' = n - 1
      /\ \A m \in 0 .. n - 2 : tsTable'[m] = IF m = k THEN moved ELSE tsTable[m]
      /\ Listed' = Live \ {k} /\ Listed = Live
      /\ \A l, m \in 0 .. n - 1 : tsTable[l] = tsTable[m] => l = m
  BY <1>1, <1>2, ListAfterRemoval DEF Unhindered
<1>8. buffers' = buffers
  BY <1>1, <1>3, <1>7 DEF BufferType
<1>9. bypassed[k] = 0
  BY <1>3, <1>6, <1>7 DEF Waiting
<1> HIDE DEF moved
<1>10. moved \in Ids
  BY <1>1, <1>7, ListedAre DEF moved
<1>11. \A x \in Ids : bypassed'[x] = IF x = moved THEN 0 ELSE bypassed[x]
  BY <1>1, <1>3, <1>10 DEF moved, Fair
<1>12. \A x \in Ids \ Listed' : buffers'[x] = <<>>
  BY <1>3, <1>6, <1>7, <1>8 DEF Waiting
<1>13. \A x \in Ids : buffers'[x] = <<>> => bypassed'[x] = 0
  BY <1>6, <1>8, <1>11 DEF Waiting
<1>14. ASSUME NEW m \in 0 .. n - 2 PROVE InTurn(bypassed'[tsTable'[m]], sendOrder, m)
  <2>1. m \in 0 .. n - 1 /\ m # n - 1 /\ m \in Ids /\ tsTable[m] \in Ids
    BY <1>1, <1>7, ListedAre, NumbersOK DEF Ids
  <2>2. CASE m = k
    <3>1. bypassed'[tsTable'[m]] = 0
      BY <1>7, <1>10, <1>11, <2>2
    <3> QED BY <1>1, <2>1, <3>1, NobodyIsBehind DEF LoopType
  <2>3. CASE m # k
    <3>1. tsTable[m] # moved
      BY <1>7, <2>1 DEF moved
    <3>2. bypassed'[tsTable'[m]] = bypassed[tsTable[m]]
      BY <1>7, <1>11, <2>1, <2>3, <3>1
    <3> QED BY <1>6, <2>1, <3>2 DEF Waiting
  <2> QED BY <2>2, <2>3
<1>15. \A m \in 0 .. tsCount' - 1 : InTurn(bypassed'[tsTable'[m]], sendOrder', m)
  <2>1. tsCount' - 1 = n - 2
    BY <1>7
  <2> QED BY <1>3, <1>14, <2>1
<1>16. pc' # "data" /\ (sendCount' = 0 => NobodyWaits')
  BY <1>3, <1>6, <1>11 DEF Waiting, NobodyWaits
<1> QED BY <1>12, <1>13, <1>15, <1>16 DEF Waiting, InTurn

(* Where the turn goes, everybody is still in order behind it. *)
LEMMA TurnIsFair ==
    ASSUME SenderFair, Unhindered, ControlSent, TurnOrder # NO_ORDER, CountTurn
    PROVE  /\ up /\ TurnOrder \in 0 .. tsCount - 1 /\ TurnId = tsTable[TurnOrder] /\ TurnId \in Ids
           /\ bypassed' \in [Ids -> Nat]
           /\ \A k \in 0 .. tsCount - 1 : InTurn(bypassed'[tsTable[k]], TurnOrder, k)
           /\ \A id \in Ids : buffers[id] = <<>> => bypassed'[id] = 0
           /\ bypassed'[TurnId] = 0
<1>1. /\ SenderTables /\ SenderBacked /\ Fair /\ ListType /\ BufferType /\ LoopType /\ Undisturbed
      /\ up
  BY TablesParts DEF Unhindered, SenderFair, SenderBacked, Undisturbed, ControlSent
<1>2. Waiting /\ bypassed \in [Ids -> Nat]
  BY <1>1 DEF Fair
<1> DEFINE t == TurnOrder
           n == tsCount
           W(k) == bypassed[tsTable[k]]
<1>3. t \in 0 .. n - 1 /\ TurnId = tsTable[t] /\ TurnId \in Ids /\ n \in 0 .. MaxClients
  BY <1>1, TurnBacked, TurnType DEF TurnId, ListType
<1>4. sendOrder \in -1 .. MaxClients - 1 /\ sendCount \in Nat
  BY <1>1, NumbersOK DEF LoopType, NO_ORDER, Ids
<1>5. \A k \in 0 .. n - 1 : W(k) \in Nat /\ InTurn(W(k), sendOrder, k) /\ tsTable[k] \in Ids
  BY <1>1, <1>2, ListedAre DEF Waiting
<1>6. CASE sendCount # 0
  <2>1. t = sendOrder /\ bypassed' = bypassed
    <3>1. sendOrder # NO_ORDER
      BY <1>1, <1>4, <1>6 DEF SenderBacked, Backed, NO_ORDER
    <3> QED BY <1>6, <3>1 DEF TurnOrder, CountTurn
  <2>2. bypassed[TurnId] = 0
    BY <1>3, <1>5, <2>1 DEF InTurn
  <2> QED BY <1>1, <1>2, <1>3, <2>1, <2>2 DEF Waiting
<1>7. CASE sendCount = 0
  <2>1. bypassed' = [id \in Ids |-> IF id = TurnId \/ buffers[id] = <<>> THEN 0 ELSE bypassed[id] + 1]
    BY <1>7 DEF CountTurn
  <2>2. bypassed' \in [Ids -> Nat] /\ bypassed'[TurnId] = 0
        /\ \A id \in Ids : buffers[id] = <<>> => bypassed'[id] = 0
    BY <1>2, <1>3, <2>1
  <2>3. ASSUME NEW k \in 0 .. n - 1
        PROVE  InTurn(bypassed'[tsTable[k]], t, k)
    <3> DEFINE w == bypassed'[tsTable[k]]
    <3>1. w = IF tsTable[k] = TurnId \/ buffers[tsTable[k]] = <<>> THEN 0 ELSE W(k) + 1
      BY <1>5, <2>1
    <3>2. W(k) \in Nat /\ InTurn(W(k), sendOrder, k)
      BY <1>5
    <3> HIDE DEF w, W
    <3>3. CASE w = 0
      BY <1>3, <3>3, NumbersOK DEF InTurn, w
    <3>4. CASE w # 0
      <4>1. w = W(k) + 1 /\ k # t /\ buffers[tsTable[k]] # <<>>
        BY <1>3, <3>1, <3>4
      <4>2. CASE pc # "data"
        <5>1. W(k) = 0
          BY <1>2, <1>5, <1>7, <4>2 DEF Waiting, NobodyWaits, W
        <5> QED BY <1>3, <4>1, <5>1, NumbersOK DEF InTurn, w
      <4>3. CASE pc = "data"
        <5>1. sendOrder \in 0 .. n - 1
          BY <1>2, <4>3 DEF Waiting
        <5>2. t = NextFrom(sendOrder + 1)
          BY <1>7 DEF TurnOrder, NextMessageClient
        <5>3. /\ sendOrder < t => ~(sendOrder < k /\ k < t)
              /\ t <= sendOrder => ~(sendOrder < k \/ k < t)
          <6>1. sendOrder \in -1 .. tsCount - 1
            BY <5>1
          <6>2. /\ sendOrder < t =>
                     \A j \in 0 .. tsCount - 1 : sendOrder < j /\ j < t => buffers[tsTable[j]] = <<>>
                /\ t <= sendOrder =>
                     \A j \in 0 .. tsCount - 1 : sendOrder < j \/ j < t => buffers[tsTable[j]] = <<>>
            <7> HIDE DEF t
            <7>1. t # NO_ORDER
              BY DEF t
            <7> QED BY <1>1, <5>2, <6>1, <7>1, NextFromSkips
          <6> QED BY <4>1, <6>2
        <5> HIDE DEF t
        <5>4. t \in 0 .. n - 1 /\ n \in 0 .. MaxClients /\ k \in 0 .. n - 1
          BY <1>3 DEF t
        <5>5. InTurn(W(k) + 1, t, k)
          BY <3>2, <4>1, <5>1, <5>3, <5>4, NumbersOK DEF InTurn
        <5> QED BY <4>1, <5>5 DEF w
      <4> QED BY <4>2, <4>3
    <3> QED BY <3>3, <3>4 DEF w
  <2> QED BY <1>1, <1>3, <2>2, <2>3
<1> QED BY <1>6, <1>7


LEMMA NothingToSendFair ==
    ASSUME SenderFair, NothingToSend
    PROVE  Fair'
<1>1. SenderTables /\ SenderBacked /\ Fair /\ ListType /\ LoopType /\ up
  BY TablesParts DEF SenderFair, SenderBacked, NothingToSend, ControlSent
<1>2. /\ TurnOrder = NO_ORDER /\ sendOrder' = NO_ORDER /\ pc' = "send"
      /\ UNCHANGED <<tsTable, tsCount, sendCount, buffers, bypassed, faults, up>>
  BY DEF NothingToSend, tsVars, bufferVars, registryVars
<1> SUFFICES ASSUME Unhindered PROVE Waiting'
  BY <1>1, <1>2 DEF Unhindered, Fair
<1>3. Waiting /\ sendCount = 0
  BY <1>1, <1>2, TurnBacked DEF Unhindered, Fair, Undisturbed
<1>4. NobodyWaits
  <2>1. CASE pc # "data"
    BY <1>3, <2>1 DEF Waiting
  <2>2. CASE pc = "data"
    <3>1. sendOrder \in 0 .. tsCount - 1
      BY <1>3, <2>2 DEF Waiting
    <3> DEFINE first == sendOrder + 1
    <3>2. NextFrom(first) = NO_ORDER
      BY <1>2, <1>3 DEF TurnOrder, NextMessageClient
    <3>3. first \in 0 .. tsCount
      BY <1>1, <3>1, NumbersOK DEF ListType
    <3> HIDE DEF first
    <3>4. \A j \in 0 .. tsCount - 1 : buffers[tsTable[j]] = <<>>
      BY <1>1, <3>2, <3>3, NextFromNone
    <3>5. \A id \in Ids : buffers[id] = <<>>
      BY <1>3, <3>4 DEF Waiting, Listed
    <3> QED BY <1>3, <3>5 DEF Waiting, NobodyWaits
  <2> QED BY <2>1, <2>2
<1>5. ASSUME NEW k \in 0 .. tsCount - 1 PROVE InTurn(bypassed[tsTable[k]], NO_ORDER, k)
  <2>1. k \in Ids /\ bypassed[tsTable[k]] = 0
    BY <1>1, <1>4, ListedAre DEF NobodyWaits
  <2> QED BY <2>1, NobodyIsBehind
<1>6. \A k \in 0 .. tsCount' - 1 : InTurn(bypassed'[tsTable'[k]], sendOrder', k)
  BY <1>2, <1>5
<1>7. Listed' = Listed /\ NobodyWaits'
  BY <1>2, <1>4 DEF Listed, NobodyWaits
<1> QED BY <1>2, <1>3, <1>6, <1>7 DEF Waiting, InTurn

(* A turn, whatever of the message has been taken. *)
LEMMA TurnTakenFair ==
    ASSUME SenderFair, ControlSent, TurnOrder # NO_ORDER, CountTurn, faults \subseteq faults',
           UNCHANGED <<tsTable, tsCount, up>>, sendOrder' = TurnOrder,
           \A id \in Ids : id # TurnId => buffers'[id] = buffers[id],
           pc' \in {"data", "send"}, pc' = "data" <=> sendCount' = 0
    PROVE  Fair'
<1>1. Fair /\ up /\ SenderTables
  BY TablesParts DEF SenderFair, SenderBacked, ControlSent
<1>2. bypassed' \in [Ids -> Nat]
  BY <1>1 DEF Fair, CountTurn
<1> SUFFICES ASSUME Unhindered' PROVE Waiting'
  BY <1>1, <1>2 DEF Fair
<1>3. Unhindered /\ Waiting
  BY <1>1 DEF Unhindered, Fair
<1>4. /\ TurnOrder \in 0 .. tsCount - 1 /\ TurnId = tsTable[TurnOrder] /\ TurnId \in Ids
      /\ \A k \in 0 .. tsCount - 1 : InTurn(bypassed'[tsTable[k]], TurnOrder, k)
      /\ \A id \in Ids : buffers[id] = <<>> => bypassed'[id] = 0
      /\ bypassed'[TurnId] = 0
  BY <1>3, TurnIsFair
<1>5. TurnId \in Listed /\ Listed' = Listed
  BY <1>4 DEF Listed
<1>6. \A id \in Ids \ Listed' : buffers'[id] = <<>>
  BY <1>3, <1>5 DEF Waiting
<1>7. \A id \in Ids : buffers'[id] = <<>> => bypassed'[id] = 0
  BY <1>4
<1>8. \A k \in 0 .. tsCount' - 1 : InTurn(bypassed'[tsTable'[k]], sendOrder', k)
  BY <1>4
<1> QED BY <1>4, <1>6, <1>7, <1>8 DEF Waiting, InTurn

LEMMA NoRoomFair ==
    ASSUME SenderFair, NoRoomForData
    PROVE  Fair'
<1>1. /\ ControlSent /\ TurnOrder # NO_ORDER /\ CountTurn /\ faults' = faults
      /\ UNCHANGED <<tsTable, tsCount, up, buffers>>
      /\ sendOrder' = TurnOrder /\ sendCount' = TurnCount /\ pc' = "send"
  BY DEF NoRoomForData, tsVars, bufferVars, registryVars
<1>2. SenderFair /\ SenderBacked /\ up /\ Fair
  BY TablesParts DEF SenderFair, SenderBacked, ControlSent, NoRoomForData
<1>3. CASE Unhindered
  <2>1. TurnCount > 0
    BY <1>1, <1>2, <1>3, TurnBacked DEF Unhindered, Undisturbed
  <2> QED BY <1>1, <2>1, TurnTakenFair
<1>4. CASE ~Unhindered
  <2>1. bypassed' \in [Ids -> Nat]
    BY <1>1, <1>2 DEF Fair, CountTurn
  <2> QED BY <1>1, <1>2, <1>4, <2>1 DEF Unhindered, Fair
<1> QED BY <1>3, <1>4

LEMMA EncapsulateFair ==
    ASSUME SenderFair, EncapsulateData
    PROVE  Fair'
<1>1. SenderTables /\ BufferType
  BY TablesParts DEF SenderFair, SenderBacked
<1>2. /\ ControlSent /\ TurnOrder # NO_ORDER /\ CountTurn /\ faults \subseteq faults'
      /\ UNCHANGED <<tsTable, tsCount, up>>
      /\ sendOrder' = TurnOrder /\ sendCount' = TurnCount - Taken
      /\ pc' = IF Taken = TurnCount THEN "data" ELSE "send"
  BY <1>1, EncapsulateStep DEF tsVars, registryVars
<1>3. /\ buffers' = [buffers EXCEPT ![TurnId] = buffers'[TurnId]]
      /\ Taken \in 0 .. TurnCount /\ TurnCount \in Nat
  BY <1>1, EncapsulateLeaves
<1>4. \A id \in Ids : id # TurnId => buffers'[id] = buffers[id]
  BY <1>1, <1>3 DEF BufferType
<1>5. pc' \in {"data", "send"} /\ (pc' = "data" <=> sendCount' = 0)
  BY <1>2, <1>3
<1> QED BY <1>2, <1>4, <1>5, TurnTakenFair

LEMMA StepFair ==
    ASSUME SenderFair, [Next]_vars
    PROVE  Fair'
<1>1. SenderTables /\ SenderBacked /\ Fair
  BY DEF SenderFair, SenderBacked
<1>2. CASE Poll
  <2>1. UNCHANGED up
    BY <1>2 DEF Poll, PollClients
  <2> QED BY <1>2, <2>1, KeepsFair DEF Poll, tsVars, sendVars, bufferVars
<1>3. CASE Accept BY <1>3, AcceptFair
<1>4. CASE Refuse \/ AcceptFails
  BY <1>4, KeepsFair DEF Refuse, AcceptFails, tsVars, sendVars, bufferVars, registryVars
<1>5. CASE ClientPasses \/ ClientEnds
  <2>1. UNCHANGED <<tsTable, tsCount, sendOrder, sendCount, buffers, bypassed, faults>>
        /\ pc = "io" /\ pc' = pc
    BY <1>5 DEF ClientPasses, ClientEnds, IoGuard, IoNext, sendVars
  <2>2. UNCHANGED up
    BY <1>5 DEF ClientPasses, ClientEnds, TsRemoveClient, DisconnectClient, registryVars
  <2> QED BY <2>1, <2>2, KeepsFair
<1>6. CASE ClientReads BY <1>6, ClientReadsFair
<1>7. CASE IoEnd
  BY <1>7, KeepsFair DEF IoEnd, tsVars, sendVars, bufferVars, registryVars
<1>8. CASE RemoveEmpty BY <1>8, RemoveEmptyFair
<1>9. CASE Announce
  BY <1>9, KeepsFair DEF Announce, sendVars, bufferVars, registryVars
<1>10. CASE FillStops
  BY <1>10, KeepsFair DEF FillStops, tsVars, sendVars, bufferVars, registryVars
<1>11. CASE NothingToSend BY <1>11, NothingToSendFair
<1>12. CASE DataUndefined
  <2>1. TurnOrder # NO_ORDER /\ TurnCount > Len(buffers[TurnId])
        /\ UNCHANGED <<up, faults, bypassed>> /\ up
    BY <1>1, <1>12, TablesParts DEF DataUndefined, ControlSent, registryVars
  <2>2. ~Unhindered
    <3> SUFFICES ASSUME Unhindered PROVE FALSE
      OBVIOUS
    <3>1. TurnCount <= Len(buffers[TurnId])
      BY <1>1, <2>1, TurnBacked DEF Unhindered, Undisturbed
    <3>2. TurnCount \in 0 .. BufferSize /\ Len(buffers[TurnId]) \in 0 .. BufferSize
      BY <1>1, <2>1, TurnType, TablesParts
    <3> QED BY <2>1, <3>1, <3>2, NumbersOK
  <2> QED BY <1>1, <2>1, <2>2 DEF Unhindered, Fair
<1>13. CASE NoRoomForData BY <1>13, NoRoomFair
<1>14. CASE EncapsulateData BY <1>14, EncapsulateFair
<1>15. CASE TpbSend(TRUE) \/ TpbSend(FALSE)
  BY <1>15, KeepsFair DEF TpbSend, tsVars, sendVars, bufferVars, registryVars
<1>16. CASE Interrupt
  BY <1>16 DEF Interrupt, SafeCleanup, Fair, NobodyWaits
<1>17. CASE UNCHANGED vars
  BY <1>1, <1>17 DEF Unhindered, Fair, Waiting, NobodyWaits, Listed, vars, tsVars, sendVars, bufferVars, registryVars
<1> QED
  BY <1>2, <1>3, <1>4, <1>5, <1>6, <1>7, <1>8, <1>9, <1>10, <1>11, <1>12, <1>13, <1>14, <1>15,
     <1>16, <1>17
     DEF Next, Loop, Stopped

LEMMA FairHolds == Spec => []SenderFair
<1>1. ASSUME Init PROVE SenderFair
  <2>1. SenderBacked
    BY <1>1, InitTables DEF SenderBacked, Backed, Init
  <2>2. /\ bypassed = [id \in Ids |-> 0] /\ buffers = [id \in Ids |-> <<>>]
        /\ tsCount = 0 /\ pc = "poll"
    BY <1>1 DEF Init
  <2>3. 0 .. tsCount - 1 = {}
    BY <2>2
  <2> QED BY <2>1, <2>2, <2>3 DEF SenderFair, Fair, Waiting, NobodyWaits, InTurn
<1>2. SenderFair /\ [Next]_vars => SenderFair'
  BY StepTables, StepBacked, StepFair DEF SenderFair, SenderBacked
<1> QED BY <1>1, <1>2, PTL DEF Spec

(* The search for the next sender passes over nobody: before a client that *)
(* keeps its place and has bytes to send begins its message, the others    *)
(* begin fewer than MAX_CLIENTS, however the table grows and shrinks behind*)
(* the index, for every such number and until one of the gaps is met.      *)
THEOREM TheRotationIsFair == Spec => []TurnsAreFair
<1>1. SenderFair => TurnsAreFair
  BY FairIsFair
<1> QED BY <1>1, FairHolds, PTL


-----------------------------------------------------------------------------
(* Arithmetic modulo Cycle. *)

LEMMA ModUnique ==
    ASSUME NEW n \in Nat, n > 0, NEW q \in Int, NEW a \in 0 .. n - 1
    PROVE  (n * q + a) % n = a
OBVIOUS

LEMMA ModDiv ==
    ASSUME NEW n \in Nat, n > 0, NEW x \in Nat
    PROVE  \E q \in Nat : x = n * q + (x % n)
OBVIOUS

LEMMA ModSmall ==
    ASSUME NEW n \in Nat, n > 0, NEW x \in 0 .. n - 1
    PROVE  x % n = x
OBVIOUS

LEMMA ModPlus ==
    ASSUME NEW n \in Nat, n > 0, NEW x \in Nat, NEW y \in Nat
    PROVE  ((x % n) + y) % n = (x + y) % n
<1>1. PICK q \in Nat : x = n * q + (x % n)
  BY ModDiv
<1> DEFINE r == x % n
<1>2. r \in Nat
  BY ModType
<1>3. x = n * q + r
  BY <1>1
<1> HIDE DEF r
<1>4. PICK p \in Nat : r + y = n * p + ((r + y) % n)
  <2>1. r + y \in Nat
    BY <1>2
  <2> QED BY <2>1, ModDiv
<1> DEFINE s == (r + y) % n
<1>5. s \in 0 .. n - 1
  <2>1. r + y \in Nat
    BY <1>2
  <2> QED BY <2>1, ModType
<1>6. r + y = n * p + s
  BY <1>4
<1> HIDE DEF s
<1>7. n * (q + p) = n * q + n * p /\ n * q \in Nat /\ n * p \in Nat
  OBVIOUS
<1>8. x + y = n * (q + p) + s
  BY <1>2, <1>3, <1>5, <1>6, <1>7
<1>9. (n * (q + p) + s) % n = s
  <2>1. q + p \in Int
    OBVIOUS
  <2> QED BY <1>5, <2>1, ModUnique
<1>10. (x + y) % n = s
  BY <1>8, <1>9
<1> QED BY <1>10 DEF s, r

-----------------------------------------------------------------------------
(* What the far end makes of the bytes it gets. *)

Rx(phase, order, known, next) ==
    [phase |-> phase, order |-> order, known |-> known, next |-> next]

RxStates ==
    [phase : {"idle", "order", "frame", "add", "remove", "garbled"},
     order : Octets \cup {NO_ORDER}, known : SUBSET Octets, next : [Ids -> Plain]]

LEMMA RxIs ==
    ASSUME NEW r \in RxStates
    PROVE  /\ r = Rx(r.phase, r.order, r.known, r.next)
           /\ r.phase \in {"idle", "order", "frame", "add", "remove", "garbled"}
           /\ r.order \in Octets \cup {NO_ORDER} /\ r.known \in SUBSET Octets
           /\ r.next \in [Ids -> Plain]
BY DEF Rx, RxStates

(* The framing, and a plain byte of a known client in its sequence.        *)
LEMMA EdgeOpens ==
    ASSUME NEW o, NEW K, NEW N
    PROVE  Receive(Rx("idle", o, K, N), MESSAGE_EDGE) = Rx("order", o, K, N)
<1> DEFINE r == Rx("idle", o, K, N)
<1>1. r.phase = "idle" /\ r.order = o /\ r.known = K /\ r.next = N
  BY DEF Rx
<1>2. Receive(r, MESSAGE_EDGE) = [r EXCEPT !.phase = "order"]
  <2> HIDE DEF r
  <2> QED BY <1>1 DEF Receive, Misread
<1> QED BY <1>2 DEF Rx

LEMMA OrderOpens ==
    ASSUME NEW o, NEW K, NEW N, NEW c, ~ReservedByte(c)
    PROVE  Receive(Rx("order", o, K, N), c) = Rx("frame", c, K, N)
<1> DEFINE r == Rx("order", o, K, N)
<1>1. r.phase = "order" /\ r.order = o /\ r.known = K /\ r.next = N
  BY DEF Rx
<1>2. Receive(r, c) = [r EXCEPT !.phase = "frame", !.order = c]
  <2> HIDE DEF r
  <2> QED BY <1>1 DEF Receive, Misread
<1> QED BY <1>2 DEF Rx

LEMMA EdgeCloses ==
    ASSUME NEW o, NEW K, NEW N
    PROVE  Receive(Rx("frame", o, K, N), MESSAGE_EDGE) = Rx("idle", o, K, N)
<1> DEFINE r == Rx("frame", o, K, N)
<1>1. r.phase = "frame" /\ r.order = o /\ r.known = K /\ r.next = N
  BY DEF Rx
<1>2. Receive(r, MESSAGE_EDGE) = [r EXCEPT !.phase = "idle"]
  <2> HIDE DEF r
  <2> QED BY <1>1 DEF Receive, Misread
<1> QED BY <1>2 DEF Rx

LEMMA AddBegins ==
    ASSUME NEW K, NEW N
    PROVE  Receive(Rx("frame", CONTROL_ORDER, K, N), CLIENT_ADD) = Rx("add", CONTROL_ORDER, K, N)
<1> DEFINE r == Rx("frame", CONTROL_ORDER, K, N)
<1>1. r.phase = "frame" /\ r.order = CONTROL_ORDER /\ r.known = K /\ r.next = N
  BY DEF Rx
<1>2. Receive(r, CLIENT_ADD) = [r EXCEPT !.phase = "add"]
  <2> HIDE DEF r
  <2> QED BY <1>1 DEF Receive, Misread, MESSAGE_EDGE, CLIENT_ADD
<1> QED BY <1>2 DEF Rx

LEMMA RemoveBegins ==
    ASSUME NEW K, NEW N
    PROVE  Receive(Rx("frame", CONTROL_ORDER, K, N), CLIENT_REMOVE) = Rx("remove", CONTROL_ORDER, K, N)
<1> DEFINE r == Rx("frame", CONTROL_ORDER, K, N)
<1>1. r.phase = "frame" /\ r.order = CONTROL_ORDER /\ r.known = K /\ r.next = N
  BY DEF Rx
<1>2. Receive(r, CLIENT_REMOVE) = [r EXCEPT !.phase = "remove"]
  <2> HIDE DEF r
  <2> QED BY <1>1 DEF Receive, Misread, MESSAGE_EDGE, CLIENT_ADD, CLIENT_REMOVE
<1> QED BY <1>2 DEF Rx

LEMMA AddEnds ==
    ASSUME NEW o, NEW K, NEW N, NEW c, ~ReservedByte(c)
    PROVE  Receive(Rx("add", o, K, N), c) = Rx("frame", o, K \cup {c}, [N EXCEPT ![c] = 0])
<1> DEFINE r == Rx("add", o, K, N)
<1>1. r.phase = "add" /\ r.order = o /\ r.known = K /\ r.next = N
  BY DEF Rx
<1>2. Receive(r, c) = [r EXCEPT !.phase = "frame", !.known = @ \cup {c}, !.next[c] = 0]
  <2> HIDE DEF r
  <2> QED BY <1>1 DEF Receive, Misread
<1> QED BY <1>2 DEF Rx

LEMMA RemoveEnds ==
    ASSUME NEW o, NEW K, NEW N, NEW c, ~ReservedByte(c)
    PROVE  Receive(Rx("remove", o, K, N), c) = Rx("frame", o, K \ {c}, [N EXCEPT ![c] = 0])
<1> DEFINE r == Rx("remove", o, K, N)
<1>1. r.phase = "remove" /\ r.order = o /\ r.known = K /\ r.next = N
  BY DEF Rx
<1>2. Receive(r, c) = [r EXCEPT !.phase = "frame", !.known = @ \ {c}, !.next[c] = 0]
  <2> HIDE DEF r
  <2> QED BY <1>1 DEF Receive, Misread
<1> QED BY <1>2 DEF Rx

LEMMA DataArrives ==
    ASSUME NEW o, NEW K, NEW N, NEW c,
           o # CONTROL_ORDER, c # MESSAGE_EDGE, o \in K, c = N[o]
    PROVE  Receive(Rx("frame", o, K, N), c) = Rx("frame", o, K, [N EXCEPT ![o] = (c + 1) % Cycle])
<1> DEFINE r == Rx("frame", o, K, N)
<1>1. r.phase = "frame" /\ r.order = o /\ r.known = K /\ r.next = N
  BY DEF Rx
<1>2. Receive(r, c) = [r EXCEPT !.next[o] = (c + 1) % Cycle]
  <2> HIDE DEF r
  <2> QED BY <1>1 DEF Receive, Misread, Deliver
<1> QED BY <1>2 DEF Rx

LEMMA ReceiveType ==
    ASSUME NEW r \in RxStates, NEW c \in Octets
    PROVE  Receive(r, c) \in RxStates
<1>1. /\ r.phase \in {"idle", "order", "frame", "add", "remove", "garbled"}
      /\ r.order \in Octets \cup {NO_ORDER} /\ r.known \in SUBSET Octets
      /\ r.next \in [Ids -> Plain]
  BY RxIs
<1>2. 0 \in Plain
  BY NumbersOK DEF Plain
<1>3. CASE r.phase = "idle"
  BY <1>3 DEF Receive, Misread, RxStates
<1>4. CASE r.phase = "order" /\ ~Misread(r, c)
  BY <1>4 DEF Receive, Misread, RxStates
<1>5. CASE r.phase = "frame"
  <2>1. CASE c = MESSAGE_EDGE
    BY <1>5, <2>1 DEF Receive, Misread, RxStates
  <2>2. CASE c # MESSAGE_EDGE /\ r.order = CONTROL_ORDER
    BY <1>5, <2>2 DEF Receive, Misread, RxStates
  <2>3. CASE c # MESSAGE_EDGE /\ r.order # CONTROL_ORDER
    <3>1. Receive(r, c) = Deliver(r, r.order, c)
      BY <1>5, <2>3 DEF Receive, Misread
    <3>2. (c + 1) % Cycle \in Plain
      <4>1. c + 1 \in Nat
        BY DEF Octets
      <4> QED BY <4>1, ModType, NumbersOK DEF Plain
    <3> QED BY <1>1, <3>1, <3>2 DEF Deliver, RxStates
  <2> QED BY <2>1, <2>2, <2>3
<1>6. CASE r.phase = "add" /\ ~Misread(r, c)
  BY <1>2, <1>6 DEF Receive, Misread, RxStates
<1>7. CASE r.phase = "remove" /\ ~Misread(r, c)
  BY <1>2, <1>7 DEF Receive, Misread, RxStates
<1>8. CASE r.phase = "garbled"
  BY <1>8 DEF Receive, Misread, RxStates
<1>9. CASE Misread(r, c)
  <2>1. Receive(r, c) = [r EXCEPT !.phase = "garbled"]
    BY <1>9 DEF Receive, Misread, ReservedByte, MESSAGE_EDGE
  <2> QED BY <2>1 DEF RxStates
<1> QED BY <1>1, <1>3, <1>4, <1>5, <1>6, <1>7, <1>8, <1>9

(* The states the far end goes through. *)
LEMMA ReceiveSteps ==
    ASSUME NEW r \in RxStates, NEW s \in Seq(Octets)
    PROVE  \E f \in [0 .. Len(s) -> RxStates] :
              /\ f[0] = r
              /\ \A k \in 1 .. Len(s) : f[k] = Receive(f[k - 1], s[k])
              /\ Folded(Receive, r, s) = f[Len(s)]
<1> DEFINE n == Len(s)
           A == RxStates
           g == [p \in (1 .. n) \X A |-> Receive(p[2], s[p[1]])]
           Step(after) == [k \in 0 .. n |->
               IF k = 0 THEN r
               ELSE CHOOSE next \in {Receive(before, s[k]) : before \in {after[k - 1]}} : TRUE]
<1>1. n \in Nat /\ \A k \in 1 .. n : s[k] \in Octets
  BY LenProperties, ElementOfSeq
<1>2. g \in [(1 .. n) \X A -> A]
  BY <1>1, ReceiveType
<1>3. r \in A
  OBVIOUS
<1>4. PICK f : RunOf(f, n, A, r, g)
  <2>1. n \in Nat
    BY <1>1
  <2> HIDE DEF n, A, g
  <2> QED BY <2>1, <1>2, <1>3, RecursionExists, Zenon
<1>5. ASSUME NEW k \in 1 .. n PROVE f[k - 1] \in A /\ f[k] = Receive(f[k - 1], s[k])
  <2>1. k - 1 \in 0 .. n
    BY <1>1
  <2>2. f[k - 1] \in A
    BY <1>4, <2>1 DEF RunOf
  <2>3. g[<<k, f[k - 1]>>] = Receive(f[k - 1], s[k])
    BY <2>2
  <2>4. f[k] = g[<<k, f[k - 1]>>]
    BY <1>4 DEF RunOf
  <2> QED BY <2>2, <2>3, <2>4
<1>6. ASSUME NEW after, NEW k \in 1 .. n
      PROVE  Step(after)[k] = Receive(after[k - 1], s[k])
  <2> DEFINE v == Receive(after[k - 1], s[k])
  <2>1. {Receive(before, s[k]) : before \in {after[k - 1]}} = {v}
    OBVIOUS
  <2>2. (CHOOSE next \in {v} : TRUE) = v
    OBVIOUS
  <2>3. k \in 0 .. n /\ k # 0
    BY <1>1
  <2> QED BY <2>1, <2>2, <2>3
<1>7. f = Step(f)
  <2>1. f = [k \in 0 .. n |-> f[k]]
    BY <1>4 DEF RunOf
  <2>2. ASSUME NEW k \in 0 .. n PROVE f[k] = Step(f)[k]
    <3>1. CASE k = 0
      <4>1. Step(f)[0] = r
        BY <1>1
      <4> QED BY <1>4, <3>1, <4>1 DEF RunOf
    <3>2. CASE k # 0
      <4>1. k \in 1 .. n
        BY <1>1, <3>2
      <4> HIDE DEF Step
      <4> QED BY <1>5, <1>6, <4>1
    <3> QED BY <3>1, <3>2
  <2>3. Step(f) = [k \in 0 .. n |-> Step(f)[k]]
    OBVIOUS
  <2> HIDE DEF Step
  <2> QED BY <2>1, <2>2, <2>3, Zenon
<1> DEFINE Fold == CHOOSE after : after = Step(after)
<1>8. Fold = Step(Fold)
  <2> HIDE DEF Step
  <2> QED BY <1>7, Zenon
<1>9. \A k \in 0 .. n : Fold[k] = f[k]
  <2> DEFINE Wrong == {k \in 0 .. n : Fold[k] # f[k]}
  <2> SUFFICES ASSUME Wrong # {} PROVE FALSE
    OBVIOUS
  <2> HIDE DEF Fold
  <2>1. PICK k \in Wrong : \A x \in Wrong : k <= x
    <3>1. Wrong \in SUBSET Nat
      BY <1>1
    <3> HIDE DEF Wrong
    <3> QED BY <3>1, LeastOf
  <2>2. k # 0
    <3>1. Step(Fold)[0] = r
      BY <1>1
    <3> HIDE DEF Step
    <3> QED BY <1>4, <1>8, <2>1, <3>1 DEF RunOf
  <2>3. k - 1 \in 0 .. n /\ k \in 1 .. n /\ ~(k <= k - 1)
    BY <1>1, <2>1, <2>2
  <2>4. Fold[k - 1] = f[k - 1]
    BY <2>1, <2>3
  <2>5. Fold[k] = Receive(Fold[k - 1], s[k])
    <3> HIDE DEF Step
    <3> QED BY <1>6, <1>8, <2>3
  <2>6. f[k] = Receive(f[k - 1], s[k])
    BY <1>5, <2>3
  <2>7. k \notin Wrong
    BY <2>4, <2>5, <2>6
  <2> QED BY <2>1, <2>7
<1>10. Folded(Receive, r, s) = Fold[n]
  BY Zenon DEF Folded
<1> HIDE DEF Fold
<1>11. Folded(Receive, r, s) = f[Len(s)]
  BY <1>1, <1>9, <1>10
<1>12. f \in [0 .. n -> A] /\ f[0] = r
  BY <1>4 DEF RunOf
<1> QED BY <1>5, <1>11, <1>12


-----------------------------------------------------------------------------
(* Between two steps the far end stands in the frame the sender has open. *)
Framed ==
    /\ rx \in RxStates
    /\ IF tunnelOrder = NO_ORDER THEN rx.phase = "idle"
       ELSE rx.phase = "frame" /\ rx.order = tunnelOrder

(* f is what the far end goes through on the l bytes of an order's header. *)
HeaderRead(f, s, order, l) ==
    /\ f[0] = rx /\ l = Len(OrderHeader(order))
    /\ \A k \in 1 .. l : s[k] = OrderHeader(order)[k] /\ f[k] = Receive(f[k - 1], s[k])

(* The header of an order closes the open frame and opens its own. *)
LEMMA HeaderReceived ==
    ASSUME Framed, NEW order \in Octets, ~ReservedByte(order),
           NEW f, NEW s, NEW l, HeaderRead(f, s, order, l)
    PROVE  f[l] = Rx("frame", order, rx.known, rx.next)
<1>0. /\ f[0] = rx /\ l = Len(OrderHeader(order))
      /\ \A k \in 1 .. l : s[k] = OrderHeader(order)[k] /\ f[k] = Receive(f[k - 1], s[k])
  BY DEF HeaderRead
<1> DEFINE K == rx.known
           N == rx.next
<1>1. rx = Rx(rx.phase, rx.order, K, N)
  BY RxIs DEF Framed
<1>2. /\ Len(OrderHeader(order)) = IF tunnelOrder = NO_ORDER THEN 2 ELSE 3
      /\ OrderHeader(order)[1] = MESSAGE_EDGE
      /\ tunnelOrder = NO_ORDER => OrderHeader(order)[2] = order
      /\ tunnelOrder # NO_ORDER => /\ OrderHeader(order)[2] = MESSAGE_EDGE
                                   /\ OrderHeader(order)[3] = order
  BY HeaderIs
<1> HIDE DEF K, N
<1>3. CASE tunnelOrder = NO_ORDER
  <2>1. l = 2 /\ s[1] = MESSAGE_EDGE /\ s[2] = order
        /\ f[1] = Receive(f[0], s[1]) /\ f[2] = Receive(f[1], s[2])
    BY <1>0, <1>2, <1>3
  <2>2. f[0] = Rx("idle", rx.order, K, N)
    BY <1>0, <1>1, <1>3 DEF Framed
  <2>3. f[1] = Rx("order", rx.order, K, N)
    BY <2>1, <2>2, EdgeOpens
  <2>4. f[2] = Rx("frame", order, K, N)
    BY <2>1, <2>3, OrderOpens
  <2> QED BY <2>1, <2>4 DEF K, N
<1>4. CASE tunnelOrder # NO_ORDER
  <2>1. l = 3 /\ s[1] = MESSAGE_EDGE /\ s[2] = MESSAGE_EDGE /\ s[3] = order
        /\ f[1] = Receive(f[0], s[1]) /\ f[2] = Receive(f[1], s[2]) /\ f[3] = Receive(f[2], s[3])
    BY <1>0, <1>2, <1>4
  <2>2. f[0] = Rx("frame", rx.order, K, N)
    BY <1>0, <1>1, <1>4 DEF Framed
  <2>3. f[1] = Rx("idle", rx.order, K, N)
    BY <2>1, <2>2, EdgeCloses
  <2>4. f[2] = Rx("order", rx.order, K, N)
    BY <2>1, <2>3, EdgeOpens
  <2>5. f[3] = Rx("frame", order, K, N)
    BY <2>1, <2>4, OrderOpens
  <2> QED BY <2>1, <2>5 DEF K, N
<1> QED BY <1>3, <1>4

(* What a control message does at the far end. *)
LEMMA ControlReceived ==
    ASSUME Framed, NEW op \in {CLIENT_ADD, CLIENT_REMOVE}, NEW id \in Ids, ~ReservedByte(id)
    PROVE  Folded(Receive, rx, ControlBytes(op, id)) =
              Rx("frame", CONTROL_ORDER,
                 IF op = CLIENT_ADD THEN rx.known \cup {id} ELSE rx.known \ {id},
                 [rx.next EXCEPT ![id] = 0])
<1> DEFINE l == ControlLength
           s == ControlBytes(op, id)
           K == rx.known
           N == rx.next
<1>1. op \in Octets /\ id \in Octets /\ CONTROL_ORDER \in Octets /\ CONTROL_ORDER # NO_ORDER
  <2>1. op \in Octets /\ CONTROL_ORDER \in Octets /\ CONTROL_ORDER # NO_ORDER
    BY DEF Octets, CLIENT_ADD, CLIENT_REMOVE, CONTROL_ORDER, NO_ORDER
  <2>2. id \in Octets
    BY OctetsOK
  <2> QED BY <2>1, <2>2
<1>2. l \in Nat
  BY <1>1, ControlIs
<1>3. /\ s \in Seq(Octets) /\ Len(s) = l + 2
      /\ \A k \in 1 .. l : s[k] = OrderHeader(CONTROL_ORDER)[k]
      /\ s[l + 1] = op /\ s[l + 2] = id
  BY <1>1, ControlIs
<1>4. \/ l = 0 /\ tunnelOrder = CONTROL_ORDER
      \/ l = Len(OrderHeader(CONTROL_ORDER)) /\ tunnelOrder # CONTROL_ORDER
  <2>1. Len(OrderHeader(CONTROL_ORDER)) = IF tunnelOrder = NO_ORDER THEN 2 ELSE 3
    BY <1>1, HeaderIs
  <2>2. CASE tunnelOrder = CONTROL_ORDER
    BY <2>2 DEF ControlLength
  <2>3. CASE tunnelOrder # CONTROL_ORDER
    BY <2>1, <2>3 DEF ControlLength
  <2> QED BY <2>2, <2>3
<1> HIDE DEF s, l
<1>5. PICK f \in [0 .. Len(s) -> RxStates] :
         /\ f[0] = rx
         /\ \A k \in 1 .. Len(s) : f[k] = Receive(f[k - 1], s[k])
         /\ Folded(Receive, rx, s) = f[Len(s)]
  BY <1>3, ReceiveSteps DEF Framed
<1>6. \A k \in 1 .. l : k \in 1 .. Len(s)
  BY <1>2, <1>3
<1>7. rx = Rx(rx.phase, rx.order, K, N)
  BY RxIs DEF Framed
<1> HIDE DEF K, N
<1>8. f[l] = Rx("frame", CONTROL_ORDER, K, N)
  <2>1. CASE l = 0 /\ tunnelOrder = CONTROL_ORDER
    BY <1>1, <1>5, <1>7, <2>1 DEF Framed
  <2>2. CASE l = Len(OrderHeader(CONTROL_ORDER))
    <3>1. \A k \in 1 .. l : s[k] = OrderHeader(CONTROL_ORDER)[k] /\ f[k] = Receive(f[k - 1], s[k])
      BY <1>3, <1>5, <1>6
    <3>2. f[l] = Rx("frame", CONTROL_ORDER, rx.known, rx.next)
      <4>1. f[0] = rx /\ CONTROL_ORDER \in Octets
        BY <1>1, <1>5
      <4> DEFINE order == CONTROL_ORDER
      <4>2. order \in Octets /\ HeaderRead(f, s, order, l) /\ ~ReservedByte(order)
        BY <2>2, <3>1, <4>1
           DEF HeaderRead, ReservedByte, CONTROL_ORDER, MESSAGE_EDGE, MESSAGE_ESCAPE
      <4> HIDE DEF order
      <4>3. f[l] = Rx("frame", order, rx.known, rx.next)
        BY <4>2, HeaderReceived
      <4> QED BY <4>3 DEF order
    <3> QED BY <3>2 DEF K, N
  <2> QED BY <1>4, <2>1, <2>2
<1>9. f[l + 1] = Receive(f[l], op) /\ f[l + 2] = Receive(f[l + 1], id)
  <2>1. l + 1 \in 1 .. Len(s) /\ l + 2 \in 1 .. Len(s) /\ (l + 1) - 1 = l /\ (l + 2) - 1 = l + 1
    BY <1>2, <1>3
  <2>2. f[l + 1] = Receive(f[(l + 1) - 1], s[l + 1]) /\ f[l + 2] = Receive(f[(l + 2) - 1], s[l + 2])
    BY <1>5, <2>1
  <2> QED BY <1>3, <2>1, <2>2
<1>10. Folded(Receive, rx, s) = f[l + 2]
  BY <1>3, <1>5
<1>11. CASE op = CLIENT_ADD
  <2>1. f[l + 1] = Rx("add", CONTROL_ORDER, K, N)
    BY <1>8, <1>9, <1>11, AddBegins
  <2>2. f[l + 2] = Rx("frame", CONTROL_ORDER, K \cup {id}, [N EXCEPT ![id] = 0])
    BY <1>9, <2>1, AddEnds
  <2> QED BY <1>10, <1>11, <2>2 DEF s, K, N
<1>12. CASE op = CLIENT_REMOVE
  <2>1. f[l + 1] = Rx("remove", CONTROL_ORDER, K, N)
    BY <1>8, <1>9, <1>12, RemoveBegins
  <2>2. f[l + 2] = Rx("frame", CONTROL_ORDER, K \ {id}, [N EXCEPT ![id] = 0])
    BY <1>9, <2>1, RemoveEnds
  <2>3. op # CLIENT_ADD
    BY <1>12 DEF CLIENT_ADD, CLIENT_REMOVE
  <2> QED BY <1>10, <2>2, <2>3 DEF s, K, N
<1> QED BY <1>11, <1>12

(* What n bytes of a client that is known do there, in their sequence. *)
DataFrame(id, header, n, s) ==
    /\ header = IF tunnelOrder = id THEN <<>> ELSE OrderHeader(id)
    /\ n \in Nat /\ s \in Seq(Octets) /\ Len(s) = Len(header) + n
    /\ \A k \in 1 .. Len(header) : s[k] = header[k]
    /\ \A k \in 1 .. n : s[Len(header) + k] = (rx.next[id] + k - 1) % Cycle

LEMMA DataReceived ==
    ASSUME Framed, NEW id \in Ids, id \in rx.known, ~ReservedByte(id),
           NEW header, NEW n, NEW s, DataFrame(id, header, n, s)
    PROVE  Folded(Receive, rx, s) =
              Rx("frame", id, rx.known, [rx.next EXCEPT ![id] = (rx.next[id] + n) % Cycle])
<1>0. /\ header = IF tunnelOrder = id THEN <<>> ELSE OrderHeader(id)
      /\ n \in Nat /\ s \in Seq(Octets) /\ Len(s) = Len(header) + n
      /\ \A k \in 1 .. Len(header) : s[k] = header[k]
      /\ \A k \in 1 .. n : s[Len(header) + k] = (rx.next[id] + k - 1) % Cycle
  BY DEF DataFrame
<1> DEFINE l == Len(header)
           K == rx.known
           N == rx.next
           first == rx.next[id]
           At(k) == Rx("frame", id, K, [N EXCEPT ![id] = (first + k) % Cycle])
<1>1. rx = Rx(rx.phase, rx.order, K, N) /\ N \in [Ids -> Plain]
  BY RxIs DEF Framed
<1>2. id \in Octets /\ id # NO_ORDER /\ id # CONTROL_ORDER
  BY OctetsOK, NumbersOK DEF NO_ORDER, CONTROL_ORDER
<1>3. /\ l \in Nat
      /\ \/ tunnelOrder = id /\ l = 0
         \/ tunnelOrder # id /\ l = Len(OrderHeader(id))
  <2>1. Len(OrderHeader(id)) = IF tunnelOrder = NO_ORDER THEN 2 ELSE 3
    BY <1>2, HeaderIs
  <2>2. CASE tunnelOrder = id
    <3>1. header = <<>>
      BY <1>0, <2>2
    <3> QED BY <2>2, <3>1, EmptySeq
  <2>3. CASE tunnelOrder # id
    <3>1. header = OrderHeader(id)
      BY <1>0, <2>3
    <3> HIDE DEF l
    <3>2. l = Len(OrderHeader(id))
      BY <3>1 DEF l
    <3>3. l \in Nat
      BY <2>1, <3>2
    <3> QED BY <2>3, <3>2, <3>3
  <2> QED BY <2>2, <2>3
<1>4. first \in Nat /\ first < Cycle
  BY <1>1, NumbersOK DEF Plain
<1>5. tunnelOrder # id => \A k \in 1 .. l : s[k] = OrderHeader(id)[k]
  BY <1>0
<1>6. Len(s) = l + n /\ \A k \in 1 .. n : s[l + k] = (first + k - 1) % Cycle
  BY <1>0
<1> HIDE DEF l, first
<1>7. PICK f \in [0 .. Len(s) -> RxStates] :
         /\ f[0] = rx
         /\ \A k \in 1 .. Len(s) : f[k] = Receive(f[k - 1], s[k])
         /\ Folded(Receive, rx, s) = f[Len(s)]
  BY <1>0, ReceiveSteps DEF Framed
<1>8. \A k \in 1 .. l : k \in 1 .. Len(s)
  BY <1>0, <1>3, <1>6
<1>9. f[l] = Rx("frame", id, K, N)
  <2>1. CASE tunnelOrder = id /\ l = 0
    BY <1>1, <1>2, <1>7, <2>1 DEF Framed
  <2>2. CASE tunnelOrder # id /\ l = Len(OrderHeader(id))
    <3>1. \A k \in 1 .. l : s[k] = OrderHeader(id)[k] /\ f[k] = Receive(f[k - 1], s[k])
      BY <1>5, <1>7, <1>8, <2>2
    <3>2. HeaderRead(f, s, id, l)
      BY <1>7, <2>2, <3>1 DEF HeaderRead
    <3>3. f[l] = Rx("frame", id, rx.known, rx.next)
      BY <1>2, <3>2, HeaderReceived
    <3> QED BY <3>3 DEF K, N
  <2> QED BY <1>3, <2>1, <2>2
<1>10. f[l] = At(0)
  <2>1. (first + 0) % Cycle = first
    <3>1. first + 0 = first /\ first \in 0 .. Cycle - 1
      BY <1>4, NumbersOK
    <3>2. first % Cycle = first
      <4>1. Cycle \in Nat /\ Cycle > 0
        BY NumbersOK
      <4> QED BY <3>1, <4>1, ModSmall
    <3> QED BY <3>1, <3>2
  <2>2. [N EXCEPT ![id] = first] = N
    BY <1>1 DEF first
  <2> QED BY <1>9, <2>1, <2>2
<1>11. ASSUME NEW k \in 1 .. n, f[l + (k - 1)] = At(k - 1)
       PROVE  f[l + k] = At(k)
  <2> DEFINE c == (first + k - 1) % Cycle
             M == [N EXCEPT ![id] = c]
  <2>1. l + k \in 1 .. Len(s) /\ (l + k) - 1 = l + (k - 1) /\ first + k - 1 = first + (k - 1)
        /\ first + (k - 1) \in Nat
    BY <1>0, <1>3, <1>4, <1>6
  <2>2. f[l + k] = Receive(f[l + (k - 1)], s[l + k]) /\ s[l + k] = c
    <3>1. f[l + k] = Receive(f[(l + k) - 1], s[l + k])
      BY <1>7, <2>1
    <3> QED BY <1>6, <2>1, <3>1
  <2>3. f[l + (k - 1)] = Rx("frame", id, K, M)
    BY <1>11, <2>1
  <2>4. M[id] = c
    BY <1>1
  <2>5. c \in 0 .. Cycle - 1
    BY <2>1, ModType, NumbersOK
  <2>6. c # MESSAGE_EDGE
    BY <2>5, NumbersOK DEF MESSAGE_EDGE
  <2>7. (c + 1) % Cycle = (first + k) % Cycle
    <3>1. ASSUME NEW x \in Nat PROVE ((x % Cycle) + 1) % Cycle = (x + 1) % Cycle
      <4>1. Cycle \in Nat /\ Cycle > 0 /\ 1 \in Nat
        BY NumbersOK
      <4> QED BY <4>1, ModPlus
    <3>2. (first + (k - 1)) + 1 = first + k
      BY <1>4
    <3>3. (((first + (k - 1)) % Cycle) + 1) % Cycle = ((first + (k - 1)) + 1) % Cycle
      BY <2>1, <3>1
    <3> QED BY <2>1, <3>2, <3>3
  <2>8. [M EXCEPT ![id] = (c + 1) % Cycle] = [N EXCEPT ![id] = (first + k) % Cycle]
    BY <2>7
  <2> HIDE DEF c, M
  <2>9. Receive(Rx("frame", id, K, M), c) = Rx("frame", id, K, [M EXCEPT ![id] = (c + 1) % Cycle])
    BY <1>2, <2>4, <2>6, DataArrives
  <2> QED BY <2>2, <2>3, <2>8, <2>9
<1>12. \A k \in 0 .. n : f[l + k] = At(k)
  <2> DEFINE Wrong == {k \in 0 .. n : f[l + k] # At(k)}
  <2> SUFFICES ASSUME Wrong # {} PROVE FALSE
    OBVIOUS
  <2> HIDE DEF At
  <2>1. PICK k \in Wrong : \A x \in Wrong : k <= x
    <3>1. Wrong \in SUBSET Nat
      BY <1>0
    <3> HIDE DEF Wrong
    <3> QED BY <3>1, LeastOf
  <2>2. k # 0
    <3>1. l + 0 = l
      BY <1>3
    <3> QED BY <1>10, <2>1, <3>1
  <2>3. k - 1 \in 0 .. n /\ k \in 1 .. n /\ ~(k <= k - 1)
    BY <1>0, <2>1, <2>2
  <2>4. f[l + (k - 1)] = At(k - 1)
    BY <2>1, <2>3
  <2>5. f[l + k] = At(k)
    BY <1>11, <2>3, <2>4
  <2> QED BY <2>1, <2>5
<1>13. Folded(Receive, rx, s) = At(n)
  <2>1. n \in 0 .. n
    BY <1>0
  <2> HIDE DEF At
  <2> QED BY <1>6, <1>7, <1>12, <2>1
<1> QED BY <1>13 DEF first


-----------------------------------------------------------------------------
(* DeliveredInOrder.  What a buffer holds goes on where the far end        *)
(* stopped, up to the first byte that is reserved, and if there is none,   *)
(* the client goes on where the buffer ends.                               *)
PlainUpTo(b, n) == \A m \in 1 .. n : b[m] \in Plain

Consecutive(b, next, first) ==
    /\ \A k \in 1 .. Len(b) : PlainUpTo(b, k) => b[k] = (first + (k - 1)) % Cycle
    /\ PlainUpTo(b, Len(b)) => next = (first + Len(b)) % Cycle

Queued == {addQueue[k] : k \in 1 .. Len(addQueue)}

Continues(id) ==
    IF id \in Queued THEN Consecutive(buffers[id], sent[id], 0)
    ELSE id \in rx.known /\ Consecutive(buffers[id], sent[id], rx.next[id])

Delivering ==
    /\ Framed
    /\ \A id \in Live : Continues(id)
    /\ pc = "data" => addQueue = <<>>

InOrder ==
    /\ up /\ faults = {} => Delivering
    /\ ~up => rx.phase = "idle"

SenderInOrder == SenderBacked /\ InOrder

LEMMA CycleIs == Cycle \in Nat /\ Cycle > 0 /\ Plain = 0 .. Cycle - 1
BY NumbersOK DEF Plain

LEMMA ConsecutiveEmpty ==
    ASSUME NEW first \in Plain
    PROVE  Consecutive(<<>>, first, first)
<1>1. Len(<<>>) = 0
  BY EmptySeq
<1>2. first \in 0 .. Cycle - 1 /\ first + 0 = first
  BY CycleIs
<1>3. first % Cycle = first
  BY <1>2, CycleIs, ModSmall
<1> QED BY <1>1, <1>2, <1>3 DEF Consecutive

LEMMA ConsecutiveAppended ==
    ASSUME NEW b \in Seq(Octets), NEW next \in Plain, NEW first \in Plain,
           Consecutive(b, next, first),
           NEW bytes \in Seq(Octets), Len(bytes) > 0, NEW then,
           \/ /\ \A k \in 1 .. Len(bytes) : bytes[k] = (next + k - 1) % Cycle
              /\ then = (next + Len(bytes)) % Cycle
           \/ Len(bytes) = 1 /\ bytes[1] \notin Plain /\ then = next
    PROVE  Consecutive(b \o bytes, then, first)
<1> DEFINE d == b \o bytes
           l == Len(b)
           n == Len(bytes)
<1>1. /\ d \in Seq(Octets) /\ Len(d) = l + n /\ l \in Nat /\ n \in Nat /\ n > 0
      /\ \A k \in 1 .. l : d[k] = b[k]
      /\ \A k \in 1 .. n : d[l + k] = bytes[k]
  <2>1. l \in Nat /\ n \in Nat /\ n > 0
    BY LenProperties
  <2>2. /\ d \in Seq(Octets) /\ Len(d) = l + n
        /\ \A k \in 1 .. l + n : d[k] = IF k <= l THEN b[k] ELSE bytes[k - l]
    BY ConcatProperties
  <2> HIDE DEF d, l, n
  <2>3. \A k \in 1 .. n : l + k \in 1 .. l + n /\ ~(l + k <= l) /\ (l + k) - l = k
    BY <2>1
  <2>4. \A k \in 1 .. l : k \in 1 .. l + n /\ k <= l
    BY <2>1
  <2> QED BY <2>1, <2>2, <2>3, <2>4
<1>2. /\ \A k \in 1 .. l : PlainUpTo(b, k) => b[k] = (first + (k - 1)) % Cycle
      /\ PlainUpTo(b, l) => next = (first + l) % Cycle
  BY DEF Consecutive
<1>3. first \in Nat /\ next \in Nat /\ Cycle \in Nat /\ Cycle > 0
  BY CycleIs
<1>4. \/ /\ \A k \in 1 .. n : bytes[k] = (next + k - 1) % Cycle
         /\ then = (next + n) % Cycle
      \/ n = 1 /\ bytes[1] \notin Plain /\ then = next
  OBVIOUS
<1> HIDE DEF d, l, n
<1>5. ASSUME NEW k \in 1 .. l, PlainUpTo(d, k) PROVE d[k] = (first + (k - 1)) % Cycle
  <2>1. \A m \in 1 .. k : d[m] = b[m]
    BY <1>1
  <2>2. PlainUpTo(b, k)
    BY <1>5, <2>1 DEF PlainUpTo
  <2> QED BY <1>1, <1>2, <2>2
<1>6. ASSUME NEW k \in Nat, k >= l, PlainUpTo(d, k) PROVE next = (first + l) % Cycle
  <2>1. \A m \in 1 .. l : m \in 1 .. k /\ d[m] = b[m]
    BY <1>1, <1>6
  <2>2. PlainUpTo(b, l)
    BY <1>6, <2>1 DEF PlainUpTo
  <2> QED BY <1>2, <2>2
<1>7. ASSUME NEW x \in Nat, next = (first + l) % Cycle
      PROVE  (next + x) % Cycle = (first + (l + x)) % Cycle
  <2>1. first + l \in Nat
    BY <1>1, <1>3
  <2>2. (((first + l) % Cycle) + x) % Cycle = ((first + l) + x) % Cycle
    BY <1>3, <2>1, ModPlus
  <2>3. (first + l) + x = first + (l + x)
    BY <1>1, <1>3
  <2> QED BY <1>7, <2>2, <2>3
<1>8. ASSUME NEW k \in 1 .. n, PlainUpTo(d, l + k)
      PROVE  /\ \A m \in 1 .. n : bytes[m] = (next + m - 1) % Cycle
             /\ then = (next + n) % Cycle
  <2>1. l + 1 \in 1 .. l + k /\ 1 \in 1 .. n
    BY <1>1
  <2>2. bytes[1] \in Plain
    BY <1>1, <1>8, <2>1 DEF PlainUpTo
  <2> QED BY <1>4, <2>2
<1>9. ASSUME NEW k \in 1 .. n, PlainUpTo(d, l + k)
      PROVE  d[l + k] = (first + (l + (k - 1))) % Cycle
  <2>1. bytes[k] = (next + k - 1) % Cycle
    BY <1>8, <1>9
  <2>2. next = (first + l) % Cycle
    <3>1. l + k \in Nat /\ l + k >= l
      BY <1>1
    <3> QED BY <1>6, <1>9, <3>1
  <2>3. k - 1 \in Nat /\ next + k - 1 = next + (k - 1)
    BY <1>1, <1>3
  <2>4. (next + (k - 1)) % Cycle = (first + (l + (k - 1))) % Cycle
    BY <1>7, <2>2, <2>3
  <2> QED BY <1>1, <2>1, <2>3, <2>4
<1>10. ASSUME NEW k \in 1 .. l + n, PlainUpTo(d, k) PROVE d[k] = (first + (k - 1)) % Cycle
  <2>1. CASE k \in 1 .. l
    BY <1>5, <1>10, <2>1
  <2>2. CASE k \notin 1 .. l
    <3> DEFINE m == k - l
    <3>1. m \in 1 .. n /\ k = l + m /\ k - 1 = l + (m - 1)
      BY <1>1, <2>2
    <3> HIDE DEF m
    <3> QED BY <1>9, <1>10, <3>1
  <2> QED BY <2>1, <2>2
<1>11. ASSUME PlainUpTo(d, l + n) PROVE then = (first + (l + n)) % Cycle
  <2>1. n \in 1 .. n /\ l + n \in Nat /\ l + n >= l
    BY <1>1
  <2>2. then = (next + n) % Cycle
    BY <1>8, <1>11, <2>1
  <2>3. next = (first + l) % Cycle
    BY <1>6, <1>11, <2>1
  <2> QED BY <1>1, <1>7, <2>2, <2>3
<1>12. Consecutive(d, then, first)
  BY <1>1, <1>10, <1>11 DEF Consecutive
<1> QED BY <1>12 DEF d

LEMMA ConsecutiveRest ==
    ASSUME NEW b \in Seq(Octets), NEW next, NEW first \in Plain,
           Consecutive(b, next, first),
           NEW n \in 0 .. Len(b), PlainUpTo(b, n),
           NEW rest \in Seq(Octets), Len(rest) = Len(b) - n,
           \A k \in 1 .. Len(rest) : rest[k] = b[n + k]
    PROVE  Consecutive(rest, next, (first + n) % Cycle)
<1> DEFINE l == Len(b)
           later == (first + n) % Cycle
<1>1. l \in Nat /\ n \in 0 .. l /\ Len(rest) = l - n
  BY LenProperties
<1>2. /\ \A k \in 1 .. l : PlainUpTo(b, k) => b[k] = (first + (k - 1)) % Cycle
      /\ PlainUpTo(b, l) => next = (first + l) % Cycle
  BY DEF Consecutive
<1>3. first \in Nat /\ Cycle \in Nat /\ Cycle > 0
  BY CycleIs
<1> HIDE DEF l
<1>4. ASSUME NEW x \in Nat PROVE (later + x) % Cycle = (first + (n + x)) % Cycle
  <2>1. first + n \in Nat
    BY <1>1, <1>3
  <2>2. (((first + n) % Cycle) + x) % Cycle = ((first + n) + x) % Cycle
    BY <1>3, <2>1, ModPlus
  <2>3. (first + n) + x = first + (n + x)
    BY <1>1, <1>3
  <2> QED BY <2>2, <2>3
<1> HIDE DEF later
<1>5. ASSUME NEW k \in 0 .. l - n, PlainUpTo(rest, k) PROVE PlainUpTo(b, n + k)
  <2> SUFFICES ASSUME NEW m \in 1 .. n + k PROVE b[m] \in Plain
    BY DEF PlainUpTo
  <2>1. CASE m <= n
    BY <1>1, <2>1 DEF PlainUpTo
  <2>2. CASE m > n
    <3> DEFINE j == m - n
    <3>1. j \in 1 .. k /\ j \in 1 .. l - n /\ m = n + j
      BY <1>1, <2>2
    <3> HIDE DEF j
    <3>2. rest[j] \in Plain
      BY <1>5, <3>1 DEF PlainUpTo
    <3> QED BY <1>1, <3>1, <3>2
  <2> QED BY <1>1, <2>1, <2>2
<1>6. ASSUME NEW k \in 1 .. l - n, PlainUpTo(rest, k) PROVE rest[k] = (later + (k - 1)) % Cycle
  <2>1. n + k \in 1 .. l /\ k \in 0 .. l - n /\ k - 1 \in Nat /\ (n + k) - 1 = n + (k - 1)
    BY <1>1
  <2>2. PlainUpTo(b, n + k)
    BY <1>5, <1>6, <2>1
  <2>3. b[n + k] = (first + (n + (k - 1))) % Cycle
    BY <1>2, <2>1, <2>2
  <2> QED BY <1>1, <1>4, <2>1, <2>3
<1>7. ASSUME PlainUpTo(rest, l - n) PROVE next = (later + (l - n)) % Cycle
  <2>1. l - n \in 0 .. l - n /\ l - n \in Nat /\ n + (l - n) = l
    BY <1>1
  <2>2. PlainUpTo(b, l)
    BY <1>5, <1>7, <2>1
  <2> QED BY <1>2, <1>4, <2>1, <2>2
<1>8. Consecutive(rest, next, later)
  BY <1>1, <1>6, <1>7 DEF Consecutive
<1> QED BY <1>8 DEF later


(* Steps that touch neither the clients' bytes nor the tunnel. *)
LEMMA KeepsInOrder ==
    ASSUME SenderInOrder, faults \subseteq faults', up' = up, Live' = Live, pc' # "data",
           UNCHANGED <<addQueue, buffers, sent, rx, tunnelOrder>>
    PROVE  InOrder'
<1>1. \A id : Continues(id) => Continues(id)'
  BY DEF Continues, Queued
<1>2. Framed => Framed'
  BY DEF Framed
<1>3. Delivering => Delivering'
  BY <1>1, <1>2 DEF Delivering
<1> QED BY <1>3 DEF SenderInOrder, InOrder

LEMMA AcceptInOrder ==
    ASSUME SenderInOrder, Accept
    PROVE  InOrder'
<1>1. SenderTables /\ InOrder /\ SenderBacked /\ ListType /\ BufferType /\ LoopType
  BY TablesParts DEF SenderInOrder, SenderBacked
<1>2. PICK fd \in Fds \ open : AddClient(fd)
  BY DEF Accept
<1>3. /\ pc = "accept" /\ pc' = "io"
      /\ buffers' = [buffers EXCEPT ![NextId] = <<>>]
      /\ addQueue' = IF Len(addQueue) < MaxClients THEN Append(addQueue, NextId) ELSE addQueue
      /\ faults' = faults \cup Fault("dropped", Len(addQueue) = MaxClients)
      /\ sent' = [sent EXCEPT ![NextId] = 0]
      /\ UNCHANGED <<rx, tunnelOrder>>
  BY DEF Accept, ringVars
<1>4. up
  BY <1>1, <1>3, TablesParts
<1>5. /\ NextId \in Ids /\ NextId \notin Live /\ Live' = Live \cup {NextId} /\ up' = up
  BY <1>1, <1>2, <1>4, AddClientEffect, TablesParts
<1> SUFFICES ASSUME faults' = {} PROVE Delivering'
  BY <1>4, <1>5 DEF InOrder
<1> DEFINE new == NextId
<1>6. faults = {} /\ Len(addQueue) # MaxClients
  BY <1>3 DEF Fault
<1>7. Delivering
  BY <1>1, <1>4, <1>6 DEF InOrder
<1>8. addQueue \in Seq(Ids) /\ Len(addQueue) \in 0 .. MaxClients
  BY <1>1, LenProperties DEF ListType
<1>9. addQueue' = Append(addQueue, new)
  BY <1>3, <1>6, <1>8, NumbersOK
<1>10. new \in Ids /\ new \notin Live /\ Live' = Live \cup {new}
  BY <1>5
<1>11. /\ \A id \in Ids : buffers'[id] = IF id = new THEN <<>> ELSE buffers[id]
       /\ \A id \in Ids : sent'[id] = IF id = new THEN 0 ELSE sent[id]
  BY <1>1, <1>3 DEF BufferType, LoopType
<1> HIDE DEF new
<1>12. Queued' = Queued \cup {new}
  <2>1. /\ Len(Append(addQueue, new)) = Len(addQueue) + 1
        /\ \A k \in 1 .. Len(addQueue) : Append(addQueue, new)[k] = addQueue[k]
        /\ Append(addQueue, new)[Len(addQueue) + 1] = new
    BY <1>8, <1>10, AppendProperties
  <2> DEFINE l == Len(addQueue)
  <2>2. l \in Nat
    BY <1>8
  <2>3. /\ Len(addQueue') = l + 1 /\ \A k \in 1 .. l : addQueue'[k] = addQueue[k]
        /\ addQueue'[l + 1] = new
    BY <1>9, <2>1
  <2>4. Queued = {addQueue[k] : k \in 1 .. l} /\ Queued' = {addQueue'[k] : k \in 1 .. l + 1}
    BY <2>3 DEF Queued
  <2> HIDE DEF l
  <2>5. 1 .. l + 1 = (1 .. l) \cup {l + 1}
    BY <2>2
  <2> QED BY <2>3, <2>4, <2>5
<1>13. ASSUME NEW id \in Live' PROVE Continues(id)'
  <2>1. CASE id = new
    <3>1. 0 \in Plain
      BY CycleIs
    <3>2. Consecutive(<<>>, 0, 0)
      BY <3>1, ConsecutiveEmpty
    <3>3. Consecutive(buffers'[id], sent'[id], 0)
      BY <1>10, <1>11, <2>1, <3>2
    <3>4. id \in Queued'
      BY <1>12, <2>1
    <3> QED BY <3>3, <3>4 DEF Continues, Consecutive, PlainUpTo
  <2>2. CASE id # new
    <3>1. id \in Live /\ id \in Ids
      BY <1>10, <2>2 DEF Live
    <3>2. Continues(id)
      BY <1>7, <3>1 DEF Delivering
    <3>3. buffers'[id] = buffers[id] /\ sent'[id] = sent[id] /\ rx' = rx
          /\ (id \in Queued' <=> id \in Queued)
      BY <1>3, <1>11, <1>12, <2>2, <3>1
    <3> QED BY <3>2, <3>3 DEF Continues, Consecutive, PlainUpTo
  <2> QED BY <2>1, <2>2
<1>14. Framed'
  BY <1>3, <1>7 DEF Delivering, Framed
<1> QED BY <1>3, <1>13, <1>14 DEF Delivering

LEMMA ClientReadsInOrder ==
    ASSUME SenderInOrder, ClientReads
    PROVE  InOrder'
<1>1. SenderTables /\ InOrder /\ BufferType /\ LoopType
  BY TablesParts DEF SenderInOrder, SenderBacked
<1> DEFINE me == Current
<1>2. PICK bytes \in Seq(Octets) :
              /\ Len(bytes) > 0
              /\ buffers' = [buffers EXCEPT ![me] = buffers[me] \o bytes]
              /\ \/ /\ \A k \in 1 .. Len(bytes) : bytes[k] = (sent[me] + k - 1) % Cycle
                    /\ \A k \in 1 .. Len(bytes) : bytes[k] \in Plain
                    /\ sent' = [sent EXCEPT ![me] = (sent[me] + Len(bytes)) % Cycle]
                 \/ Len(bytes) = 1 /\ bytes[1] \notin Plain /\ sent' = sent
  BY <1>1, ClientReadsEffect
<1>3. /\ up /\ pc' = pc /\ pc = "io" /\ me \in Ids
      /\ UNCHANGED <<addQueue, tunnelOrder, faults, rx>>
  BY <1>1, IoStep DEF ClientReads, ringVars
<1>4. up' = up /\ Live' = Live
  BY DEF ClientReads, registryVars, Live, IsValidId
<1> SUFFICES ASSUME faults = {} PROVE Delivering'
  BY <1>1, <1>3, <1>4 DEF InOrder
<1>5. Delivering
  BY <1>1, <1>3 DEF InOrder
<1> HIDE DEF me
<1>6. Queued' = Queued /\ Framed'
  BY <1>3, <1>5 DEF Queued, Delivering, Framed
<1>7. \A id \in Ids : id # me => buffers'[id] = buffers[id] /\ sent'[id] = sent[id]
  BY <1>1, <1>2, <1>3 DEF BufferType, LoopType
<1>8. ASSUME NEW first \in Plain, Consecutive(buffers[me], sent[me], first)
      PROVE  Consecutive(buffers'[me], sent'[me], first)
  <2>1. buffers'[me] = buffers[me] \o bytes /\ buffers[me] \in Seq(Octets) /\ sent[me] \in Plain
    BY <1>1, <1>2, <1>3 DEF BufferType, LoopType
  <2>2. \/ /\ \A k \in 1 .. Len(bytes) : bytes[k] = (sent[me] + k - 1) % Cycle
           /\ sent'[me] = (sent[me] + Len(bytes)) % Cycle
        \/ Len(bytes) = 1 /\ bytes[1] \notin Plain /\ sent'[me] = sent[me]
    BY <1>1, <1>2, <1>3 DEF LoopType
  <2> DEFINE then == sent'[me]
             b == buffers[me]
             next == sent[me]
  <2>3. Len(bytes) > 0
    BY <1>2
  <2>4. b \in Seq(Octets) /\ next \in Plain /\ Consecutive(b, next, first)
        /\ \/ /\ \A k \in 1 .. Len(bytes) : bytes[k] = (next + k - 1) % Cycle
              /\ then = (next + Len(bytes)) % Cycle
           \/ Len(bytes) = 1 /\ bytes[1] \notin Plain /\ then = next
    BY <1>8, <2>1, <2>2
  <2>5. buffers'[me] = b \o bytes
    BY <2>1
  <2> HIDE DEF then, b, next
  <2>6. Consecutive(b \o bytes, then, first)
    BY <2>3, <2>4, ConsecutiveAppended
  <2> QED BY <2>5, <2>6 DEF then
<1>9. ASSUME NEW id \in Live PROVE Continues(id)'
  <2>1. Continues(id) /\ id \in Ids
    BY <1>5 DEF Delivering, Live
  <2>2. rx' = rx /\ (id \in Queued' <=> id \in Queued)
    BY <1>3, <1>6
  <2>3. CASE id # me
    <3>1. buffers'[id] = buffers[id] /\ sent'[id] = sent[id]
      BY <1>7, <2>1, <2>3
    <3> QED BY <2>1, <2>2, <3>1 DEF Continues, Consecutive, PlainUpTo
  <2>4. CASE id = me
    <3>1. 0 \in Plain /\ rx.next[id] \in Plain
      <4>1. rx.next \in [Ids -> Plain]
        BY <1>5, RxIs DEF Delivering, Framed
      <4> QED BY <2>1, <4>1, CycleIs
    <3>2. CASE id \in Queued
      <4>1. Consecutive(buffers'[me], sent'[me], 0)
        BY <1>8, <2>1, <2>4, <3>1, <3>2 DEF Continues
      <4> QED BY <2>2, <2>4, <3>2, <4>1 DEF Continues, Consecutive, PlainUpTo
    <3>3. CASE id \notin Queued
      <4>1. id \in rx.known /\ Consecutive(buffers'[me], sent'[me], rx.next[id])
        BY <1>8, <2>1, <2>4, <3>1, <3>3 DEF Continues
      <4> QED BY <2>2, <2>4, <3>3, <4>1 DEF Continues, Consecutive, PlainUpTo
    <3> QED BY <3>2, <3>3
  <2> QED BY <2>3, <2>4
<1> QED BY <1>3, <1>4, <1>6, <1>9 DEF Delivering

(* A control message that was put leaves the far end in a control frame. *)
LEMMA ControlDelivered ==
    ASSUME Framed, NEW op \in {CLIENT_ADD, CLIENT_REMOVE}, NEW id \in Ids,
           ControlMessage(op, id), faults' = {}, ~ReservedByte(id)
    PROVE  /\ Framed'
           /\ rx'.known = IF op = CLIENT_ADD THEN rx.known \cup {id} ELSE rx.known \ {id}
           /\ \A x \in Ids : rx'.next[x] = IF x = id THEN 0 ELSE rx.next[x]
<1> DEFINE known == IF op = CLIENT_ADD THEN rx.known \cup {id} ELSE rx.known \ {id}
           next == [rx.next EXCEPT ![id] = 0]
<1>1. tunnelOrder' = CONTROL_ORDER /\ rx' = Folded(Receive, rx, ControlBytes(op, id))
  BY DEF ControlMessage, Put
<1>2. rx' = Rx("frame", CONTROL_ORDER, known, next)
  BY <1>1, ControlReceived
<1>3. /\ rx.known \in SUBSET Octets /\ rx.next \in [Ids -> Plain] /\ id \in Octets /\ 0 \in Plain
  BY RxIs, OctetsOK, CycleIs DEF Framed
<1>4. known \in SUBSET Octets /\ next \in [Ids -> Plain]
      /\ \A x \in Ids : next[x] = IF x = id THEN 0 ELSE rx.next[x]
  BY <1>3
<1>5. known = IF op = CLIENT_ADD THEN rx.known \cup {id} ELSE rx.known \ {id}
  OBVIOUS
<1> HIDE DEF known, next
<1>6. /\ rx'.phase = "frame" /\ rx'.order = CONTROL_ORDER /\ rx'.known = known /\ rx'.next = next
  BY <1>2 DEF Rx
<1>7. rx' \in RxStates
  <2>1. CONTROL_ORDER \in Octets
    BY DEF CONTROL_ORDER, Octets
  <2> QED BY <1>2, <1>4, <2>1 DEF Rx, RxStates
<1>8. Framed'
  BY <1>1, <1>6, <1>7 DEF Framed, CONTROL_ORDER, NO_ORDER
<1> QED BY <1>4, <1>5, <1>6, <1>8

LEMMA RemoveEmptyInOrder ==
    ASSUME SenderInOrder, RemoveEmpty
    PROVE  InOrder'
<1>1. SenderTables /\ InOrder /\ BufferType /\ LoopType
  BY TablesParts DEF SenderInOrder, SenderBacked
<1>2. PICK k, id, victim : Removal(k, id, victim)
  BY <1>1, RemovalIs
<1>3. /\ pc' = pc /\ pc = "fill" /\ faults \subseteq faults' /\ id \in Ids
      /\ buffers[id] = <<>> /\ buffers' = [buffers EXCEPT ![victim] = <<>>]
      /\ ControlMessage(CLIENT_REMOVE, id) /\ UNCHANGED <<addQueue, sent>>
      /\ "reservedId" \notin faults' => ~ReservedByte(id)
  BY <1>2 DEF Removal
<1>4. up /\ up' = up
  <2>1. up
    BY <1>1, <1>3, TablesParts
  <2>2. SenderTables' /\ pc' # "exit"
    BY <1>1, <1>3, RemoveEmptyTables
  <2>3. (up <=> pc # "exit")'
    BY <2>2, TablesParts, PTL
  <2>4. up' <=> pc' # "exit"
    BY <2>3
  <2>5. up \in BOOLEAN /\ up' \in BOOLEAN
    <3>1. RegistryInv /\ RegistryInv'
      BY <1>1, <2>2, TablesParts, PTL
    <3> QED BY <3>1 DEF RegistryInv, RegistryTypeOK
  <2> QED BY <2>1, <2>2, <2>4, <2>5
<1> SUFFICES ASSUME faults' = {} PROVE Delivering'
  BY <1>4 DEF InOrder
<1>5. Delivering
  BY <1>1, <1>3, <1>4 DEF InOrder
<1>6. id = k /\ victim = k /\ Live' = Live \ {k}
  BY <1>1, <1>2, ListAfterRemoval
<1>7. buffers' = buffers
  BY <1>1, <1>3, <1>6 DEF BufferType
<1>8. /\ Framed'
      /\ rx'.known = rx.known \ {id}
      /\ \A x \in Ids : rx'.next[x] = IF x = id THEN 0 ELSE rx.next[x]
  <2>1. CLIENT_REMOVE \in {CLIENT_ADD, CLIENT_REMOVE} /\ CLIENT_REMOVE # CLIENT_ADD
    BY DEF CLIENT_ADD, CLIENT_REMOVE
  <2>2. Framed
    BY <1>5 DEF Delivering
  <2> QED BY <1>3, <2>1, <2>2, ControlDelivered
<1>9. ASSUME NEW x \in Live' PROVE Continues(x)'
  <2>1. x \in Live /\ x \in Ids /\ x # id
    BY <1>6 DEF Live
  <2>2. Continues(x)
    BY <1>5, <2>1 DEF Delivering
  <2>3. /\ rx'.next[x] = rx.next[x] /\ (x \in rx.known => x \in rx'.known)
        /\ Queued' = Queued
    BY <1>3, <1>8, <2>1 DEF Queued
  <2> QED BY <1>3, <1>7, <2>2, <2>3 DEF Continues, Consecutive, PlainUpTo
<1> QED BY <1>3, <1>8, <1>9 DEF Delivering

LEMMA AnnounceInOrder ==
    ASSUME SenderInOrder, Announce
    PROVE  InOrder'
<1>1. SenderTables /\ InOrder /\ ListType
  BY TablesParts DEF SenderInOrder, SenderBacked
<1> DEFINE new == Head(addQueue)
<1>2. /\ pc = "fill" /\ pc' = pc /\ addQueue # <<>>
      /\ faults \subseteq faults' /\ ControlMessage(CLIENT_ADD, new)
      /\ "reservedId" \notin faults' => ~ReservedByte(new)
      /\ addQueue' = Tail(addQueue)
      /\ UNCHANGED <<registryVars, buffers, sent>>
  BY DEF Announce, bufferVars, ControlFaults, ReservedId, Fault
<1>3. up' = up /\ Live' = Live /\ up
  BY <1>1, <1>2, TablesParts DEF registryVars, Live, IsValidId
<1> SUFFICES ASSUME faults' = {} PROVE Delivering'
  BY <1>3 DEF InOrder
<1>4. Delivering
  BY <1>1, <1>2, <1>3 DEF InOrder
<1>5. addQueue \in Seq(Ids) /\ Len(addQueue) \in Nat
  BY <1>1, LenProperties DEF ListType
<1>6. /\ new \in Ids /\ Len(Tail(addQueue)) = Len(addQueue) - 1 /\ new = addQueue[1]
      /\ \A k \in 1 .. Len(Tail(addQueue)) : Tail(addQueue)[k] = addQueue[k + 1]
  BY <1>2, <1>5, HeadTailProperties
<1>7. Queued = {new} \cup Queued'
  <2> DEFINE l == Len(addQueue)
  <2>1. l \in Nat /\ l > 0
    BY <1>2, <1>5, EmptySeq
  <2>2. Queued = {addQueue[k] : k \in 1 .. l}
    BY DEF Queued
  <2>3. Queued' = {addQueue[k + 1] : k \in 1 .. l - 1}
    BY <1>2, <1>6 DEF Queued
  <2> HIDE DEF l
  <2>4. ASSUME NEW k \in 1 .. l PROVE addQueue[k] \in {new} \cup Queued'
    <3>1. CASE k = 1
      BY <1>6, <3>1
    <3>2. CASE k # 1
      <4> DEFINE j == k - 1
      <4>1. j \in 1 .. l - 1 /\ j + 1 = k
        BY <2>1, <3>2
      <4> HIDE DEF j
      <4> QED BY <2>3, <4>1
    <3> QED BY <3>1, <3>2
  <2>5. new \in Queued
    <3>1. 1 \in 1 .. l
      BY <2>1
    <3> QED BY <1>6, <2>2, <3>1
  <2>6. ASSUME NEW k \in 1 .. l - 1 PROVE addQueue[k + 1] \in Queued
    <3>1. k + 1 \in 1 .. l
      BY <2>1
    <3> QED BY <2>2, <3>1
  <2> QED BY <2>2, <2>3, <2>4, <2>5, <2>6
<1> HIDE DEF new
<1>8. /\ Framed'
      /\ rx'.known = rx.known \cup {new}
      /\ \A x \in Ids : rx'.next[x] = IF x = new THEN 0 ELSE rx.next[x]
  <2>1. CLIENT_ADD \in {CLIENT_ADD, CLIENT_REMOVE}
    OBVIOUS
  <2>2. Framed
    BY <1>4 DEF Delivering
  <2> QED BY <1>2, <1>6, <2>1, <2>2, ControlDelivered
<1>9. ASSUME NEW x \in Live PROVE Continues(x)'
  <2>1. Continues(x) /\ x \in Ids
    BY <1>4 DEF Delivering, Live
  <2>2. CASE x \in Queued'
    <3>1. Consecutive(buffers[x], sent[x], 0)
      BY <1>7, <2>1, <2>2 DEF Continues
    <3> QED BY <1>2, <2>2, <3>1 DEF Continues, Consecutive, PlainUpTo
  <2>3. CASE x \notin Queued' /\ x = new
    <3>1. Consecutive(buffers[x], sent[x], 0) /\ rx'.next[x] = 0 /\ x \in rx'.known
      BY <1>7, <1>8, <2>1, <2>3 DEF Continues
    <3> QED BY <1>2, <2>3, <3>1 DEF Continues, Consecutive, PlainUpTo
  <2>4. CASE x \notin Queued' /\ x # new
    <3>1. /\ Consecutive(buffers[x], sent[x], rx.next[x]) /\ rx'.next[x] = rx.next[x]
          /\ x \in rx'.known
      BY <1>7, <1>8, <2>1, <2>4 DEF Continues
    <3> QED BY <1>2, <2>4, <3>1 DEF Continues, Consecutive, PlainUpTo
  <2> QED BY <2>2, <2>3, <2>4
<1> QED BY <1>2, <1>3, <1>8, <1>9 DEF Delivering


(* What a frame of data does at the far end. *)
LEMMA EncapsulatedDelivered ==
    ASSUME SenderTables, EncapsulateData, Framed, faults' = {}, TurnId \in rx.known,
           NEW next, Consecutive(buffers[TurnId], next, rx.next[TurnId])
    PROVE  /\ Framed'
           /\ rx'.known = rx.known
           /\ \A x \in Ids : rx'.next[x] = IF x = TurnId THEN (rx.next[TurnId] + Taken) % Cycle
                                           ELSE rx.next[x]
           /\ PlainUpTo(buffers[TurnId], Taken)
<1>1. ListType /\ BufferType /\ TunnelType /\ LoopType
  BY TablesParts
<1>2. /\ TurnOrder # NO_ORDER /\ TurnCount <= Len(buffers[TurnId]) /\ HeaderFits
      /\ faults' = faults \cup ReservedId(TurnId) \cup
            Fault("reserved", \E k \in 1 .. TurnCount : buffers[TurnId][k] \notin Plain)
      /\ Put(Encapsulated) /\ tunnelOrder' = TurnId
  BY EncapsulateStep
<1>0. ~ReservedByte(TurnId)
  BY <1>2 DEF ReservedId, Fault
<1>3. \A k \in 1 .. TurnCount : buffers[TurnId][k] \in Plain
  BY <1>2 DEF Fault
<1>4. /\ Message \in Seq(Octets) /\ Len(Message) = TurnCount
      /\ \A k \in 1 .. TurnCount : Message[k] = buffers[TurnId][k]
      /\ Taken \in 0 .. TurnCount
      /\ Encapsulated \in Seq(Octets)
      /\ Len(Encapsulated) = Len(Header) + Taken
      /\ \A k \in 1 .. Len(Header) : Encapsulated[k] = Header[k]
      /\ \A k \in 1 .. Taken : Encapsulated[Len(Header) + k] = Escaped(Message)[k]
  BY <1>1, <1>2, EncapsulatedFits
<1>5. /\ TurnId \in Ids /\ TurnCount \in Nat /\ Taken \in Nat
      /\ Len(buffers[TurnId]) \in Nat
  BY <1>4, EncapsulateLeaves
<1>6. Escaped(Message) = Message
  BY <1>3, <1>4, EscapedPlain
<1>7. PlainUpTo(buffers[TurnId], Taken)
  <2>1. \A k \in 1 .. Taken : k \in 1 .. TurnCount
    BY <1>4, <1>5
  <2> QED BY <1>3, <2>1 DEF PlainUpTo
<1>8. \A k \in 1 .. Taken : Encapsulated[Len(Header) + k] = (rx.next[TurnId] + k - 1) % Cycle
  <2> SUFFICES ASSUME NEW k \in 1 .. Taken
               PROVE  Encapsulated[Len(Header) + k] = (rx.next[TurnId] + k - 1) % Cycle
    OBVIOUS
  <2>1. k \in 1 .. TurnCount /\ k \in 1 .. Len(buffers[TurnId])
    BY <1>2, <1>4, <1>5
  <2>2. PlainUpTo(buffers[TurnId], k)
    <3>1. \A m \in 1 .. k : m \in 1 .. TurnCount
      BY <2>1, <1>5
    <3> QED BY <1>3, <3>1 DEF PlainUpTo
  <2>3. buffers[TurnId][k] = (rx.next[TurnId] + (k - 1)) % Cycle
    BY <2>1, <2>2 DEF Consecutive
  <2>4. rx.next[TurnId] \in Nat
    BY <1>5, RxIs, CycleIs DEF Framed
  <2>5. rx.next[TurnId] + (k - 1) = rx.next[TurnId] + k - 1
    BY <2>4
  <2> QED BY <1>4, <1>6, <2>1, <2>3, <2>5
<1> DEFINE later == [rx.next EXCEPT ![TurnId] = (rx.next[TurnId] + Taken) % Cycle]
<1>9. Folded(Receive, rx, Encapsulated) = Rx("frame", TurnId, rx.known, later)
  <2>1. Header = IF tunnelOrder = TurnId THEN <<>> ELSE OrderHeader(TurnId)
    BY DEF Header
  <2> DEFINE me == TurnId
             header == Header
             bytes == Encapsulated
             n == Taken
  <2>2. /\ ~ReservedByte(me) /\ me \in Ids /\ me \in rx.known /\ n \in Nat
        /\ header = IF tunnelOrder = me THEN <<>> ELSE OrderHeader(me)
        /\ bytes \in Seq(Octets) /\ Len(bytes) = Len(header) + n
    BY <1>0, <1>4, <1>5, <2>1
  <2>3. \A k \in 1 .. Len(header) : bytes[k] = header[k]
    BY <1>4
  <2>4. \A k \in 1 .. n : bytes[Len(header) + k] = (rx.next[me] + k - 1) % Cycle
    BY <1>8
  <2> HIDE DEF me, header, bytes, n
  <2>5. DataFrame(me, header, n, bytes)
    BY <2>2, <2>3, <2>4 DEF DataFrame
  <2>6. Folded(Receive, rx, bytes) =
           Rx("frame", me, rx.known, [rx.next EXCEPT ![me] = (rx.next[me] + n) % Cycle])
    BY <2>2, <2>5, DataReceived
  <2> QED BY <2>6 DEF me, bytes, n
<1>10. rx' = Rx("frame", TurnId, rx.known, later)
  BY <1>2, <1>9 DEF Put
<1>11. /\ rx.known \in SUBSET Octets /\ rx.next \in [Ids -> Plain] /\ TurnId \in Octets
  BY <1>5, RxIs, OctetsOK DEF Framed
<1>12. (rx.next[TurnId] + Taken) % Cycle \in Plain
  BY <1>5, <1>11, CycleIs, ModType
<1>13. /\ later \in [Ids -> Plain]
       /\ \A x \in Ids : later[x] = IF x = TurnId THEN (rx.next[TurnId] + Taken) % Cycle
                                    ELSE rx.next[x]
  BY <1>5, <1>11, <1>12
<1> HIDE DEF later
<1>14. /\ rx'.phase = "frame" /\ rx'.order = TurnId /\ rx'.known = rx.known
       /\ rx'.next = later
  BY <1>10 DEF Rx
<1>15. rx' \in RxStates
  BY <1>10, <1>11, <1>13 DEF Rx, RxStates
<1>16. Framed'
  <2>1. TurnId # NO_ORDER
    BY <1>5 DEF Ids, NO_ORDER
  <2> QED BY <1>2, <1>14, <1>15, <2>1 DEF Framed
<1> QED BY <1>7, <1>13, <1>14, <1>16

LEMMA EncapsulateInOrder ==
    ASSUME SenderInOrder, EncapsulateData
    PROVE  InOrder'
<1>1. SenderTables /\ InOrder /\ SenderBacked /\ BufferType /\ LoopType
  BY TablesParts DEF SenderInOrder, SenderBacked
<1>2. /\ ControlSent /\ TurnOrder # NO_ORDER
      /\ faults \subseteq faults' /\ UNCHANGED <<registryVars, addQueue, sent>>
  BY <1>1, EncapsulateStep DEF tsVars
<1>3. up' = up /\ Live' = Live /\ up
  <2>1. pc # "exit"
    BY <1>2 DEF ControlSent
  <2> QED BY <1>1, <1>2, <2>1, TablesParts DEF registryVars, Live, IsValidId
<1> SUFFICES ASSUME faults' = {} PROVE Delivering'
  BY <1>3 DEF InOrder
<1>4. Delivering /\ faults = {}
  BY <1>1, <1>2, <1>3 DEF InOrder
<1> DEFINE me == TurnId
<1>5. me \in Live /\ me \in Ids
  <2>1. Undisturbed
    BY <1>4 DEF Undisturbed
  <2>2. TurnOrder \in 0 .. tsCount - 1
    BY <1>1, <1>2, <2>1, TurnBacked
  <2>3. me \in Listed
    BY <2>2 DEF Listed, TurnId
  <2>4. me \in Live
    BY <1>1, <1>3, <2>1, <2>3, UndisturbedList
  <2> QED BY <2>4 DEF Live
<1>6. addQueue = <<>>
  BY <1>2, <1>4 DEF ControlSent, Delivering
<1>7. Queued = {} /\ Queued' = {}
  BY <1>2, <1>6, EmptySeq DEF Queued
<1>8. me \in rx.known /\ Consecutive(buffers[me], sent[me], rx.next[me])
  BY <1>4, <1>5, <1>7 DEF Delivering, Continues
<1>9. /\ Framed'
      /\ rx'.known = rx.known
      /\ \A x \in Ids : rx'.next[x] = IF x = me THEN (rx.next[me] + Taken) % Cycle
                                      ELSE rx.next[x]
      /\ PlainUpTo(buffers[me], Taken)
  BY <1>1, <1>4, <1>8, EncapsulatedDelivered DEF Delivering
<1>10. /\ buffers' = [buffers EXCEPT ![me] = buffers'[me]]
       /\ buffers'[me] \in Seq(Octets)
       /\ Len(buffers'[me]) = Len(buffers[me]) - Taken
       /\ \A k \in 1 .. Len(buffers'[me]) : buffers'[me][k] = buffers[me][Taken + k]
       /\ Taken \in 0 .. Len(buffers[me])
  BY <1>1, EncapsulateLeaves
<1>11. buffers[me] \in Seq(Octets) /\ rx.next[me] \in Plain
  <2>1. rx.next \in [Ids -> Plain]
    BY <1>4, RxIs DEF Delivering, Framed
  <2> QED BY <1>1, <1>5, <2>1 DEF BufferType
<1> HIDE DEF me
<1>12. Consecutive(buffers'[me], sent[me], (rx.next[me] + Taken) % Cycle)
  <2> DEFINE rest == buffers'[me]
             b == buffers[me]
  <2>1. /\ b \in Seq(Octets) /\ Taken \in 0 .. Len(b) /\ rest \in Seq(Octets)
        /\ Len(rest) = Len(b) - Taken /\ \A k \in 1 .. Len(rest) : rest[k] = b[Taken + k]
        /\ Consecutive(b, sent[me], rx.next[me]) /\ PlainUpTo(b, Taken)
    BY <1>8, <1>9, <1>10, <1>11
  <2> HIDE DEF rest, b
  <2>2. Consecutive(rest, sent[me], (rx.next[me] + Taken) % Cycle)
    BY <1>11, <2>1, ConsecutiveRest
  <2> QED BY <2>2 DEF rest
<1>13. ASSUME NEW x \in Live PROVE Continues(x)'
  <2>1. x \in Ids /\ Continues(x) /\ x \notin Queued /\ x \notin Queued'
    BY <1>4, <1>7 DEF Delivering, Live
  <2>2. x \in rx'.known /\ Consecutive(buffers[x], sent[x], rx.next[x])
    BY <1>9, <2>1 DEF Continues
  <2>3. CASE x = me
    <3>1. Consecutive(buffers'[x], sent[x], rx'.next[x])
      BY <1>5, <1>9, <1>12, <2>3
    <3> QED BY <1>2, <2>1, <2>2, <3>1 DEF Continues, Consecutive, PlainUpTo
  <2>4. CASE x # me
    <3>1. buffers'[x] = buffers[x] /\ rx'.next[x] = rx.next[x]
      BY <1>1, <1>9, <1>10, <2>1, <2>4 DEF BufferType
    <3> QED BY <1>2, <2>1, <2>2, <3>1 DEF Continues, Consecutive, PlainUpTo
  <2> QED BY <2>3, <2>4
<1> QED BY <1>2, <1>3, <1>6, <1>9, <1>13 DEF Delivering

LEMMA StepInOrder ==
    ASSUME SenderInOrder, [Next]_vars
    PROVE  InOrder'
<1> DEFINE Quiet == /\ faults \subseteq faults' /\ up' = up /\ Live' = Live /\ pc' # "data"
                    /\ UNCHANGED <<addQueue, buffers, sent, rx, tunnelOrder>>
<1>1. CASE Poll
  BY <1>1, KeepsInOrder DEF Poll, PollClients, tsVars, ringVars, bufferVars, Live, IsValidId
<1>2. CASE Accept BY <1>2, AcceptInOrder
<1>3. CASE Refuse \/ AcceptFails \/ IoEnd \/ FillStops \/ NothingToSend \/ DataUndefined
              \/ NoRoomForData
  <2>1. Quiet
    BY <1>3 DEF Refuse, AcceptFails, IoEnd, FillStops, NothingToSend, DataUndefined,
                NoRoomForData, registryVars, tsVars, ringVars, bufferVars, Live, IsValidId
  <2> QED BY <2>1, KeepsInOrder
<1>4. CASE ClientPasses \/ ClientEnds
  <2>1. /\ pc = "io" /\ pc' = pc /\ faults' = faults
        /\ UNCHANGED <<addQueue, buffers, sent, rx, tunnelOrder>>
    BY <1>4 DEF ClientPasses, ClientEnds, IoGuard, IoNext, ringVars
  <2>2. UNCHANGED <<idTable, up>>
    BY <1>4 DEF ClientPasses, ClientEnds, TsRemoveClient, DisconnectClient, registryVars
  <2>3. Live' = Live
    BY <2>2 DEF Live, IsValidId
  <2> QED BY <2>1, <2>2, <2>3, KeepsInOrder
<1>5. CASE ClientReads BY <1>5, ClientReadsInOrder
<1>6. CASE RemoveEmpty BY <1>6, RemoveEmptyInOrder
<1>7. CASE Announce BY <1>7, AnnounceInOrder
<1>8. CASE EncapsulateData BY <1>8, EncapsulateInOrder
<1>9. CASE TpbSend(TRUE) \/ TpbSend(FALSE)
  BY <1>9, KeepsInOrder DEF TpbSend, registryVars, tsVars, bufferVars, Live, IsValidId
<1>10. CASE Interrupt
  BY <1>10 DEF Interrupt, SafeCleanup, InOrder, RxInit
<1>11. CASE UNCHANGED vars
  <2>1. /\ faults' = faults /\ up' = up /\ Live' = Live /\ pc' = pc
        /\ UNCHANGED <<addQueue, buffers, sent, rx, tunnelOrder>>
    BY <1>11 DEF vars, registryVars, tsVars, ringVars, bufferVars, Live, IsValidId
  <2>2. (\A id : Continues(id) => Continues(id)') /\ (Framed => Framed')
    BY <2>1 DEF Continues, Queued, Framed
  <2> QED BY <2>1, <2>2 DEF SenderInOrder, InOrder, Delivering
<1> QED
  BY <1>1, <1>2, <1>3, <1>4, <1>5, <1>6, <1>7, <1>8, <1>9, <1>10, <1>11 DEF Next, Loop, Stopped

LEMMA InOrderHolds == Spec => []SenderInOrder
<1>1. Init => SenderInOrder
  <2> SUFFICES ASSUME Init PROVE InOrder
    BY InitTables DEF SenderInOrder, SenderBacked, Backed, Init
  <2>1. rx = RxInit /\ tunnelOrder = NO_ORDER /\ addQueue = <<>> /\ pc = "poll"
    BY DEF Init
  <2>2. Live = {}
    BY DEF Init, RegistryInit, Live, IsValidId
  <2>3. 0 \in Plain
    BY CycleIs
  <2>4. rx \in RxStates /\ rx.phase = "idle"
    BY <2>1, <2>3 DEF RxInit, RxStates
  <2> QED BY <2>1, <2>2, <2>4 DEF InOrder, Delivering, Framed
<1>2. SenderInOrder /\ [Next]_vars => SenderInOrder'
  BY StepTables, StepBacked, StepInOrder DEF SenderInOrder, SenderBacked
<1> QED BY <1>1, <1>2, PTL DEF Spec

(* What the encoder puts into the ring parses at the far end: no byte of a *)
(* client arrives out of order, twice, in another client's frame or before *)
(* its announcement, for every size of ring and buffers and wherever a     *)
(* full ring cuts a message, until one of the gaps is met.                 *)
THEOREM TheFarEndGetsAll == Spec => []DeliveredInOrder
<1>1. SenderInOrder => DeliveredInOrder
  <2> SUFFICES ASSUME SenderInOrder, faults = {} PROVE rx.phase # "garbled"
    BY DEF DeliveredInOrder
  <2>1. up \in BOOLEAN
    BY TablesParts DEF SenderInOrder, SenderBacked, RegistryInv, RegistryTypeOK
  <2>2. CASE up
    BY <2>2 DEF SenderInOrder, InOrder, Delivering, Framed
  <2>3. CASE ~up
    BY <2>3 DEF SenderInOrder, InOrder
  <2> QED BY <2>1, <2>2, <2>3
<1> QED BY <1>1, InOrderHolds, PTL

-----------------------------------------------------------------------------
(* The message codec: more about recursions over a sequence.               *)

(* A function that starts as the run and goes on with the same steps as    *)
(* long as it stays in A is that run.                                      *)
Follows(h, n, A, a, g) ==
    /\ h[0] = a
    /\ \A k \in 1 .. n : h[k - 1] \in A => h[k] = g[<<k, h[k - 1]>>]

LEMMA RunUnique ==
    ASSUME NEW n \in Nat, NEW A, NEW a, NEW g, NEW f, NEW h,
           RunOf(f, n, A, a, g), Follows(h, n, A, a, g)
    PROVE  \A k \in 0 .. n : h[k] = f[k]
<1> DEFINE Wrong == {k \in 0 .. n : h[k] # f[k]}
<1> SUFFICES ASSUME Wrong # {} PROVE FALSE
  OBVIOUS
<1>1. PICK k \in Wrong : \A x \in Wrong : k <= x
  <2>1. Wrong \in SUBSET Nat
    OBVIOUS
  <2> HIDE DEF Wrong
  <2> QED BY <2>1, LeastOf
<1>2. k # 0
  BY <1>1 DEF RunOf, Follows
<1>3. k - 1 \in 0 .. n /\ k \in 1 .. n /\ ~(k <= k - 1)
  BY <1>1, <1>2
<1>4. h[k - 1] = f[k - 1]
  BY <1>1, <1>3
<1>5. f[k - 1] \in A
  BY <1>3 DEF RunOf
<1>6. h[k] = g[<<k, h[k - 1]>>] /\ f[k] = g[<<k, f[k - 1]>>]
  BY <1>3, <1>4, <1>5 DEF RunOf, Follows
<1> QED BY <1>1, <1>4, <1>6

(* What a run starts in and no step leaves, it never leaves. *)
LEMMA RunStays ==
    ASSUME NEW n \in Nat, NEW f, NEW G, f[0] \in G,
           \A k \in 1 .. n : f[k - 1] \in G => f[k] \in G
    PROVE  \A k \in 0 .. n : f[k] \in G
<1> DEFINE Wrong == {k \in 0 .. n : f[k] \notin G}
<1> SUFFICES ASSUME Wrong # {} PROVE FALSE
  OBVIOUS
<1>1. PICK k \in Wrong : \A x \in Wrong : k <= x
  <2>1. Wrong \in SUBSET Nat
    OBVIOUS
  <2> HIDE DEF Wrong
  <2> QED BY <2>1, LeastOf
<1>2. k # 0
  BY <1>1
<1>3. k - 1 \in 0 .. n /\ k \in 1 .. n /\ ~(k <= k - 1)
  BY <1>1, <1>2
<1>4. f[k - 1] \in G
  BY <1>1, <1>3
<1> QED BY <1>1, <1>3, <1>4

-----------------------------------------------------------------------------
(* What a stream of bytes means.                                           *)
Decodings ==
    [escape : BOOLEAN, started : BOOLEAN, orderGot : BOOLEAN, order : Char,
     out : Seq(Char \X Char)]

Decoded(d, s) == Folded(Meaning, d, s)

LEMMA MeaningType ==
    ASSUME NEW d \in Decodings, NEW c \in Char
    PROVE  Meaning(d, c) \in Decodings
<1>1. <<d.order, c>> \in Char \X Char
  BY DEF Decodings
<1>2. Append(d.out, <<d.order, c>>) \in Seq(Char \X Char)
  BY <1>1, AppendProperties DEF Decodings
<1> QED BY <1>2 DEF Meaning, Decodings

(* The intermediate results of decoding a stream.                         *)
LEMMA MeaningSteps ==
    ASSUME NEW base \in Decodings, NEW s \in Seq(Char)
    PROVE  \E f \in [0 .. Len(s) -> Decodings] :
              /\ f[0] = base
              /\ \A k \in 1 .. Len(s) : f[k] = Meaning(f[k - 1], s[k])
              /\ Folded(Meaning, base, s) = f[Len(s)]
<1> DEFINE n == Len(s)
           A == Decodings
           g == [p \in (1 .. n) \X A |-> Meaning(p[2], s[p[1]])]
           Step(after) == [k \in 0 .. n |->
               IF k = 0 THEN base
               ELSE CHOOSE next \in {Meaning(before, s[k]) : before \in {after[k - 1]}} : TRUE]
<1>1. n \in Nat /\ \A k \in 1 .. n : s[k] \in Char
  BY LenProperties, ElementOfSeq
<1>2. g \in [(1 .. n) \X A -> A]
  BY <1>1, MeaningType
<1>3. PICK f : RunOf(f, n, A, base, g)
  <2>1. n \in Nat /\ base \in A
    BY <1>1
  <2> HIDE DEF n, A, g
  <2> QED BY <2>1, <1>2, RecursionExists, Zenon
<1>4. ASSUME NEW x \in A, NEW k \in 1 .. n PROVE g[<<k, x>>] = Meaning(x, s[k])
  <2> HIDE DEF A
  <2> QED OBVIOUS
<1>5. ASSUME NEW k \in 1 .. n PROVE f[k - 1] \in A /\ f[k] = Meaning(f[k - 1], s[k])
  <2>1. k - 1 \in 0 .. n
    BY <1>1
  <2> HIDE DEF A, g
  <2> QED BY <1>3, <1>4, <2>1 DEF RunOf
<1>6. ASSUME NEW after, NEW k \in 1 .. n
      PROVE  Step(after)[k] = Meaning(after[k - 1], s[k])
  <2> DEFINE v == Meaning(after[k - 1], s[k])
  <2>1. {Meaning(before, s[k]) : before \in {after[k - 1]}} = {v}
    OBVIOUS
  <2>2. (CHOOSE next \in {v} : TRUE) = v
    OBVIOUS
  <2>3. k \in 0 .. n /\ k # 0
    BY <1>1
  <2> QED BY <2>1, <2>2, <2>3
<1>7. f = Step(f)
  <2>1. f = [k \in 0 .. n |-> f[k]]
    BY <1>3 DEF RunOf
  <2>2. ASSUME NEW k \in 0 .. n PROVE f[k] = Step(f)[k]
    <3>1. CASE k = 0
      <4>1. Step(f)[0] = base
        BY <1>1
      <4> QED BY <1>3, <3>1, <4>1 DEF RunOf
    <3>2. CASE k # 0
      <4>1. k \in 1 .. n
        BY <1>1, <3>2
      <4> HIDE DEF Step
      <4> QED BY <1>5, <1>6, <4>1
    <3> QED BY <3>1, <3>2
  <2>3. Step(f) = [k \in 0 .. n |-> Step(f)[k]]
    OBVIOUS
  <2> HIDE DEF Step
  <2> QED BY <2>1, <2>2, <2>3, Zenon
<1> DEFINE Fold == CHOOSE after : after = Step(after)
<1>8. Fold = Step(Fold)
  <2> HIDE DEF Step
  <2> QED BY <1>7, Zenon
<1>9. Folded(Meaning, base, s) = Fold[n]
  BY Zenon DEF Folded
<1> HIDE DEF Fold
<1>10. Follows(Fold, n, A, base, g)
  <2>1. Step(Fold)[0] = base
    BY <1>1
  <2> HIDE DEF Step, A, g
  <2> QED BY <1>4, <1>6, <1>8, <2>1 DEF Follows
<1>11. Fold[n] = f[n]
  <2>1. n \in 0 .. n
    BY <1>1
  <2>2. \A k \in 0 .. n : Fold[k] = f[k]
    <3>1. n \in Nat
      BY <1>1
    <3> HIDE DEF n, A, g
    <3> QED BY <3>1, <1>3, <1>10, RunUnique
  <2> QED BY <2>1, <2>2
<1>12. f \in [0 .. n -> A] /\ f[0] = base
  BY <1>3 DEF RunOf
<1> QED BY <1>5, <1>9, <1>11, <1>12

Decodes(h, base, s) ==
    /\ h[0] = base
    /\ \A k \in 1 .. Len(s) : h[k] = Meaning(h[k - 1], s[k])

LEMMA DecodingExists ==
    ASSUME NEW base \in Decodings, NEW s \in Seq(Char)
    PROVE  /\ Decoded(base, s) \in Decodings
           /\ \E f \in [0 .. Len(s) -> Decodings] :
                 Decodes(f, base, s) /\ Decoded(base, s) = f[Len(s)]
<1>1. PICK f \in [0 .. Len(s) -> Decodings] :
          /\ f[0] = base
          /\ \A k \in 1 .. Len(s) : f[k] = Meaning(f[k - 1], s[k])
          /\ Folded(Meaning, base, s) = f[Len(s)]
  BY MeaningSteps
<1>2. Decodes(f, base, s) /\ Decoded(base, s) = f[Len(s)]
  BY <1>1 DEF Decodes, Decoded
<1>3. Len(s) \in 0 .. Len(s)
  BY LenProperties
<1> QED BY <1>2, <1>3

(* Whatever decodes step by step comes to that. *)
LEMMA DecodesIs ==
    ASSUME NEW base \in Decodings, NEW s \in Seq(Char), NEW h, Decodes(h, base, s)
    PROVE  Decoded(base, s) = h[Len(s)]
<1>1. PICK f \in [0 .. Len(s) -> Decodings] :
          Decodes(f, base, s) /\ Decoded(base, s) = f[Len(s)]
  BY DecodingExists
<1>2. Len(s) \in Nat
  BY LenProperties
<1> DEFINE Wrong == {k \in 0 .. Len(s) : h[k] # f[k]}
<1> SUFFICES ASSUME Wrong # {} PROVE FALSE
  <2>1. Len(s) \notin Wrong => h[Len(s)] = f[Len(s)]
    BY <1>2
  <2> QED BY <1>1, <2>1
<1>3. PICK k \in Wrong : \A x \in Wrong : k <= x
  <2>1. Wrong \in SUBSET Nat
    BY <1>2
  <2> HIDE DEF Wrong
  <2> QED BY <2>1, LeastOf
<1>4. k # 0
  BY <1>1, <1>3 DEF Decodes
<1>5. k - 1 \in 0 .. Len(s) /\ k \in 1 .. Len(s) /\ ~(k <= k - 1)
  BY <1>2, <1>3, <1>4
<1>6. h[k - 1] = f[k - 1]
  BY <1>3, <1>5
<1> QED BY <1>1, <1>3, <1>5, <1>6 DEF Decodes

LEMMA DecodedEmpty ==
    ASSUME NEW base \in Decodings
    PROVE  Decoded(base, <<>>) = base
<1>1. PICK f \in [0 .. Len(<<>>) -> Decodings] :
          Decodes(f, base, <<>>) /\ Decoded(base, <<>>) = f[Len(<<>>)]
  BY DecodingExists, EmptySeq
<1> QED BY <1>1, EmptySeq DEF Decodes

LEMMA DecodedOne ==
    ASSUME NEW base \in Decodings, NEW c \in Char
    PROVE  Decoded(base, <<c>>) = Meaning(base, c)
<1>1. <<c>> \in Seq(Char) /\ Len(<<c>>) = 1 /\ <<c>>[1] = c
  OBVIOUS
<1>2. PICK f \in [0 .. Len(<<c>>) -> Decodings] :
          Decodes(f, base, <<c>>) /\ Decoded(base, <<c>>) = f[Len(<<c>>)]
  BY <1>1, DecodingExists
<1>3. f[1] = Meaning(f[1 - 1], <<c>>[1])
  BY <1>1, <1>2 DEF Decodes
<1> QED BY <1>1, <1>2, <1>3 DEF Decodes

LEMMA DecodedConcat ==
    ASSUME NEW base \in Decodings, NEW s \in Seq(Char), NEW t \in Seq(Char)
    PROVE  Decoded(base, s \o t) = Decoded(Decoded(base, s), t)
<1> DEFINE m == Len(s)
           n == Len(t)
<1>1. /\ s \o t \in Seq(Char) /\ Len(s \o t) = m + n
      /\ m \in Nat /\ n \in Nat
      /\ \A k \in 1 .. m : (s \o t)[k] = s[k]
      /\ \A k \in 1 .. n : (s \o t)[m + k] = t[k]
  <2>1. m \in Nat /\ n \in Nat
    BY LenProperties
  <2>2. ASSUME NEW k \in 1 .. n PROVE (s \o t)[m + k] = t[k]
    <3>1. m + k \in 1 .. m + n /\ ~(m + k <= m) /\ (m + k) - m = k
      BY <2>1
    <3> QED BY <3>1, ConcatProperties
  <2>3. ASSUME NEW k \in 1 .. m PROVE (s \o t)[k] = s[k]
    <3>1. k \in 1 .. m + n /\ k <= m
      BY <2>1
    <3> QED BY <3>1, ConcatProperties
  <2> QED BY <2>1, <2>2, <2>3, ConcatProperties
<1>2. PICK f \in [0 .. Len(s \o t) -> Decodings] :
          Decodes(f, base, s \o t) /\ Decoded(base, s \o t) = f[Len(s \o t)]
  BY <1>1, DecodingExists
<1>3. Decodes(f, base, s)
  <2>1. \A k \in 1 .. m : k \in 1 .. Len(s \o t)
    BY <1>1
  <2> QED BY <1>1, <1>2, <2>1 DEF Decodes
<1>4. Decoded(base, s) = f[m] /\ f[m] \in Decodings
  BY <1>1, <1>2, <1>3, DecodesIs
<1> DEFINE h == [k \in 0 .. n |-> f[m + k]]
<1>5. h[0] = f[m] /\ h[n] = f[m + n]
  BY <1>1
<1>6. ASSUME NEW k \in 1 .. n PROVE h[k] = Meaning(h[k - 1], t[k])
  <2>1. m + k \in 1 .. Len(s \o t) /\ k - 1 \in 0 .. n /\ k \in 0 .. n /\ m + (k - 1) = (m + k) - 1
    BY <1>1
  <2>2. f[m + k] = Meaning(f[(m + k) - 1], (s \o t)[m + k])
    BY <1>2, <2>1 DEF Decodes
  <2> QED BY <1>1, <2>1, <2>2
<1> HIDE DEF h
<1>7. Decodes(h, f[m], t)
  BY <1>5, <1>6 DEF Decodes
<1>8. Decoded(f[m], t) = h[n]
  BY <1>4, <1>7, DecodesIs
<1> QED BY <1>1, <1>2, <1>4, <1>5, <1>8

LEMMA DecodedAppend ==
    ASSUME NEW base \in Decodings, NEW s \in Seq(Char), NEW c \in Char
    PROVE  Decoded(base, Append(s, c)) = Meaning(Decoded(base, s), c)
<1>1. Append(s, c) = s \o <<c>> /\ <<c>> \in Seq(Char)
  BY AppendIsConcat
<1>2. Decoded(base, s) \in Decodings
  BY DecodingExists
<1>3. Decoded(base, s \o <<c>>) = Decoded(Decoded(base, s), <<c>>)
  BY <1>1, DecodedConcat
<1>4. Decoded(Decoded(base, s), <<c>>) = Meaning(Decoded(base, s), c)
  BY <1>2, DecodedOne
<1> QED BY <1>1, <1>3, <1>4

LEMMA DecodedHead ==
    ASSUME NEW base \in Decodings, NEW s \in Seq(Char), s # <<>>
    PROVE  Decoded(base, s) = Decoded(Meaning(base, Head(s)), Tail(s))
<1>1. /\ Head(s) \in Char /\ Tail(s) \in Seq(Char)
      /\ <<Head(s)>> \in Seq(Char) /\ <<Head(s)>> \o Tail(s) = s
  BY HeadTailProperties
<1>2. Decoded(base, <<Head(s)>> \o Tail(s)) = Decoded(Decoded(base, <<Head(s)>>), Tail(s))
  BY <1>1, DecodedConcat
<1> QED BY <1>1, <1>2, DecodedOne

Labelled == Seq(Char \X Char)

LEMMA LabelledJoin ==
    ASSUME NEW a \in Labelled, NEW b \in Labelled
    PROVE  a \o b \in Labelled
BY ConcatProperties DEF Labelled

LEMMA LabelledGroups ==
    ASSUME NEW a \in Labelled, NEW b \in Labelled, NEW c \in Labelled
    PROVE  (a \o b) \o c = a \o (b \o c)
<1> DEFINE S == Char \X Char
<1>1. a \in Seq(S) /\ b \in Seq(S) /\ c \in Seq(S)
  BY DEF Labelled
<1>2. (a \o b) \o c = a \o (b \o c)
  <2> HIDE DEF S
  <2> QED BY ONLY <1>1, ConcatAssociative
<1> QED BY <1>2

(* The same state of decoding with o in front of what came out. *)
Prefixed(o, d) == [d EXCEPT !.out = o \o @]

LEMMA PrefixedIs ==
    ASSUME NEW o \in Labelled, NEW d \in Decodings
    PROVE  /\ Prefixed(o, d) \in Decodings
           /\ Prefixed(o, d).out = o \o d.out
           /\ Prefixed(o, d).escape = d.escape /\ Prefixed(o, d).started = d.started
           /\ Prefixed(o, d).orderGot = d.orderGot /\ Prefixed(o, d).order = d.order
<1>1. d.out \in Labelled
  BY DEF Decodings, Labelled
<1>2. o \o d.out \in Labelled
  BY <1>1, ConcatProperties DEF Labelled
<1> QED BY <1>2 DEF Prefixed, Decodings, Labelled

LEMMA PrefixedEmpty ==
    ASSUME NEW d \in Decodings
    PROVE  Prefixed(<<>>, d) = d
<1>1. d.out \in Labelled
  BY DEF Decodings, Labelled
<1>2. <<>> \o d.out = d.out
  BY <1>1, ConcatEmptySeq DEF Labelled
<1> QED BY <1>2 DEF Prefixed, Decodings

LEMMA PrefixedTwice ==
    ASSUME NEW o \in Labelled, NEW p \in Labelled, NEW d \in Decodings
    PROVE  Prefixed(o, Prefixed(p, d)) = Prefixed(o \o p, d)
<1>1. d.out \in Labelled
  BY DEF Decodings, Labelled
<1>2. o \o (p \o d.out) = (o \o p) \o d.out
  BY <1>1, LabelledGroups, Zenon
<1> QED BY <1>2 DEF Prefixed, Decodings

LEMMA MeaningPrefixed ==
    ASSUME NEW o \in Labelled, NEW d \in Decodings, NEW c \in Char
    PROVE  Meaning(Prefixed(o, d), c) = Prefixed(o, Meaning(d, c))
<1> DEFINE x == <<d.order, c>>
           p == Prefixed(o, d)
<1>1. d.out \in Labelled /\ x \in Char \X Char
  BY DEF Decodings, Labelled
<1>2. Append(o \o d.out, x) = o \o Append(d.out, x)
  <2>1. <<x>> \in Labelled /\ o \o d.out \in Labelled
    BY <1>1, ConcatProperties DEF Labelled
  <2>2. Append(o \o d.out, x) = (o \o d.out) \o <<x>>
    BY <1>1, <2>1, AppendIsConcat DEF Labelled
  <2>3. Append(d.out, x) = d.out \o <<x>>
    BY <1>1, AppendIsConcat DEF Labelled
  <2>4. (o \o d.out) \o <<x>> = o \o (d.out \o <<x>>)
    <3> HIDE DEF x
    <3> QED BY <1>1, <2>1, LabelledGroups, Zenon
  <2> QED BY <2>2, <2>3, <2>4
<1>3. /\ p \in Decodings
      /\ p.out = o \o d.out /\ p.escape = d.escape /\ p.started = d.started
      /\ p.orderGot = d.orderGot /\ p.order = d.order
  BY PrefixedIs
<1>4. <<p.order, c>> = x
  BY <1>3
<1> HIDE DEF x
<1>5. CASE ~d.started
  BY <1>3, <1>5 DEF Meaning, Prefixed, Decodings
<1>6. CASE d.started /\ ~d.escape /\ c = MESSAGE_ESCAPE
  <2>1. Meaning(d, c) = [d EXCEPT !.escape = TRUE]
    BY <1>6 DEF Meaning, MESSAGE_EDGE, MESSAGE_ESCAPE
  <2>2. Meaning(p, c) = [p EXCEPT !.escape = TRUE]
    BY <1>3, <1>6 DEF Meaning, MESSAGE_EDGE, MESSAGE_ESCAPE
  <2> QED BY <1>3, <2>1, <2>2 DEF Prefixed, Decodings
<1>7. CASE d.started /\ ~d.escape /\ c = MESSAGE_EDGE
  <2>1. c # MESSAGE_ESCAPE
    BY <1>7 DEF MESSAGE_EDGE, MESSAGE_ESCAPE
  <2>2. Meaning(d, c) = [d EXCEPT !.started = FALSE, !.orderGot = FALSE]
    BY <1>7, <2>1 DEF Meaning
  <2>3. Meaning(p, c) = [p EXCEPT !.started = FALSE, !.orderGot = FALSE]
    BY <1>3, <1>7, <2>1 DEF Meaning
  <2> QED BY <1>3, <2>2, <2>3 DEF Prefixed, Decodings
<1>8. CASE d.started /\ (d.escape \/ c \notin {MESSAGE_EDGE, MESSAGE_ESCAPE})
  <2>1. CASE d.orderGot
    <3>1. Meaning(d, c) = [d EXCEPT !.escape = FALSE, !.out = Append(d.out, x)]
      BY <1>8, <2>1 DEF Meaning, x, Decodings
    <3>2. Meaning(p, c) = [p EXCEPT !.escape = FALSE, !.out = Append(p.out, x)]
      BY <1>3, <1>4, <1>8, <2>1 DEF Meaning, Decodings
    <3> QED BY <1>2, <1>3, <3>1, <3>2 DEF Prefixed, Decodings
  <2>2. CASE ~d.orderGot /\ c \in NoByte
    BY <1>3, <1>8, <2>2 DEF Meaning, Prefixed, Decodings
  <2>3. CASE ~d.orderGot /\ c \notin NoByte
    BY <1>3, <1>8, <2>3 DEF Meaning, Prefixed, Decodings
  <2> QED BY <2>1, <2>2, <2>3
<1> QED BY <1>5, <1>6, <1>7, <1>8

(* What came out before does not matter to what comes out next. *)
LEMMA DecodedPrefixed ==
    ASSUME NEW o \in Labelled, NEW d \in Decodings, NEW s \in Seq(Char)
    PROVE  Decoded(Prefixed(o, d), s) = Prefixed(o, Decoded(d, s))
<1>1. PICK f \in [0 .. Len(s) -> Decodings] :
          Decodes(f, d, s) /\ Decoded(d, s) = f[Len(s)]
  BY DecodingExists
<1>2. Len(s) \in Nat /\ \A k \in 1 .. Len(s) : s[k] \in Char
  BY LenProperties, ElementOfSeq
<1> DEFINE h == [k \in 0 .. Len(s) |-> Prefixed(o, f[k])]
<1>3. h[0] = Prefixed(o, d) /\ h[Len(s)] = Prefixed(o, f[Len(s)])
  BY <1>1, <1>2 DEF Decodes
<1>4. ASSUME NEW k \in 1 .. Len(s) PROVE h[k] = Meaning(h[k - 1], s[k])
  <2>1. k - 1 \in 0 .. Len(s) /\ k \in 0 .. Len(s)
    BY <1>2
  <2>2. f[k - 1] \in Decodings /\ f[k] = Meaning(f[k - 1], s[k])
    BY <1>1, <2>1 DEF Decodes
  <2>3. Meaning(Prefixed(o, f[k - 1]), s[k]) = Prefixed(o, Meaning(f[k - 1], s[k]))
    BY <1>2, <2>2, MeaningPrefixed
  <2> QED BY <2>1, <2>2, <2>3
<1> HIDE DEF h
<1>5. Decodes(h, Prefixed(o, d), s)
  BY <1>3, <1>4 DEF Decodes
<1>6. Prefixed(o, d) \in Decodings
  BY PrefixedIs
<1> QED BY <1>1, <1>3, <1>5, <1>6, DecodesIs

(* Every byte brings out one pair at most. *)
LEMMA DecodedLength ==
    ASSUME NEW d \in Decodings, NEW s \in Seq(Char)
    PROVE  Len(Decoded(d, s).out) <= Len(d.out) + Len(s)
<1>1. PICK f \in [0 .. Len(s) -> Decodings] :
          Decodes(f, d, s) /\ Decoded(d, s) = f[Len(s)]
  BY DecodingExists
<1>2. Len(s) \in Nat /\ Len(d.out) \in Nat /\ \A k \in 1 .. Len(s) : s[k] \in Char
  BY LenProperties, ElementOfSeq DEF Decodings
<1> DEFINE Wrong == {k \in 0 .. Len(s) : ~(Len(f[k].out) <= Len(d.out) + k)}
<1> SUFFICES ASSUME Wrong # {} PROVE FALSE
  BY <1>1, <1>2
<1>3. PICK k \in Wrong : \A x \in Wrong : k <= x
  <2>1. Wrong \in SUBSET Nat
    BY <1>2
  <2> HIDE DEF Wrong
  <2> QED BY <2>1, LeastOf
<1>4. k # 0
  BY <1>1, <1>2, <1>3 DEF Decodes
<1>5. k - 1 \in 0 .. Len(s) /\ k \in 1 .. Len(s) /\ ~(k <= k - 1) /\ k \in Nat
  BY <1>2, <1>3, <1>4
<1> DEFINE x == f[k - 1]
           y == f[k]
<1>6. x \in Decodings /\ y = Meaning(x, s[k]) /\ s[k] \in Char
  BY <1>1, <1>2, <1>5 DEF Decodes
<1>7. Len(x.out) <= Len(d.out) + (k - 1) /\ ~(Len(y.out) <= Len(d.out) + k)
  BY <1>3, <1>5
<1> HIDE DEF x, y
<1>8. y.out = x.out \/ y.out = Append(x.out, <<x.order, s[k]>>)
  BY <1>6 DEF Meaning, Decodings
<1>9. Len(x.out) \in Nat /\ Len(y.out) \in Nat /\ Len(y.out) <= Len(x.out) + 1
  <2>1. x.out \in Seq(Char \X Char) /\ <<x.order, s[k]>> \in Char \X Char
    BY <1>6 DEF Decodings
  <2>2. Len(x.out) \in Nat /\ Len(Append(x.out, <<x.order, s[k]>>)) = Len(x.out) + 1
    BY <2>1, AppendProperties, LenProperties
  <2> QED BY <1>8, <2>2
<1> DEFINE u == Len(x.out)
           j == Len(y.out)
           l == Len(d.out)
<1>10. /\ u \in Nat /\ j \in Nat /\ l \in Nat /\ k \in Nat
       /\ j <= u + 1 /\ u <= l + (k - 1) /\ ~(j <= l + k)
  BY <1>2, <1>5, <1>7, <1>9
<1> HIDE DEF u, j, l
<1> QED BY <1>10

-----------------------------------------------------------------------------
(* The decoder reads what the stream means.                                *)
Receivers ==
    [message : Seq(Char), order : Char, escape : BOOLEAN, started : BOOLEAN,
     orderGot : BOOLEAN]

Sound(r) == r \in Receivers /\ (r.orderGot => r.started) /\ (r.escape => r.started)

StateOf(r) ==
    [escape |-> r.escape, started |-> r.started, orderGot |-> r.orderGot,
     order |-> r.order, out |-> <<>>]

Waits(r) == Decoded(StateOf(r), r.message)

(* From r to q the decoder takes out what is first in what waits. *)
Reads(q, r, got) ==
    /\ Sound(q) /\ got \in Labelled
    /\ Len(q.message) <= Len(r.message)
    /\ Waits(r) = Prefixed(got, Waits(q))

LEMMA StateType ==
    ASSUME NEW r \in Receivers
    PROVE  StateOf(r) \in Decodings /\ Waits(r) \in Decodings
<1>1. StateOf(r) \in Decodings
  BY EmptySeq DEF StateOf, Decodings, Receivers
<1>2. r.message \in Seq(Char)
  BY DEF Receivers
<1> QED BY <1>1, <1>2, DecodingExists DEF Waits

LEMMA ReadsNothing ==
    ASSUME NEW r, Sound(r)
    PROVE  Reads(r, r, <<>>)
<1>1. r \in Receivers /\ Len(r.message) \in Nat /\ <<>> \in Labelled
  BY LenProperties, EmptySeq DEF Sound, Receivers, Labelled
<1>2. Waits(r) = Prefixed(<<>>, Waits(r))
  BY <1>1, StateType, PrefixedEmpty
<1> QED BY <1>1, <1>2 DEF Reads

LEMMA ReadsThen ==
    ASSUME NEW p, NEW q, NEW r, NEW g, NEW h, r \in Receivers, Reads(q, r, g), Reads(p, q, h)
    PROVE  Reads(p, r, g \o h)
<1>1. q \in Receivers /\ p \in Receivers /\ g \in Labelled /\ h \in Labelled
  BY DEF Reads, Sound
<1>2. Waits(p) \in Decodings
  BY <1>1, StateType
<1>3. Prefixed(g, Prefixed(h, Waits(p))) = Prefixed(g \o h, Waits(p))
  BY <1>1, <1>2, PrefixedTwice
<1>4. g \o h \in Labelled
  BY <1>1, LabelledJoin
<1>5. Len(p.message) \in Nat /\ Len(q.message) \in Nat /\ Len(r.message) \in Nat
  BY <1>1, LenProperties DEF Receivers
<1> QED BY <1>3, <1>4, <1>5 DEF Reads

LEMMA ReadsOne ==
    ASSUME NEW r \in Receivers, r.message # <<>>, NEW q, Sound(q), q.message = Tail(r.message),
           NEW got \in Labelled, Meaning(StateOf(r), Head(r.message)) = Prefixed(got, StateOf(q))
    PROVE  Reads(q, r, got)
<1>1. StateOf(r) \in Decodings /\ r.message \in Seq(Char) /\ q \in Receivers
  BY StateType DEF Receivers, Sound
<1>2. StateOf(q) \in Decodings /\ q.message \in Seq(Char)
  BY <1>1, StateType DEF Receivers
<1>3. Waits(r) = Decoded(Prefixed(got, StateOf(q)), q.message)
  BY <1>1, DecodedHead DEF Waits
<1>4. Waits(r) = Prefixed(got, Waits(q))
  BY <1>2, <1>3, DecodedPrefixed DEF Waits
<1>5. Len(q.message) = Len(r.message) - 1 /\ Len(r.message) \in Nat
  BY <1>1, HeadTailProperties, LenProperties
<1> QED BY <1>4, <1>5 DEF Reads

LEMMA SkipStartReads ==
    ASSUME NEW r, Sound(r)
    PROVE  Reads(TrySkipStart(r), r, <<>>) /\ (r.orderGot => TrySkipStart(r) = r)
<1>1. CASE r.started \/ r.message = <<>>
  BY <1>1, ReadsNothing DEF TrySkipStart
<1>2. CASE ~r.started /\ r.message # <<>>
  <2> DEFINE q == [r EXCEPT !.message = Tail(@), !.started = TRUE]
  <2>1. /\ r \in Receivers /\ Tail(r.message) \in Seq(Char) /\ <<>> \in Labelled
        /\ Head(r.message) \in Char
    BY <1>2, HeadTailProperties, EmptySeq DEF Sound, Receivers, Labelled
  <2>2. Sound(q) /\ q.message = Tail(r.message)
    BY <2>1 DEF Sound, Receivers
  <2>3. StateOf(q) \in Decodings
    BY <2>2, StateType DEF Sound
  <2>4. Meaning(StateOf(r), Head(r.message)) = StateOf(q)
    BY <1>2, <2>1 DEF Meaning, StateOf, Receivers
  <2>5. Meaning(StateOf(r), Head(r.message)) = Prefixed(<<>>, StateOf(q))
    BY <2>3, <2>4, PrefixedEmpty
  <2>6. TrySkipStart(r) = q
    BY <1>2 DEF TrySkipStart
  <2> HIDE DEF q
  <2> QED BY <1>2, <2>1, <2>2, <2>5, <2>6, ReadsOne DEF Sound
<1> QED BY <1>1, <1>2

LEMMA DecodingsEqual ==
    ASSUME NEW d \in Decodings, NEW e \in Decodings,
           d.escape = e.escape, d.started = e.started, d.orderGot = e.orderGot,
           d.order = e.order, d.out = e.out
    PROVE  d = e
BY DEF Decodings

(* A byte that try_read_char hands out, behind the order and in its place. *)
Got(r, q, c) ==
    /\ r.orderGot => Reads(q, r, <<<<r.order, c>>>>) /\ q.orderGot /\ q.order = r.order
    /\ ~r.orderGot /\ c \in NoByte => Reads(q, r, <<>>)
    /\ ~r.orderGot /\ c \notin NoByte => Reads([q EXCEPT !.order = c, !.orderGot = TRUE], r, <<>>)

(* A byte of the frame is next, and not announced by an escape in front of it. *)
LEMMA ReadsByte ==
    ASSUME NEW r, Sound(r), r.started, r.message # <<>>,
           r.escape \/ Head(r.message) \notin {MESSAGE_EDGE, MESSAGE_ESCAPE}
    PROVE  LET c == Head(r.message) IN
           c \in Char /\ Got(r, [r EXCEPT !.message = Tail(@), !.escape = FALSE], c)
<1> DEFINE c == Head(r.message)
           q == [r EXCEPT !.message = Tail(@), !.escape = FALSE]
           p == [q EXCEPT !.order = c, !.orderGot = TRUE]
           x == <<r.order, c>>
<1>1. r \in Receivers /\ c \in Char /\ Tail(r.message) \in Seq(Char)
  BY HeadTailProperties DEF Sound, Receivers
<1>2. x \in Char \X Char /\ r.order \in Char
  BY <1>1 DEF Receivers
<1>3. <<x>> \in Labelled /\ <<>> \in Labelled
  BY <1>2, EmptySeq DEF Labelled
<1>4. Append(<<>>, x) = <<x>> /\ <<x>> \o <<>> = <<x>>
  BY <1>3, ConcatEmptySeq DEF Labelled
<1>5. CASE r.orderGot
  <2>1. Sound(q) /\ q.message = Tail(r.message) /\ q.orderGot /\ q.order = r.order
    BY <1>1, <1>5 DEF Sound, Receivers
  <2>2. Meaning(StateOf(r), c) = [StateOf(r) EXCEPT !.escape = FALSE, !.out = <<x>>]
    <3> HIDE DEF c
    <3>1. StateOf(r).started /\ StateOf(r).orderGot /\ StateOf(r).escape = r.escape
          /\ StateOf(r).out = <<>> /\ StateOf(r).order = r.order
      BY <1>5 DEF StateOf
    <3>2. StateOf(r).escape \/ c \notin {MESSAGE_EDGE, MESSAGE_ESCAPE}
      BY <3>1 DEF c
    <3>3. Append(StateOf(r).out, <<StateOf(r).order, c>>) = <<x>>
      BY <1>4, <3>1
    <3> HIDE DEF x
    <3> QED BY <3>1, <3>2, <3>3 DEF Meaning, StateOf
  <2>3. Prefixed(<<x>>, StateOf(q)) = [StateOf(r) EXCEPT !.escape = FALSE, !.out = <<x>>]
    <3> DEFINE y == [StateOf(r) EXCEPT !.escape = FALSE, !.out = <<x>>]
    <3> HIDE DEF x
    <3>1. StateOf(q) \in Decodings /\ StateOf(r) \in Decodings
      BY <1>1, <2>1, StateType DEF Sound
    <3>2. /\ y \in Decodings /\ y.out = <<x>> /\ y.escape = FALSE /\ y.order = r.order
          /\ y.started = r.started /\ y.orderGot = r.orderGot
      <4>1. <<x>> \in Seq(Char \X Char)
        BY <1>3 DEF Labelled
      <4>2. y \in Decodings
        BY <3>1, <4>1 DEF Decodings
      <4>3. y.out = <<x>> /\ y.escape = FALSE
        BY <3>1, <4>1 DEF Decodings
      <4>4. y.order = r.order /\ y.started = r.started /\ y.orderGot = r.orderGot
        BY <3>1, <4>1 DEF StateOf
      <4> QED BY <4>2, <4>3, <4>4
    <3>3. /\ StateOf(q).escape = FALSE /\ StateOf(q).order = r.order /\ StateOf(q).out = <<>>
          /\ StateOf(q).started = r.started /\ StateOf(q).orderGot = r.orderGot
      BY <1>1 DEF StateOf, Receivers
    <3> HIDE DEF y, q
    <3>4. Prefixed(<<x>>, StateOf(q)) = y
      <4> DEFINE z == Prefixed(<<x>>, StateOf(q))
      <4>1. z \in Decodings /\ z.out = <<x>>
        <5>1. z \in Decodings /\ z.out = <<x>> \o StateOf(q).out
          BY <1>3, <3>1, PrefixedIs
        <5>2. <<x>> \o StateOf(q).out = <<x>>
          BY <1>4, <3>3
        <5> QED BY <5>1, <5>2
      <4>2. /\ z.escape = StateOf(q).escape /\ z.started = StateOf(q).started
            /\ z.orderGot = StateOf(q).orderGot /\ z.order = StateOf(q).order
        BY <1>3, <3>1, PrefixedIs
      <4> HIDE DEF z
      <4>3. z.escape = y.escape /\ z.started = y.started /\ z.orderGot = y.orderGot
        BY <3>2, <3>3, <4>2
      <4>4. z.order = y.order /\ z.out = y.out
        BY <3>2, <3>3, <4>1, <4>2
      <4>5. z = y
        BY <3>2, <4>1, <4>3, <4>4, DecodingsEqual
      <4> QED BY <4>5 DEF z
    <3> QED BY <3>4 DEF y
  <2> HIDE DEF q, c, x
  <2>4. Reads(q, r, <<x>>)
    BY <1>1, <1>3, <2>1, <2>2, <2>3, ReadsOne DEF c
  <2> QED BY <1>1, <1>5, <2>1, <2>4 DEF Got, q, c, x
<1>6. CASE ~r.orderGot /\ c \in NoByte
  <2>1. Sound(q) /\ q.message = Tail(r.message)
    BY <1>1 DEF Sound, Receivers
  <2>2. Meaning(StateOf(r), c) = StateOf(q)
    <3>1. StateOf(r).escape \/ c \notin {MESSAGE_EDGE, MESSAGE_ESCAPE}
      BY DEF StateOf
    <3>2. StateOf(r).started /\ ~StateOf(r).orderGot
      BY <1>6 DEF StateOf
    <3>3. Meaning(StateOf(r), c) = [StateOf(r) EXCEPT !.escape = FALSE]
      BY <1>6, <3>1, <3>2 DEF Meaning
    <3> HIDE DEF c
    <3> QED BY <1>1, <3>3 DEF StateOf, Receivers
  <2>3. StateOf(q) \in Decodings
    BY <2>1, StateType DEF Sound
  <2> HIDE DEF q, c
  <2>4. Reads(q, r, <<>>)
    BY <1>1, <1>3, <2>1, <2>2, <2>3, PrefixedEmpty, ReadsOne DEF c
  <2> QED BY <1>1, <1>6, <2>4 DEF Got, q, c
<1>7. CASE ~r.orderGot /\ c \notin NoByte
  <2>1. Sound(p) /\ p.message = Tail(r.message)
    BY <1>1 DEF Sound, Receivers
  <2>2. Meaning(StateOf(r), c) = StateOf(p)
    <3>1. StateOf(r).escape \/ c \notin {MESSAGE_EDGE, MESSAGE_ESCAPE}
      BY DEF StateOf
    <3>2. StateOf(r).started /\ ~StateOf(r).orderGot
      BY <1>7 DEF StateOf
    <3>3. Meaning(StateOf(r), c) = [StateOf(r) EXCEPT !.escape = FALSE, !.order = c, !.orderGot = TRUE]
      BY <1>7, <3>1, <3>2 DEF Meaning
    <3> HIDE DEF c
    <3> QED BY <1>1, <3>3 DEF StateOf, Receivers
  <2>3. StateOf(p) \in Decodings
    BY <2>1, StateType DEF Sound
  <2> HIDE DEF p, c
  <2>4. Reads(p, r, <<>>)
    BY <1>1, <1>3, <2>1, <2>2, <2>3, PrefixedEmpty, ReadsOne DEF c
  <2> QED BY <1>1, <1>7, <2>4 DEF Got, p, c
<1> QED BY <1>5, <1>6, <1>7

(* An escape is read ahead of the byte it announces. *)
LEMMA ReadsEscape ==
    ASSUME NEW r, Sound(r), r.started, ~r.escape, r.message # <<>>,
           Head(r.message) = MESSAGE_ESCAPE
    PROVE  Reads([r EXCEPT !.message = Tail(@), !.escape = TRUE], r, <<>>)
<1> DEFINE q == [r EXCEPT !.message = Tail(@), !.escape = TRUE]
<1>1. r \in Receivers /\ Tail(r.message) \in Seq(Char) /\ <<>> \in Labelled
  BY HeadTailProperties, EmptySeq DEF Sound, Receivers, Labelled
<1>2. Sound(q) /\ q.message = Tail(r.message)
  BY <1>1 DEF Sound, Receivers
<1>3. Meaning(StateOf(r), Head(r.message)) = StateOf(q)
  <2>1. StateOf(r).started /\ ~StateOf(r).escape
    BY DEF StateOf
  <2>2. Meaning(StateOf(r), Head(r.message)) = [StateOf(r) EXCEPT !.escape = TRUE]
    BY <2>1 DEF Meaning, MESSAGE_EDGE, MESSAGE_ESCAPE
  <2> QED BY <1>1, <2>2 DEF StateOf, Receivers
<1>4. StateOf(q) \in Decodings
  BY <1>2, StateType DEF Sound
<1> HIDE DEF q
<1>5. Reads(q, r, <<>>)
  BY <1>1, <1>2, <1>3, <1>4, PrefixedEmpty, ReadsOne
<1> QED BY <1>5 DEF q

LEMMA ReadsEdge ==
    ASSUME NEW r, Sound(r), r.started, ~r.escape, r.message # <<>>,
           Head(r.message) = MESSAGE_EDGE
    PROVE  Reads([r EXCEPT !.message = Tail(@), !.started = FALSE, !.orderGot = FALSE], r, <<>>)
<1> DEFINE q == [r EXCEPT !.message = Tail(@), !.started = FALSE, !.orderGot = FALSE]
<1>1. r \in Receivers /\ Tail(r.message) \in Seq(Char) /\ <<>> \in Labelled
  BY HeadTailProperties, EmptySeq DEF Sound, Receivers, Labelled
<1>2. Sound(q) /\ q.message = Tail(r.message)
  BY <1>1 DEF Sound, Receivers
<1>3. Meaning(StateOf(r), Head(r.message)) = StateOf(q)
  <2>1. StateOf(r).started /\ ~StateOf(r).escape
    BY DEF StateOf
  <2>2. Meaning(StateOf(r), Head(r.message)) = [StateOf(r) EXCEPT !.started = FALSE, !.orderGot = FALSE]
    BY <2>1 DEF Meaning, MESSAGE_EDGE, MESSAGE_ESCAPE
  <2> QED BY <1>1, <2>2 DEF StateOf, Receivers
<1>4. StateOf(q) \in Decodings
  BY <1>2, StateType DEF Sound
<1> HIDE DEF q
<1>5. Reads(q, r, <<>>)
  BY <1>1, <1>2, <1>3, <1>4, PrefixedEmpty, ReadsOne
<1> QED BY <1>5 DEF q

LEMMA ReadsOn ==
    ASSUME NEW p, NEW q, NEW r, NEW h, r \in Receivers, Reads(q, r, <<>>), Reads(p, q, h)
    PROVE  Reads(p, r, h)
<1>1. h \in Labelled
  BY DEF Reads
<1>2. <<>> \o h = h
  BY <1>1, ConcatEmptySeq DEF Labelled
<1>3. Reads(p, r, <<>> \o h)
  BY ReadsThen
<1> QED BY <1>2, <1>3, Zenon

(* The same record, said with and without the escape that is not set. *)
LEMMA NotEscaped ==
    ASSUME NEW r \in Receivers, ~r.escape, NEW s \in Seq(Char)
    PROVE  /\ [r EXCEPT !.message = s] \in Receivers
           /\ [r EXCEPT !.message = s] = [r EXCEPT !.message = s, !.escape = FALSE]
<1>1. r.escape = FALSE
  BY DEF Receivers
<1> QED BY <1>1 DEF Receivers

Ahead(q, r, s) == ~r.escape /\ q = [r EXCEPT !.message = s, !.escape = TRUE]

(* try_read_char: a byte of the frame, or nothing. *)
ReadWell(r, t) ==
    \/ t.c \in NoByte /\ Reads(t.r, r, <<>>)
    \/ t.c \in Char /\ Got(r, t.r, t.c)

LEMMA NoCharRead ==
    ASSUME NEW r, NEW q, NEW c \in {END_OF_BUFFER, MESSAGE_BOUNDARY}, Reads(q, r, <<>>)
    PROVE  ReadWell(r, [r |-> q, c |-> c])
BY DEF ReadWell, NoByte

LEMMA CharRead ==
    ASSUME NEW r, NEW q, NEW c \in Char, Got(r, q, c)
    PROVE  ReadWell(r, [r |-> q, c |-> c])
<1> DEFINE t == [r |-> q, c |-> c]
<1>1. t.r = q /\ t.c = c
  OBVIOUS
<1> HIDE DEF t
<1>2. ReadWell(r, t)
  BY <1>1 DEF ReadWell
<1> QED BY <1>2 DEF t

LEMMA ReadCharWell ==
    ASSUME NEW r, Sound(r), r.started
    PROVE  ReadWell(r, TryReadChar(r))
<1> DEFINE rest == [r EXCEPT !.message = Tail(@)]
           c == Head(r.message)
<1>1. r \in Receivers
  BY DEF Sound
<1>2. CASE r.message = <<>>
  <2>1. TryReadChar(r) = [r |-> r, c |-> END_OF_BUFFER]
    BY <1>2 DEF TryReadChar
  <2> QED BY <2>1, ReadsNothing, NoCharRead
<1>3. CASE r.message # <<>>
  <2>1. Tail(r.message) \in Seq(Char) /\ c \in Char
    BY <1>1, <1>3, HeadTailProperties DEF Receivers
  <2>2. CASE r.escape
    <3>1. TryReadChar(r) = [r |-> [r EXCEPT !.message = Tail(@), !.escape = FALSE], c |-> c]
      BY <1>3, <2>2 DEF TryReadChar
    <3> QED BY <1>3, <2>1, <2>2, <3>1, ReadsByte, CharRead
  <2>3. CASE ~r.escape /\ c \notin {MESSAGE_EDGE, MESSAGE_ESCAPE}
    <3>1. TryReadChar(r) = [r |-> rest, c |-> c]
      BY <1>3, <2>3 DEF TryReadChar
    <3>2. rest = [r EXCEPT !.message = Tail(@), !.escape = FALSE]
      BY <1>1, <2>1, <2>3, NotEscaped
    <3>3. Got(r, rest, c)
      BY <1>3, <2>3, <3>2, ReadsByte
    <3> QED BY <2>1, <3>1, <3>3, CharRead
  <2>4. CASE ~r.escape /\ c = MESSAGE_EDGE
    <3>1. c # MESSAGE_ESCAPE
      BY <2>4 DEF MESSAGE_EDGE, MESSAGE_ESCAPE
    <3>2. TryReadChar(r) =
             [r |-> [r EXCEPT !.message = Tail(@), !.started = FALSE, !.orderGot = FALSE],
              c |-> MESSAGE_BOUNDARY]
      BY <1>3, <2>4, <3>1 DEF TryReadChar
    <3> QED BY <1>3, <2>4, <3>2, ReadsEdge, NoCharRead
  <2>5. CASE ~r.escape /\ c = MESSAGE_ESCAPE
    <3> DEFINE q == [r EXCEPT !.message = Tail(@), !.escape = TRUE]
    <3>1. Reads(q, r, <<>>)
      BY <1>3, <2>5, ReadsEscape
    <3>2. CASE rest.message = <<>>
      <4>1. TryReadChar(r) = [r |-> q, c |-> END_OF_BUFFER]
        BY <1>3, <2>5, <3>2 DEF TryReadChar, MESSAGE_EDGE, MESSAGE_ESCAPE
      <4> QED BY <3>1, <4>1, NoCharRead
    <3>3. CASE rest.message # <<>>
      <4> DEFINE s == Tail(r.message)
                 p == [r EXCEPT !.message = Tail(s)]
                 e == Head(s)
      <4>1. rest.message = s /\ s # <<>>
        BY <1>1, <3>3 DEF Receivers
      <4>2. TryReadChar(r) = [r |-> [rest EXCEPT !.message = Tail(@)], c |-> e]
        BY <1>3, <2>5, <3>3, <4>1 DEF TryReadChar, MESSAGE_EDGE, MESSAGE_ESCAPE
      <4>3. [rest EXCEPT !.message = Tail(@)] = p
        BY <1>1, <4>1 DEF Receivers
      <4>4. Tail(s) \in Seq(Char) /\ e \in Char
        BY <2>1, <4>1, HeadTailProperties
      <4>5. q = [r EXCEPT !.message = s, !.escape = TRUE]
        OBVIOUS
      <4>6. /\ [q EXCEPT !.message = Tail(s), !.escape = FALSE] = p
            /\ q.escape /\ q.message = s /\ q.started = r.started
            /\ q.orderGot = r.orderGot /\ q.order = r.order
        <5>1. s \in Seq(Char)
          BY <2>1
        <5>2. Ahead(q, r, s)
          BY <2>5, <4>5 DEF Ahead
        <5> DEFINE t == Tail(s)
        <5>3. t \in Seq(Char) /\ p = [r EXCEPT !.message = t]
          BY <4>4
        <5> HIDE DEF q, s, t, p
        <5>4. /\ [q EXCEPT !.message = t, !.escape = FALSE] = [r EXCEPT !.message = t]
              /\ q.escape /\ q.message = s /\ q.started = r.started
              /\ q.orderGot = r.orderGot /\ q.order = r.order
          <6>1. r.escape = FALSE
            BY <1>1, <5>2 DEF Ahead, Receivers
          <6> QED BY <1>1, <5>1, <5>2, <5>3, <6>1 DEF Ahead, Receivers
        <5> QED BY <5>3, <5>4 DEF t
      <4> HIDE DEF q, s
      <4>7. Sound(q)
        BY <3>1 DEF Reads
      <4>8. Got(q, p, e)
        BY <4>1, <4>6, <4>7, ReadsByte
      <4>9. Got(r, p, e)
        <5> HIDE DEF p, e
        <5>1. CASE r.orderGot
          <6>1. Reads(p, q, <<<<r.order, e>>>>) /\ p.orderGot /\ p.order = r.order
            BY <4>6, <4>8, <5>1 DEF Got
          <6>2. Reads(p, r, <<<<r.order, e>>>>)
            BY <1>1, <3>1, <6>1, ReadsOn
          <6> QED BY <5>1, <6>1, <6>2 DEF Got
        <5>2. CASE ~r.orderGot /\ e \notin NoByte
          <6>1. Reads([p EXCEPT !.order = e, !.orderGot = TRUE], q, <<>>)
            BY <4>6, <4>8, <5>2 DEF Got
          <6>2. Reads([p EXCEPT !.order = e, !.orderGot = TRUE], r, <<>>)
            BY <1>1, <3>1, <6>1, ReadsOn
          <6> QED BY <5>2, <6>2 DEF Got
        <5>3. CASE ~r.orderGot /\ e \in NoByte
          <6>1. Reads(p, q, <<>>)
            BY <4>6, <4>8, <5>3 DEF Got
          <6>2. Reads(p, r, <<>>)
            BY <1>1, <3>1, <6>1, ReadsOn
          <6> QED BY <5>3, <6>2 DEF Got
        <5> QED BY <5>1, <5>2, <5>3
      <4> QED BY <4>2, <4>3, <4>4, <4>9, CharRead
    <3> QED BY <3>2, <3>3
  <2> QED BY <2>2, <2>3, <2>4, <2>5
<1> QED BY <1>2, <1>3

(* try_parse_order takes no byte of any client out. *)
LEMMA ParseOrderReads ==
    ASSUME NEW r, Sound(r)
    PROVE  Reads(TryParseOrder(r), r, <<>>)
<1> DEFINE begun == TrySkipStart(r)
           read == TryReadChar(begun)
<1>1. Reads(begun, r, <<>>) /\ Sound(begun) /\ r \in Receivers
  BY SkipStartReads DEF Reads, Sound
<1>2. CASE r.orderGot
  BY <1>2, ReadsNothing DEF TryParseOrder
<1>3. CASE ~r.orderGot /\ ~begun.started
  <2>1. TryParseOrder(r) = begun
    BY <1>3 DEF TryParseOrder
  <2> QED BY <1>1, <2>1
<1>4. CASE ~r.orderGot /\ begun.started
  <2>1. ReadWell(begun, read)
    BY <1>1, <1>4, ReadCharWell
  <2>3. ~begun.orderGot
    BY <1>1, <1>4 DEF TrySkipStart, Sound, Receivers
  <2>4. CASE read.c \in NoByte
    <3>1. TryParseOrder(r) = read.r
      BY <1>4, <2>4 DEF TryParseOrder
    <3>2. Reads(read.r, begun, <<>>)
      BY <2>1, <2>3, <2>4 DEF ReadWell, Got
    <3> HIDE DEF begun, read
    <3> QED BY <1>1, <3>1, <3>2, ReadsOn
  <2>5. CASE read.c \notin NoByte
    <3>1. TryParseOrder(r) = [read.r EXCEPT !.order = read.c, !.orderGot = TRUE]
      BY <1>4, <2>5 DEF TryParseOrder
    <3>2. Reads([read.r EXCEPT !.order = read.c, !.orderGot = TRUE], begun, <<>>)
      BY <2>1, <2>3, <2>5 DEF ReadWell, Got
    <3> HIDE DEF begun, read
    <3> QED BY <1>1, <3>1, <3>2, ReadsOn
  <2> QED BY <2>4, <2>5
<1> QED BY <1>2, <1>3, <1>4

-----------------------------------------------------------------------------
(* Readings of several bytes.                                              *)
Readings ==
    {x \in [r : Receivers, got : Labelled, going : BOOLEAN] :
        Sound(x.r) /\ (x.going => x.r.orderGot)}

(* What a reading x took from r is what was first there, all of one order; *)
(* the byte that ended it is lost.                                         *)
Lost(q, r, got) == \E c \in Char : c < 0 /\ Reads(q, r, Append(got, <<r.order, c>>))

TookFrom(x, r) ==
    /\ x \in Readings
    /\ Reads(x.r, r, x.got) \/ (~x.going /\ Lost(x.r, r, x.got))
    /\ x.going => x.r.order = r.order
    /\ \A j \in 1 .. Len(x.got) : x.got[j][1] = r.order /\ ~(x.got[j][2] < 0)

(* One more try_read_char: nothing of the frame, a byte of it, or a byte   *)
(* of it that is lost.                                                     *)
Ends(x, y) ==
    \E q : Reads(q, x.r, <<>>) /\ y = [x EXCEPT !.r = q, !.going = FALSE]

GoesOn(x, y) ==
    \E q : \E c \in Char :
        /\ x.going /\ ~(c < 0) /\ q.orderGot /\ q.order = x.r.order
        /\ Reads(q, x.r, <<<<x.r.order, c>>>>)
        /\ y = [x EXCEPT !.r = q, !.got = Append(@, <<x.r.order, c>>)]

Loses(x, y) ==
    \E q : \E c \in Char :
        /\ x.going /\ c < 0
        /\ Reads(q, x.r, <<<<x.r.order, c>>>>)
        /\ y = [x EXCEPT !.r = q, !.going = FALSE]

LEMMA ReadNextCases ==
    ASSUME NEW x \in Readings, NEW k
    PROVE  \/ ReadNext(x, k) = x
           \/ Ends(x, ReadNext(x, k))
           \/ GoesOn(x, ReadNext(x, k))
           \/ Loses(x, ReadNext(x, k))
<1> DEFINE read == TryReadChar(x.r)
<1>1. CASE ~x.going
  BY <1>1 DEF ReadNext
<1>2. CASE x.going
  <2>1. Sound(x.r) /\ x.r.orderGot /\ x.r.started
    BY <1>2 DEF Readings, Sound
  <2>2. ReadWell(x.r, read)
    BY <2>1, ReadCharWell
  <2>3. CASE read.c < 0
    <3>1. ReadNext(x, k) = [x EXCEPT !.r = read.r, !.going = FALSE]
      BY <1>2, <2>3 DEF ReadNext
    <3>2. \/ Reads(read.r, x.r, <<>>)
          \/ read.c \in Char /\ Reads(read.r, x.r, <<<<x.r.order, read.c>>>>)
      BY <2>1, <2>2 DEF ReadWell, Got
    <3> HIDE DEF read
    <3> QED BY <1>2, <2>3, <3>1, <3>2 DEF Ends, Loses
  <2>4. CASE ~(read.c < 0)
    <3>1. ReadNext(x, k) = [x EXCEPT !.r = read.r, !.got = Append(@, <<x.r.order, read.c>>)]
      BY <1>2, <2>4 DEF ReadNext
    <3>2. read.c \in Char /\ Got(x.r, read.r, read.c)
      <4> HIDE DEF read
      <4> QED BY <2>2, <2>4 DEF ReadWell, NoByte, END_OF_BUFFER, MESSAGE_BOUNDARY
    <3> HIDE DEF read
    <3>3. Reads(read.r, x.r, <<<<x.r.order, read.c>>>>) /\ read.r.orderGot /\ read.r.order = x.r.order
      BY <2>1, <3>2 DEF Got
    <3> QED BY <1>2, <2>4, <3>1, <3>2, <3>3 DEF GoesOn
  <2> QED BY <2>3, <2>4
<1> QED BY <1>1, <1>2

LEMMA LabelledAppend ==
    ASSUME NEW got \in Labelled, NEW p \in Char \X Char
    PROVE  /\ Append(got, p) \in Labelled /\ Append(got, p) = got \o <<p>>
           /\ Len(Append(got, p)) = Len(got) + 1 /\ Len(got) \in Nat
           /\ \A j \in 1 .. Len(got) : Append(got, p)[j] = got[j]
           /\ Append(got, p)[Len(got) + 1] = p
BY AppendProperties, AppendIsConcat, LenProperties DEF Labelled

LEMMA ReadNextTook ==
    ASSUME NEW r \in Receivers, NEW x, TookFrom(x, r), NEW k
    PROVE  TookFrom(ReadNext(x, k), r)
<1>1. x \in Readings /\ x.r \in Receivers /\ x.got \in Labelled /\ (x.going => Reads(x.r, r, x.got))
  BY DEF TookFrom, Readings
<1>2. CASE ReadNext(x, k) = x
  BY <1>2, Zenon
<1>3. ASSUME NEW q, Reads(q, x.r, <<>>), NEW y, y = [x EXCEPT !.r = q, !.going = FALSE]
      PROVE  TookFrom(y, r)
  <2>1. Sound(q) /\ q \in Receivers
    BY <1>3 DEF Reads, Sound
  <2>2. y \in Readings /\ y.r = q /\ y.got = x.got /\ ~y.going
    BY <1>1, <1>3, <2>1 DEF Readings
  <2>3. ASSUME NEW g \in Labelled, Reads(x.r, r, g) PROVE Reads(q, r, g)
    <3>1. g \o <<>> = g
      BY ConcatEmptySeq DEF Labelled
    <3>2. Reads(q, r, g \o <<>>)
      BY <1>1, <1>3, <2>3, ReadsThen
    <3> QED BY <3>1, <3>2, Zenon
  <2>4. CASE Reads(x.r, r, x.got)
    <3>1. Reads(q, r, x.got)
      BY <1>1, <2>3, <2>4
    <3> QED BY <2>2, <3>1 DEF TookFrom
  <2>5. CASE Lost(x.r, r, x.got)
    <3>1. PICK c \in Char : c < 0 /\ Reads(x.r, r, Append(x.got, <<r.order, c>>))
      BY <2>5 DEF Lost
    <3>2. Append(x.got, <<r.order, c>>) \in Labelled
      BY <3>1 DEF Reads
    <3>3. Reads(q, r, Append(x.got, <<r.order, c>>))
      BY <2>3, <3>1, <3>2
    <3>4. Lost(q, r, x.got)
      BY <3>1, <3>3 DEF Lost
    <3> QED BY <2>2, <3>4 DEF TookFrom
  <2> QED BY <2>4, <2>5 DEF TookFrom
<1>4. ASSUME NEW q, NEW c \in Char, x.going, Reads(q, x.r, <<<<x.r.order, c>>>>)
      PROVE  LET p == <<r.order, c>> IN
             /\ p \in Char \X Char /\ Sound(q) /\ q \in Receivers
             /\ Reads(q, r, Append(x.got, p))
  <2> DEFINE p == <<r.order, c>>
  <2>1. Sound(q) /\ q \in Receivers /\ p \in Char \X Char
    BY <1>4 DEF Reads, Sound, Receivers
  <2>2. x.r.order = r.order
    BY <1>4 DEF TookFrom
  <2>3. Reads(q, x.r, <<p>>)
    BY <1>4, <2>2
  <2> HIDE DEF p
  <2>4. Reads(q, r, x.got \o <<p>>)
    BY <1>1, <1>4, <2>3, ReadsThen
  <2>5. Reads(q, r, Append(x.got, p))
    BY <1>1, <2>1, <2>4, LabelledAppend
  <2> QED BY <2>1, <2>5 DEF p
<1>5. ASSUME NEW q, NEW c \in Char, NEW y,
             x.going /\ ~(c < 0) /\ q.orderGot /\ q.order = x.r.order,
             Reads(q, x.r, <<<<x.r.order, c>>>>),
             y = [x EXCEPT !.r = q, !.got = Append(@, <<x.r.order, c>>)]
      PROVE  TookFrom(y, r)
  <2> DEFINE p == <<r.order, c>>
  <2>1. p \in Char \X Char /\ Sound(q) /\ q \in Receivers /\ Reads(q, r, Append(x.got, p))
    BY <1>4, <1>5
  <2>2. x.r.order = r.order /\ p[1] = r.order /\ ~(p[2] < 0)
    BY <1>5 DEF TookFrom
  <2>3. y = [x EXCEPT !.r = q, !.got = Append(@, p)]
    BY <1>5, <2>2
  <2> HIDE DEF p
  <2>4. /\ Append(x.got, p) \in Labelled
        /\ Len(Append(x.got, p)) = Len(x.got) + 1 /\ Len(x.got) \in Nat
        /\ \A j \in 1 .. Len(x.got) : Append(x.got, p)[j] = x.got[j]
        /\ Append(x.got, p)[Len(x.got) + 1] = p
    BY <1>1, <2>1, LabelledAppend
  <2>5. y \in Readings /\ y.r = q /\ y.got = Append(x.got, p) /\ y.going
    BY <1>1, <1>5, <2>1, <2>3, <2>4 DEF Readings
  <2>6. ASSUME NEW j \in 1 .. Len(y.got) PROVE y.got[j][1] = r.order /\ ~(y.got[j][2] < 0)
    <3>1. j \in 1 .. Len(x.got) \/ j = Len(x.got) + 1
      BY <2>4, <2>5
    <3>2. \A u \in 1 .. Len(x.got) : x.got[u][1] = r.order /\ ~(x.got[u][2] < 0)
      BY DEF TookFrom
    <3> QED BY <2>2, <2>4, <2>5, <3>1, <3>2
  <2> QED BY <1>5, <2>1, <2>2, <2>5, <2>6 DEF TookFrom
<1>6. ASSUME NEW q, NEW c \in Char, NEW y, x.going, c < 0, Reads(q, x.r, <<<<x.r.order, c>>>>),
             y = [x EXCEPT !.r = q, !.going = FALSE]
      PROVE  TookFrom(y, r)
  <2>1. Sound(q) /\ q \in Receivers /\ Reads(q, r, Append(x.got, <<r.order, c>>))
    BY <1>4, <1>6
  <2>2. Lost(q, r, x.got)
    BY <1>6, <2>1 DEF Lost
  <2>3. y \in Readings /\ y.r = q /\ y.got = x.got /\ ~y.going
    BY <1>1, <1>6, <2>1 DEF Readings
  <2> QED BY <2>2, <2>3 DEF TookFrom
<1>7. CASE Ends(x, ReadNext(x, k))
  BY <1>3, <1>7 DEF Ends
<1>8. CASE GoesOn(x, ReadNext(x, k))
  BY <1>5, <1>8 DEF GoesOn
<1>9. CASE Loses(x, ReadNext(x, k))
  BY <1>6, <1>9 DEF Loses
<1> QED BY <1>1, <1>2, <1>7, <1>8, <1>9, ReadNextCases

LEMMA ReadNextType ==
    ASSUME NEW x \in Readings, NEW k
    PROVE  ReadNext(x, k) \in Readings
<1>1. x \in [r : Receivers, got : Labelled, going : BOOLEAN] /\ x.r \in Receivers
  BY DEF Readings
<1>2. ASSUME NEW q, NEW g, Reads(q, x.r, g), NEW y, y = [x EXCEPT !.r = q, !.going = FALSE]
      PROVE  y \in Readings
  <2>1. Sound(q) /\ q \in Receivers
    BY <1>2 DEF Reads, Sound
  <2> QED BY <1>1, <1>2, <2>1 DEF Readings
<1>3. ASSUME NEW q, NEW c \in Char, NEW y,
             q.orderGot, Reads(q, x.r, <<<<x.r.order, c>>>>),
             y = [x EXCEPT !.r = q, !.got = Append(@, <<x.r.order, c>>)]
      PROVE  y \in Readings
  <2>1. Sound(q) /\ q \in Receivers /\ <<x.r.order, c>> \in Char \X Char
    BY <1>1, <1>3 DEF Reads, Sound, Receivers
  <2>2. Append(x.got, <<x.r.order, c>>) \in Labelled
    BY <1>1, <2>1, AppendProperties DEF Labelled
  <2> QED BY <1>1, <1>3, <2>1, <2>2 DEF Readings
<1>4. CASE ReadNext(x, k) = x
  BY <1>4, Zenon
<1>5. CASE Ends(x, ReadNext(x, k))
  BY <1>2, <1>5 DEF Ends
<1>6. CASE GoesOn(x, ReadNext(x, k))
  BY <1>3, <1>6 DEF GoesOn
<1>7. CASE Loses(x, ReadNext(x, k))
  BY <1>2, <1>7 DEF Loses
<1> QED BY <1>4, <1>5, <1>6, <1>7, ReadNextCases, Zenon

(* The intermediate results of reading several bytes.                      *)
LEMMA ReadNextSteps ==
    ASSUME NEW base \in Readings, NEW s \in Seq(Nat)
    PROVE  \E f \in [0 .. Len(s) -> Readings] :
              /\ f[0] = base
              /\ \A k \in 1 .. Len(s) : f[k] = ReadNext(f[k - 1], s[k])
              /\ Folded(ReadNext, base, s) = f[Len(s)]
<1> DEFINE n == Len(s)
           A == Readings
           g == [p \in (1 .. n) \X A |-> ReadNext(p[2], s[p[1]])]
           Step(after) == [k \in 0 .. n |->
               IF k = 0 THEN base
               ELSE CHOOSE next \in {ReadNext(before, s[k]) : before \in {after[k - 1]}} : TRUE]
<1>1. n \in Nat /\ \A k \in 1 .. n : s[k] \in Nat
  BY LenProperties, ElementOfSeq
<1>2. g \in [(1 .. n) \X A -> A]
  BY <1>1, ReadNextType
<1>3. PICK f : RunOf(f, n, A, base, g)
  <2>1. n \in Nat /\ base \in A
    BY <1>1
  <2> HIDE DEF n, A, g
  <2> QED BY <2>1, <1>2, RecursionExists, Zenon
<1>4. ASSUME NEW x \in A, NEW k \in 1 .. n PROVE g[<<k, x>>] = ReadNext(x, s[k])
  <2> HIDE DEF A
  <2> QED OBVIOUS
<1>5. ASSUME NEW k \in 1 .. n PROVE f[k - 1] \in A /\ f[k] = ReadNext(f[k - 1], s[k])
  <2>1. k - 1 \in 0 .. n
    BY <1>1
  <2> HIDE DEF A, g
  <2> QED BY <1>3, <1>4, <2>1 DEF RunOf
<1>6. ASSUME NEW after, NEW k \in 1 .. n
      PROVE  Step(after)[k] = ReadNext(after[k - 1], s[k])
  <2> DEFINE v == ReadNext(after[k - 1], s[k])
  <2>1. {ReadNext(before, s[k]) : before \in {after[k - 1]}} = {v}
    OBVIOUS
  <2>2. (CHOOSE next \in {v} : TRUE) = v
    OBVIOUS
  <2>3. k \in 0 .. n /\ k # 0
    BY <1>1
  <2> QED BY <2>1, <2>2, <2>3
<1>7. f = Step(f)
  <2>1. f = [k \in 0 .. n |-> f[k]]
    BY <1>3 DEF RunOf
  <2>2. ASSUME NEW k \in 0 .. n PROVE f[k] = Step(f)[k]
    <3>1. CASE k = 0
      <4>1. Step(f)[0] = base
        BY <1>1
      <4> QED BY <1>3, <3>1, <4>1 DEF RunOf
    <3>2. CASE k # 0
      <4>1. k \in 1 .. n
        BY <1>1, <3>2
      <4> HIDE DEF Step
      <4> QED BY <1>5, <1>6, <4>1
    <3> QED BY <3>1, <3>2
  <2>3. Step(f) = [k \in 0 .. n |-> Step(f)[k]]
    OBVIOUS
  <2> HIDE DEF Step
  <2> QED BY <2>1, <2>2, <2>3, Zenon
<1> DEFINE Fold == CHOOSE after : after = Step(after)
<1>8. Fold = Step(Fold)
  <2> HIDE DEF Step
  <2> QED BY <1>7, Zenon
<1>9. Folded(ReadNext, base, s) = Fold[n]
  BY Zenon DEF Folded
<1> HIDE DEF Fold
<1>10. Follows(Fold, n, A, base, g)
  <2>1. Step(Fold)[0] = base
    BY <1>1
  <2> HIDE DEF Step, A, g
  <2> QED BY <1>4, <1>6, <1>8, <2>1 DEF Follows
<1>11. Fold[n] = f[n]
  <2>1. n \in 0 .. n
    BY <1>1
  <2>2. \A k \in 0 .. n : Fold[k] = f[k]
    <3>1. n \in Nat
      BY <1>1
    <3> HIDE DEF n, A, g
    <3> QED BY <3>1, <1>3, <1>10, RunUnique
  <2> QED BY <2>1, <2>2
<1>12. f \in [0 .. n -> A] /\ f[0] = base
  BY <1>3 DEF RunOf
<1> QED BY <1>5, <1>9, <1>11, <1>12

(* decapsulate and skip: the bytes of one client, and the oldest ones. *)
LEMMA ReadManyTook ==
    ASSUME NEW r, Sound(r), NEW n \in Nat
    PROVE  TookFrom(ReadMany(r, n), r)
<1> DEFINE s == [k \in 1 .. n |-> k]
           base == [r |-> r, got |-> <<>>, going |-> r.orderGot]
<1>1. r \in Receivers /\ s \in Seq(Nat) /\ <<>> \in Labelled /\ Len(<<>>) = 0
  BY EmptySeq DEF Sound, Labelled
<1>2. base \in Readings
  BY <1>1 DEF Readings, Receivers
<1>3. TookFrom(base, r)
  BY <1>1, <1>2, ReadsNothing DEF TookFrom
<1>4. ReadMany(r, n) = Folded(ReadNext, base, s)
  BY DEF ReadMany
<1> HIDE DEF s, base
<1>5. PICK f \in [0 .. Len(s) -> Readings] :
          /\ f[0] = base
          /\ \A k \in 1 .. Len(s) : f[k] = ReadNext(f[k - 1], s[k])
          /\ Folded(ReadNext, base, s) = f[Len(s)]
  BY <1>1, <1>2, ReadNextSteps
<1> DEFINE G == {x \in Readings : TookFrom(x, r)}
<1>6. f[0] \in G
  BY <1>2, <1>3, <1>5
<1>7. ASSUME NEW k \in 1 .. Len(s), f[k - 1] \in G PROVE f[k] \in G
  <2>1. TookFrom(ReadNext(f[k - 1], s[k]), r)
    BY <1>1, <1>7, ReadNextTook
  <2>2. TookFrom(f[k], r)
    BY <1>5, <2>1
  <2> QED BY <2>2 DEF TookFrom
<1>8. Len(s) \in Nat
  BY <1>1, LenProperties
<1>9. f[Len(s)] \in G
  <2>1. \A k \in 0 .. Len(s) : f[k] \in G
    <3> HIDE DEF G
    <3> QED BY <1>6, <1>7, <1>8, RunStays
  <2> QED BY <1>8, <2>1
<1> QED BY <1>4, <1>5, <1>9

-----------------------------------------------------------------------------
(* The encoder writes what the stream means.                               *)
Senders ==
    {m \in [message : Seq(Char), order : Char, escape : BOOLEAN,
            escapedChar : Char, startPut : BOOLEAN, orderPut : BOOLEAN] :
        Len(m.message) <= Size}

Attempts == [mb : Senders, fits : BOOLEAN, count : Nat]

(* What the message written so far means behind what was sent before. *)
Written(a, B) == Decoded(B, a.mb.message)

(* The encoder's variables beside its buffer. *)
Flags(m, order, escape, escapedChar, startPut, orderPut) ==
    /\ m \in Senders
    /\ m.order = order /\ m.escape = escape /\ m.escapedChar = escapedChar
    /\ m.startPut = startPut /\ m.orderPut = orderPut

(* b is the attempt a after it tried to put c. *)
Putting(b, a, c, B) ==
    /\ b \in Attempts /\ b.count = a.count
    /\ Flags(b.mb, a.mb.order, a.mb.escape, a.mb.escapedChar, a.mb.startPut, a.mb.orderPut)
    /\ ~b.fits => Written(b, B) = Written(a, B)
    /\ b.fits => a.fits /\ Written(b, B) = Meaning(Written(a, B), c)

LEMMA WrittenType ==
    ASSUME NEW B \in Decodings, NEW a \in Attempts
    PROVE  Written(a, B) \in Decodings
<1>1. a.mb.message \in Seq(Char)
  BY DEF Attempts, Senders
<1> QED BY <1>1, DecodingExists DEF Written

LEMMA TryPutPuts ==
    ASSUME NEW B \in Decodings, NEW a \in Attempts, NEW c \in Char
    PROVE  Putting(TryPut(a, c), a, c, B)
<1>1. a.mb \in Senders /\ a.mb.message \in Seq(Char) /\ Len(a.mb.message) \in Nat
  BY LenProperties DEF Attempts, Senders
<1>2. CASE ~a.fits
  BY <1>1, <1>2 DEF TryPut, Putting, Flags
<1>3. CASE a.fits /\ Len(a.mb.message) = Size
  <2>1. TryPut(a, c) = [a EXCEPT !.fits = FALSE]
    BY <1>3 DEF TryPut
  <2> QED BY <1>1, <2>1 DEF Putting, Attempts, Written, Flags
<1>4. CASE a.fits /\ Len(a.mb.message) # Size
  <2> DEFINE s == Append(a.mb.message, c)
             n == [a.mb EXCEPT !.message = s]
             b == [a EXCEPT !.mb = n]
  <2>1. TryPut(a, c) = b
    BY <1>4 DEF TryPut, Attempts, Senders
  <2>2. s \in Seq(Char) /\ Len(s) = Len(a.mb.message) + 1
    BY <1>1, AppendProperties
  <2>3. Len(s) <= Size
    BY <1>1, <1>4, <2>2, CodecAssumption DEF Senders
  <2>4. Decoded(B, s) = Meaning(Decoded(B, a.mb.message), c)
    BY <1>1, DecodedAppend
  <2> HIDE DEF s
  <2>5. /\ n \in Senders /\ n.message = s
        /\ n.order = a.mb.order /\ n.escape = a.mb.escape /\ n.escapedChar = a.mb.escapedChar
        /\ n.startPut = a.mb.startPut /\ n.orderPut = a.mb.orderPut
    BY <1>1, <2>2, <2>3 DEF Senders
  <2> HIDE DEF n
  <2>6. b \in Attempts /\ b.mb = n /\ b.fits = a.fits /\ b.count = a.count
    BY <2>5 DEF Attempts
  <2> HIDE DEF b
  <2>7. Written(b, B) = Meaning(Written(a, B), c)
    BY <2>4, <2>5, <2>6 DEF Written
  <2> QED BY <1>4, <2>1, <2>5, <2>6, <2>7 DEF Putting, Flags
<1> QED BY <1>2, <1>3, <1>4

(* The flags of the encoder are those of whoever decodes what it wrote. *)
Coherent(m, d) ==
    /\ m \in Senders /\ d \in Decodings
    /\ OrdersAreNamed
    /\ d.out \in Seq(Orders \X Chars)
    /\ d.started = m.startPut /\ d.escape = m.escape
    /\ ~m.startPut => ~m.escape /\ ~m.orderPut /\ ~d.orderGot
    /\ m.startPut => m.order \in Orders
    /\ d.orderGot => /\ m.orderPut /\ d.order = m.order
                     /\ m.escape => m.escapedChar \in Chars
    /\ ~d.orderGot => /\ m.orderPut = m.escape
                      /\ m.escape => m.escapedChar = m.order

(* What comes out in the end: the byte whose escape was put counts as sent. *)
Sent(m, d) ==
    IF m.escape /\ d.orderGot THEN Append(d.out, <<m.order, m.escapedChar>>) ELSE d.out

(* An attempt whose flags agree with what it wrote, and what it has sent.  *)
Fine(a, B) == a \in Attempts /\ Coherent(a.mb, Written(a, B))

SentBy(a, B) == Sent(a.mb, Written(a, B))

(* Only the flags of the message buffer change. *)
LEMMA FlagsOf ==
    ASSUME NEW b \in Attempts
    PROVE  /\ \A v \in BOOLEAN :
                /\ [b EXCEPT !.mb.escape = v] = [b EXCEPT !.mb = [b.mb EXCEPT !.escape = v]]
                /\ [b EXCEPT !.mb.startPut = v] = [b EXCEPT !.mb = [b.mb EXCEPT !.startPut = v]]
                /\ [b EXCEPT !.mb.orderPut = v] = [b EXCEPT !.mb = [b.mb EXCEPT !.orderPut = v]]
           /\ \A m \in Senders : /\ [b EXCEPT !.mb = m] \in Attempts
                                 /\ [b EXCEPT !.mb = m].mb = m
                                 /\ [b EXCEPT !.mb = m].fits = b.fits
                                 /\ [b EXCEPT !.mb = m].count = b.count
BY DEF Attempts, Senders

(* A state of decoding, field by field. *)
State(e, escape, started, orderGot, order, out) ==
    /\ e \in Decodings
    /\ e.escape = escape /\ e.started = started /\ e.orderGot = orderGot
    /\ e.order = order /\ e.out = out

(* The four kinds of bytes.                                                *)
LEMMA MeansStart ==
    ASSUME NEW d \in Decodings, NEW c \in Char, ~d.started
    PROVE  State(Meaning(d, c), d.escape, TRUE, d.orderGot, d.order, d.out)
BY MeaningType DEF Meaning, State, Decodings

LEMMA MeansEscape ==
    ASSUME NEW d \in Decodings, d.started, ~d.escape
    PROVE  State(Meaning(d, MESSAGE_ESCAPE), TRUE, TRUE, d.orderGot, d.order, d.out)
<1>1. Meaning(d, MESSAGE_ESCAPE) = [d EXCEPT !.escape = TRUE]
  BY DEF Meaning, MESSAGE_EDGE, MESSAGE_ESCAPE
<1> QED BY <1>1 DEF State, Decodings

LEMMA MeansEdge ==
    ASSUME NEW d \in Decodings, d.started, ~d.escape
    PROVE  State(Meaning(d, MESSAGE_EDGE), FALSE, FALSE, FALSE, d.order, d.out)
<1>1. Meaning(d, MESSAGE_EDGE) = [d EXCEPT !.started = FALSE, !.orderGot = FALSE]
  BY DEF Meaning, MESSAGE_EDGE, MESSAGE_ESCAPE
<1>2. d.escape = FALSE
  BY DEF Decodings
<1> QED BY <1>1, <1>2 DEF State, Decodings

LEMMA MeansByte ==
    ASSUME NEW d \in Decodings, NEW c \in Char, d.started, d.escape \/ ~NeedEscape(c)
    PROVE  /\ d.orderGot => State(Meaning(d, c), FALSE, TRUE, TRUE, d.order,
                                  Append(d.out, <<d.order, c>>))
           /\ ~d.orderGot /\ c \notin NoByte => State(Meaning(d, c), FALSE, TRUE, TRUE, c, d.out)
<1>1. c \notin {MESSAGE_EDGE, MESSAGE_ESCAPE} \/ d.escape
  BY DEF NeedEscape
<1>2. CASE d.orderGot
  <2> DEFINE o == Append(d.out, <<d.order, c>>)
  <2>1. Meaning(d, c) = [d EXCEPT !.escape = FALSE, !.out = o]
    BY <1>1, <1>2 DEF Meaning
  <2>2. Meaning(d, c) \in Decodings
    BY MeaningType
  <2> HIDE DEF o
  <2>3. d.started = TRUE /\ d.orderGot = TRUE
    BY <1>2 DEF Decodings
  <2>4. State(Meaning(d, c), FALSE, TRUE, TRUE, d.order, o)
    BY <2>1, <2>2, <2>3 DEF State, Decodings
  <2> QED BY <1>2, <2>4 DEF o
<1>3. CASE ~d.orderGot /\ c \notin NoByte
  <2>1. Meaning(d, c) = [d EXCEPT !.escape = FALSE, !.order = c, !.orderGot = TRUE]
    BY <1>1, <1>3 DEF Meaning
  <2>2. Meaning(d, c) \in Decodings
    BY MeaningType
  <2>3. d.started = TRUE
    BY DEF Decodings
  <2> QED BY <1>3, <2>1, <2>2, <2>3 DEF State, Decodings
<1> QED BY <1>2, <1>3

(* The byte behind its escape: nothing that was not sent before.           *)
LEMMA EscapedCharMeans ==
    ASSUME NEW m, NEW d, Coherent(m, d), m.escape, NEW n,
           Flags(n, m.order, FALSE, m.escapedChar, m.startPut, m.orderPut)
    PROVE  Coherent(n, Meaning(d, m.escapedChar)) /\ Sent(n, Meaning(d, m.escapedChar)) = Sent(m, d)
<1> DEFINE c == m.escapedChar
           e == Meaning(d, c)
<1>1. m \in Senders /\ d \in Decodings /\ c \in Char /\ d.started /\ d.escape
  BY DEF Coherent, Senders
<1>2. CASE d.orderGot
  <2>1. c \in Chars /\ m.order \in Orders /\ d.order = m.order
    BY <1>1, <1>2 DEF Coherent
  <2>2. /\ Append(d.out, <<m.order, c>>) \in Seq(Orders \X Chars)
    BY <2>1, AppendProperties DEF Coherent
  <2>3. State(e, FALSE, TRUE, TRUE, m.order, Append(d.out, <<m.order, c>>))
    BY <1>1, <1>2, <2>1, MeansByte
  <2> HIDE DEF e
  <2> QED BY <1>1, <1>2, <2>1, <2>2, <2>3 DEF Coherent, Flags, State, Sent, e
<1>3. CASE ~d.orderGot
  <2>1. c = m.order /\ m.orderPut /\ m.startPut /\ c \notin NoByte
    BY <1>1, <1>3 DEF Coherent, OrdersAreNamed
  <2>2. State(e, FALSE, TRUE, TRUE, c, d.out)
    BY <1>1, <1>3, <2>1, MeansByte
  <2> HIDE DEF e
  <2> QED BY <1>1, <1>3, <2>1, <2>2 DEF Coherent, Flags, State, Sent, e
<1> QED BY <1>2, <1>3

(* put_escaped_char. *)
LEMMA EscapedCharPut ==
    ASSUME NEW B \in Decodings, NEW a, Fine(a, B)
    PROVE  LET b == PutEscapedChar(a) IN
           /\ Fine(b, B) /\ SentBy(b, B) = SentBy(a, B)
           /\ b.count = a.count /\ (b.fits => a.fits /\ ~b.mb.escape)
           /\ b.mb.startPut = a.mb.startPut /\ b.mb.orderPut = a.mb.orderPut
           /\ b.mb.order = a.mb.order
<1> DEFINE c == a.mb.escapedChar
           t == TryPut(a, c)
           b == PutEscapedChar(a)
           n == [t.mb EXCEPT !.escape = ~t.fits]
<1>1. a \in Attempts /\ a.mb \in Senders /\ c \in Char /\ a.mb.escape \in BOOLEAN
  BY DEF Fine, Attempts, Senders
<1>2. CASE ~a.mb.escape
  <2>1. b = a
    BY <1>2 DEF PutEscapedChar
  <2> HIDE DEF b
  <2> QED BY <1>2, <2>1 DEF b
<1>3. CASE a.mb.escape
  <2>1. Putting(t, a, c, B)
    BY <1>1, TryPutPuts
  <2>2. b = [t EXCEPT !.mb.escape = ~t.fits]
    BY <1>3 DEF PutEscapedChar
  <2> HIDE DEF t, c
  <2>3. t \in Attempts /\ t.mb \in Senders /\ t.fits \in BOOLEAN /\ t.mb.message \in Seq(Char)
    BY <2>1 DEF Putting, Attempts, Senders
  <2>4. /\ Flags(n, t.mb.order, ~t.fits, t.mb.escapedChar, t.mb.startPut, t.mb.orderPut)
        /\ n.message = t.mb.message
    BY <2>3 DEF Senders, Flags
  <2>5. Flags(n, a.mb.order, ~t.fits, c, a.mb.startPut, a.mb.orderPut)
    BY <2>1, <2>4 DEF Putting, Flags, c
  <2>6. b = [t EXCEPT !.mb = n]
    BY <2>2, <2>3, FlagsOf
  <2>7. n \in Senders /\ n.message = t.mb.message
    BY <2>4 DEF Flags
  <2> HIDE DEF n
  <2>8. b \in Attempts /\ b.mb = n /\ b.fits = t.fits /\ b.count = t.count
    BY <2>3, <2>6, <2>7, FlagsOf
  <2> HIDE DEF b
  <2>9. Written(b, B) = Written(t, B)
    BY <2>7, <2>8 DEF Written
  <2>10. CASE t.fits
    <3>1. Coherent(n, Meaning(Written(a, B), c)) /\ Sent(n, Meaning(Written(a, B), c)) = SentBy(a, B)
      <4>1. Flags(n, a.mb.order, FALSE, c, a.mb.startPut, a.mb.orderPut)
        BY <2>5, <2>10
      <4> QED BY <1>3, <4>1, EscapedCharMeans DEF Fine, SentBy, c
    <3>2. Written(b, B) = Meaning(Written(a, B), c) /\ a.fits /\ b.count = a.count
      BY <2>1, <2>8, <2>9, <2>10 DEF Putting
    <3>3. ~n.escape /\ n.startPut = a.mb.startPut /\ n.orderPut = a.mb.orderPut /\ n.order = a.mb.order
      BY <2>5, <2>10 DEF Flags
    <3> QED BY <2>8, <3>1, <3>2, <3>3 DEF Fine, SentBy, b
  <2>11. CASE ~t.fits
    <3>1. /\ n.escape = a.mb.escape /\ n.startPut = a.mb.startPut /\ n.orderPut = a.mb.orderPut
          /\ n.order = a.mb.order /\ n.escapedChar = a.mb.escapedChar /\ n \in Senders
      BY <1>1, <1>3, <2>5, <2>11 DEF Flags, c
    <3>2. Written(b, B) = Written(a, B) /\ b.count = a.count
      BY <2>1, <2>8, <2>9, <2>11 DEF Putting
    <3>3. Coherent(n, Written(a, B)) /\ Sent(n, Written(a, B)) = SentBy(a, B)
      BY <3>1 DEF Fine, SentBy, Coherent, Sent
    <3> QED BY <2>8, <2>11, <3>1, <3>2, <3>3 DEF Fine, SentBy, b
  <2> QED BY <2>10, <2>11
<1> QED BY <1>2, <1>3

(* What a flag that is set changes, and what it leaves.                    *)
Marked(b, t, order, escape, escapedChar, startPut, orderPut) ==
    /\ b \in Attempts /\ b.fits = t.fits /\ b.count = t.count
    /\ b.mb.message = t.mb.message
    /\ Flags(b.mb, order, escape, escapedChar, startPut, orderPut)

LEMMA MarkedAs ==
    ASSUME NEW t \in Attempts, NEW n \in Senders, n.message = t.mb.message, NEW b,
           b = [t EXCEPT !.mb = n]
    PROVE  Marked(b, t, n.order, n.escape, n.escapedChar, n.startPut, n.orderPut)
<1>1. b \in Attempts /\ b.mb = n /\ b.fits = t.fits /\ b.count = t.count
  BY DEF Attempts
<1> QED BY <1>1 DEF Marked, Flags

LEMMA StartMarked ==
    ASSUME NEW t \in Attempts, NEW v \in BOOLEAN
    PROVE  Marked([t EXCEPT !.mb.startPut = v], t, t.mb.order, t.mb.escape, t.mb.escapedChar,
                  v, t.mb.orderPut)
<1> DEFINE n == [t.mb EXCEPT !.startPut = v]
<1>1. /\ n \in Senders /\ n.message = t.mb.message /\ n.startPut = v
      /\ n.order = t.mb.order /\ n.escape = t.mb.escape /\ n.escapedChar = t.mb.escapedChar
      /\ n.orderPut = t.mb.orderPut
  BY DEF Attempts, Senders
<1>2. [t EXCEPT !.mb.startPut = v] = [t EXCEPT !.mb = n]
  BY FlagsOf
<1> HIDE DEF n
<1> QED BY <1>1, <1>2, MarkedAs

LEMMA OrderMarked ==
    ASSUME NEW t \in Attempts, NEW v \in BOOLEAN
    PROVE  Marked([t EXCEPT !.mb.orderPut = v], t, t.mb.order, t.mb.escape, t.mb.escapedChar,
                  t.mb.startPut, v)
<1> DEFINE n == [t.mb EXCEPT !.orderPut = v]
<1>1. /\ n \in Senders /\ n.message = t.mb.message /\ n.orderPut = v
      /\ n.order = t.mb.order /\ n.escape = t.mb.escape /\ n.escapedChar = t.mb.escapedChar
      /\ n.startPut = t.mb.startPut
  BY DEF Attempts, Senders
<1>2. [t EXCEPT !.mb.orderPut = v] = [t EXCEPT !.mb = n]
  BY FlagsOf
<1> HIDE DEF n
<1> QED BY <1>1, <1>2, MarkedAs

LEMMA EscapeMarked ==
    ASSUME NEW t \in Attempts, NEW c \in Char
    PROVE  Marked([t EXCEPT !.mb.escape = TRUE, !.mb.escapedChar = c], t, t.mb.order, TRUE, c,
                  t.mb.startPut, t.mb.orderPut)
<1> DEFINE n == [t.mb EXCEPT !.escape = TRUE, !.escapedChar = c]
           b == [t EXCEPT !.mb.escape = TRUE, !.mb.escapedChar = c]
<1>1. /\ n \in Senders /\ n.message = t.mb.message /\ n.escape = TRUE /\ n.escapedChar = c
      /\ n.order = t.mb.order /\ n.startPut = t.mb.startPut /\ n.orderPut = t.mb.orderPut
  BY DEF Attempts, Senders
<1>2. b = [t EXCEPT !.mb = n]
  BY DEF Attempts, Senders
<1> HIDE DEF n, b
<1>3. Marked(b, t, t.mb.order, TRUE, c, t.mb.startPut, t.mb.orderPut)
  BY <1>1, <1>2, MarkedAs
<1> QED BY <1>3 DEF b

LEMMA NewOrderMarked ==
    ASSUME NEW t \in Attempts, NEW o \in Char
    PROVE  Marked([t EXCEPT !.mb.order = o, !.mb.orderPut = FALSE], t, o, t.mb.escape,
                  t.mb.escapedChar, t.mb.startPut, FALSE)
<1> DEFINE n == [t.mb EXCEPT !.order = o, !.orderPut = FALSE]
           b == [t EXCEPT !.mb.order = o, !.mb.orderPut = FALSE]
<1>1. /\ n \in Senders /\ n.message = t.mb.message /\ n.escape = t.mb.escape
      /\ n.escapedChar = t.mb.escapedChar
      /\ n.order = o /\ n.startPut = t.mb.startPut /\ n.orderPut = FALSE
  BY DEF Attempts, Senders
<1>2. b = [t EXCEPT !.mb = n]
  BY DEF Attempts, Senders
<1> HIDE DEF n, b
<1>3. Marked(b, t, o, t.mb.escape, t.mb.escapedChar, t.mb.startPut, FALSE)
  BY <1>1, <1>2, MarkedAs
<1> QED BY <1>3 DEF b

(* What the other bytes mean when the encoder puts them.                   *)
LEMMA StartMeans ==
    ASSUME NEW m, NEW d, Coherent(m, d), ~m.startPut, m.order \in Orders, NEW c \in Char,
           NEW n, Flags(n, m.order, m.escape, m.escapedChar, TRUE, m.orderPut)
    PROVE  Coherent(n, Meaning(d, c)) /\ Sent(n, Meaning(d, c)) = Sent(m, d)
<1> DEFINE e == Meaning(d, c)
<1>1. m \in Senders /\ d \in Decodings /\ ~d.started /\ ~d.orderGot /\ ~m.escape /\ ~m.orderPut
  BY DEF Coherent
<1>2. State(e, d.escape, TRUE, d.orderGot, d.order, d.out)
  BY <1>1, MeansStart
<1> HIDE DEF e
<1> QED BY <1>1, <1>2 DEF Coherent, Flags, State, Sent, e

LEMMA EdgeMeans ==
    ASSUME NEW m, NEW d, Coherent(m, d), m.startPut, ~m.escape, NEW o \in Orders,
           NEW n, Flags(n, o, FALSE, m.escapedChar, FALSE, FALSE)
    PROVE  /\ Coherent(n, Meaning(d, MESSAGE_EDGE))
           /\ Sent(n, Meaning(d, MESSAGE_EDGE)) = Sent(m, d)
<1> DEFINE e == Meaning(d, MESSAGE_EDGE)
<1>1. m \in Senders /\ d \in Decodings /\ d.started /\ ~d.escape
  BY DEF Coherent
<1>2. State(e, FALSE, FALSE, FALSE, d.order, d.out)
  BY <1>1, MeansEdge
<1> HIDE DEF e
<1> QED BY <1>1, <1>2 DEF Coherent, Flags, State, Sent, e

LEMMA OrderMeans ==
    ASSUME NEW m, NEW d, Coherent(m, d), m.startPut, ~m.orderPut
    PROVE  LET o == m.order IN
           /\ \A n : ~NeedEscape(o) /\ Flags(n, o, FALSE, m.escapedChar, TRUE, TRUE) =>
                 Coherent(n, Meaning(d, o)) /\ Sent(n, Meaning(d, o)) = Sent(m, d)
           /\ \A n : Flags(n, o, TRUE, o, TRUE, TRUE) =>
                 /\ Coherent(n, Meaning(d, MESSAGE_ESCAPE))
                 /\ Sent(n, Meaning(d, MESSAGE_ESCAPE)) = Sent(m, d)
<1> DEFINE o == m.order
           e == Meaning(d, o)
           g == Meaning(d, MESSAGE_ESCAPE)
<1>1. /\ m \in Senders /\ d \in Decodings /\ d.started /\ ~d.orderGot /\ ~m.escape /\ ~d.escape
      /\ o \in Char /\ o \in Orders /\ o \notin NoByte
  BY DEF Coherent, Senders, OrdersAreNamed
<1>2. ASSUME NEW n, ~NeedEscape(o), Flags(n, o, FALSE, m.escapedChar, TRUE, TRUE)
      PROVE  Coherent(n, e) /\ Sent(n, e) = Sent(m, d)
  <2>1. State(e, FALSE, TRUE, TRUE, o, d.out)
    BY <1>1, <1>2, MeansByte
  <2> HIDE DEF e
  <2> QED BY <1>1, <1>2, <2>1 DEF Coherent, Flags, State, Sent
<1>3. ASSUME NEW n, Flags(n, o, TRUE, o, TRUE, TRUE)
      PROVE  Coherent(n, g) /\ Sent(n, g) = Sent(m, d)
  <2>1. State(g, TRUE, TRUE, d.orderGot, d.order, d.out)
    BY <1>1, MeansEscape
  <2> HIDE DEF g
  <2> QED BY <1>1, <1>3, <2>1 DEF Coherent, Flags, State, Sent
<1> QED BY <1>2, <1>3

LEMMA CharMeans ==
    ASSUME NEW m, NEW d, Coherent(m, d), m.startPut, m.orderPut, ~m.escape, NEW c \in Chars
    PROVE  LET x == <<m.order, c>> IN
           /\ x \in Orders \X Chars
           /\ \A n : ~NeedEscape(c) /\ Flags(n, m.order, FALSE, m.escapedChar, TRUE, TRUE) =>
                 Coherent(n, Meaning(d, c)) /\ Sent(n, Meaning(d, c)) = Append(Sent(m, d), x)
           /\ \A n : Flags(n, m.order, TRUE, c, TRUE, TRUE) =>
                 /\ Coherent(n, Meaning(d, MESSAGE_ESCAPE))
                 /\ Sent(n, Meaning(d, MESSAGE_ESCAPE)) = Append(Sent(m, d), x)
<1> DEFINE o == m.order
           x == <<o, c>>
           e == Meaning(d, c)
           g == Meaning(d, MESSAGE_ESCAPE)
<1>1. /\ m \in Senders /\ d \in Decodings /\ d.started /\ d.orderGot /\ ~d.escape
      /\ d.order = o /\ o \in Orders /\ c \in Char
  BY CodecAssumption DEF Coherent, Senders, Char
<1>2. x \in Orders \X Chars /\ Sent(m, d) = d.out
  BY <1>1 DEF Sent
<1>3. Append(d.out, x) \in Seq(Orders \X Chars)
  BY <1>2, AppendProperties DEF Coherent
<1>4. ASSUME NEW n, ~NeedEscape(c), Flags(n, o, FALSE, m.escapedChar, TRUE, TRUE)
      PROVE  Coherent(n, e) /\ Sent(n, e) = Append(Sent(m, d), x)
  <2>1. State(e, FALSE, TRUE, TRUE, o, Append(d.out, x))
    BY <1>1, <1>4, MeansByte
  <2> HIDE DEF e, x
  <2> QED BY <1>1, <1>2, <1>3, <1>4, <2>1 DEF Coherent, Flags, State, Sent
<1>5. ASSUME NEW n, Flags(n, o, TRUE, c, TRUE, TRUE)
      PROVE  Coherent(n, g) /\ Sent(n, g) = Append(Sent(m, d), x)
  <2>1. State(g, TRUE, TRUE, d.orderGot, d.order, d.out)
    BY <1>1, MeansEscape
  <2>2. x = <<n.order, n.escapedChar>>
    BY <1>5 DEF Flags
  <2>3. Sent(n, g) = Append(Sent(m, d), x)
    <3>1. n.escape /\ g.orderGot /\ g.out = d.out
      BY <1>1, <1>5, <2>1 DEF Flags, State
    <3> HIDE DEF g, x
    <3> QED BY <1>2, <2>2, <3>1 DEF Sent
  <2> HIDE DEF g
  <2> QED BY <1>1, <1>5, <2>1, <2>3 DEF Coherent, Flags, State
<1> QED BY <1>2, <1>4, <1>5

(* b puts c behind r: as it is, or only its escape.                        *)
Escaping(b, r, c, B) ==
    /\ b \in Attempts /\ b.count = r.count
    /\ ~b.fits => /\ Written(b, B) = Written(r, B)
                  /\ Flags(b.mb, r.mb.order, r.mb.escape, r.mb.escapedChar, r.mb.startPut, r.mb.orderPut)
    /\ b.fits => r.fits
    /\ b.fits /\ ~NeedEscape(c) =>
          /\ Written(b, B) = Meaning(Written(r, B), c)
          /\ Flags(b.mb, r.mb.order, r.mb.escape, r.mb.escapedChar, r.mb.startPut, r.mb.orderPut)
    /\ b.fits /\ NeedEscape(c) =>
          /\ Written(b, B) = Meaning(Written(r, B), MESSAGE_ESCAPE)
          /\ Flags(b.mb, r.mb.order, TRUE, c, r.mb.startPut, r.mb.orderPut)

LEMMA PutEscapingPuts ==
    ASSUME NEW B \in Decodings, NEW a, Fine(a, B), NEW c \in Char
    PROVE  Escaping(PutEscaping(a, c), PutEscapedChar(a), c, B)
<1> DEFINE r == PutEscapedChar(a)
           b == PutEscaping(a, c)
<1>1. Fine(r, B) /\ r \in Attempts
  BY EscapedCharPut DEF Fine
<1>2. CASE ~NeedEscape(c)
  <2>1. b = TryPut(r, c)
    BY <1>2 DEF PutEscaping
  <2> HIDE DEF r, b
  <2>2. Putting(b, r, c, B)
    BY <1>1, <2>1, TryPutPuts
  <2>3. Escaping(b, r, c, B)
    BY <1>2, <2>2 DEF Putting, Escaping
  <2> QED BY <2>3 DEF r, b
<1>3. CASE NeedEscape(c)
  <2> DEFINE t == TryPut(r, MESSAGE_ESCAPE)
  <2>1. b = IF ~t.fits THEN t ELSE [t EXCEPT !.mb.escape = TRUE, !.mb.escapedChar = c]
    BY <1>3 DEF PutEscaping
  <2>2. MESSAGE_ESCAPE \in Char
    BY DEF MESSAGE_ESCAPE, Char
  <2> HIDE DEF r, b
  <2>3. Putting(t, r, MESSAGE_ESCAPE, B)
    BY <1>1, <2>2, TryPutPuts
  <2> HIDE DEF t
  <2>4. t \in Attempts
    BY <2>3 DEF Putting
  <2>5. CASE ~t.fits
    <3>1. Escaping(t, r, c, B)
      BY <2>3, <2>5 DEF Putting, Escaping
    <3> QED BY <2>1, <2>5, <3>1 DEF r, b
  <2>6. CASE t.fits
    <3>1. b = [t EXCEPT !.mb.escape = TRUE, !.mb.escapedChar = c]
      BY <2>1, <2>6
    <3>2. Marked(b, t, t.mb.order, TRUE, c, t.mb.startPut, t.mb.orderPut)
      BY <2>4, <3>1, EscapeMarked
    <3>3. Escaping(b, r, c, B)
      BY <1>3, <2>3, <2>6, <3>2 DEF Putting, Escaping, Marked, Flags, Written
    <3> QED BY <3>3 DEF r, b
  <2> QED BY <2>5, <2>6
<1> QED BY <1>2, <1>3

(* From a to b nothing more is sent, only framing.                         *)
OnlyFrames(b, a, B) ==
    /\ Fine(b, B) /\ SentBy(b, B) = SentBy(a, B)
    /\ b.count = a.count
    /\ b.fits => a.fits
    /\ b.mb.order = a.mb.order

LEMMA StartPutFrames ==
    ASSUME NEW B \in Decodings, NEW a, Fine(a, B), a.fits => a.mb.order \in Orders
    PROVE  /\ OnlyFrames(PutStart(a), a, B)
           /\ PutStart(a).fits => PutStart(a).mb.startPut
<1> DEFINE t == TryPut(a, MESSAGE_EDGE)
           b == PutStart(a)
<1>1. a \in Attempts /\ a.mb \in Senders /\ MESSAGE_EDGE \in Char
  BY DEF Fine, Attempts, MESSAGE_EDGE, Char
<1>2. CASE a.mb.startPut
  <2>1. b = a
    BY <1>2 DEF PutStart
  <2> HIDE DEF b
  <2> QED BY <1>2, <2>1 DEF OnlyFrames, b
<1>3. CASE ~a.mb.startPut
  <2>1. b = [t EXCEPT !.mb.startPut = t.fits]
    BY <1>3 DEF PutStart
  <2>2. Putting(t, a, MESSAGE_EDGE, B)
    BY <1>1, TryPutPuts
  <2> HIDE DEF t, b
  <2>3. t \in Attempts /\ t.fits \in BOOLEAN
    BY <2>2 DEF Putting, Attempts
  <2>4. Marked(b, t, t.mb.order, t.mb.escape, t.mb.escapedChar, t.fits, t.mb.orderPut)
    BY <2>1, <2>3, StartMarked
  <2>5. Written(b, B) = Written(t, B) /\ b \in Attempts /\ b.count = a.count /\ b.fits = t.fits
    BY <2>2, <2>4 DEF Marked, Written, Putting
  <2>6. Flags(b.mb, a.mb.order, a.mb.escape, a.mb.escapedChar, t.fits, a.mb.orderPut)
    BY <2>2, <2>4 DEF Marked, Flags, Putting
  <2>7. CASE t.fits
    <3>1. a.fits /\ Written(b, B) = Meaning(Written(a, B), MESSAGE_EDGE)
      BY <2>2, <2>5, <2>7 DEF Putting
    <3>2. Flags(b.mb, a.mb.order, a.mb.escape, a.mb.escapedChar, TRUE, a.mb.orderPut)
      BY <2>3, <2>6, <2>7
    <3>3. /\ Coherent(b.mb, Meaning(Written(a, B), MESSAGE_EDGE))
          /\ Sent(b.mb, Meaning(Written(a, B), MESSAGE_EDGE)) = SentBy(a, B)
      BY <1>1, <1>3, <3>1, <3>2, StartMeans DEF Fine, SentBy
    <3>4. b.mb.order = a.mb.order /\ b.mb.startPut
      BY <3>2 DEF Flags
    <3> QED BY <2>5, <3>1, <3>3, <3>4 DEF OnlyFrames, Fine, SentBy, b
  <2>8. CASE ~t.fits
    <3>1. Written(b, B) = Written(a, B)
      BY <2>2, <2>5, <2>8 DEF Putting
    <3>2. /\ b.mb.escape = a.mb.escape /\ b.mb.startPut = a.mb.startPut
          /\ b.mb.orderPut = a.mb.orderPut /\ b.mb.order = a.mb.order
          /\ b.mb.escapedChar = a.mb.escapedChar /\ b.mb \in Senders
      BY <1>1, <1>3, <2>6, <2>8 DEF Flags, Senders
    <3>3. Coherent(b.mb, Written(a, B)) /\ Sent(b.mb, Written(a, B)) = SentBy(a, B)
      BY <3>2 DEF Fine, SentBy, Coherent, Sent
    <3> QED BY <2>5, <2>8, <3>1, <3>2, <3>3 DEF OnlyFrames, Fine, SentBy, b
  <2> QED BY <2>7, <2>8
<1> QED BY <1>2, <1>3

LEMMA OrderPutFrames ==
    ASSUME NEW B \in Decodings, NEW a, Fine(a, B), a.fits => a.mb.startPut
    PROVE  /\ OnlyFrames(PutOrder(a), a, B)
           /\ PutOrder(a).mb.startPut = a.mb.startPut
           /\ PutOrder(a).fits => PutOrder(a).mb.orderPut
<1> DEFINE o == a.mb.order
           t == PutEscaping(a, o)
           b == PutOrder(a)
<1>1. a \in Attempts /\ a.mb \in Senders /\ o \in Char
  BY DEF Fine, Attempts, Senders
<1>2. CASE a.mb.orderPut
  <2>1. b = a
    BY <1>2 DEF PutOrder
  <2> HIDE DEF b
  <2> QED BY <1>2, <2>1 DEF OnlyFrames, b
<1>3. CASE ~a.mb.orderPut
  <2>1. b = [t EXCEPT !.mb.orderPut = t.fits]
    BY <1>3 DEF PutOrder
  <2>2. ~a.mb.escape
    BY <1>3 DEF Fine, Coherent
  <2>3. PutEscapedChar(a) = a
    BY <2>2 DEF PutEscapedChar
  <2>4. Escaping(t, a, o, B)
    BY <1>1, <2>3, PutEscapingPuts
  <2> HIDE DEF t, b, o
  <2>5. t \in Attempts /\ t.fits \in BOOLEAN
    BY <2>4 DEF Escaping, Attempts
  <2>6. Marked(b, t, t.mb.order, t.mb.escape, t.mb.escapedChar, t.mb.startPut, t.fits)
    BY <2>1, <2>5, OrderMarked
  <2>7. Written(b, B) = Written(t, B) /\ b \in Attempts /\ b.count = a.count /\ b.fits = t.fits
    BY <2>4, <2>6 DEF Marked, Written, Escaping
  <2>8. CASE t.fits
    <3> DEFINE c == IF NeedEscape(o) THEN MESSAGE_ESCAPE ELSE o
    <3>1. a.fits /\ a.mb.startPut /\ Written(b, B) = Meaning(Written(a, B), c)
      BY <2>4, <2>7, <2>8 DEF Escaping
    <3>2. b.mb.startPut = a.mb.startPut /\ b.mb.order = a.mb.order /\ b.mb.orderPut
      BY <2>4, <2>6, <2>8 DEF Marked, Flags, Escaping
    <3>3. Coherent(b.mb, Meaning(Written(a, B), c)) /\ Sent(b.mb, Meaning(Written(a, B), c)) = SentBy(a, B)
      <4>1. CASE NeedEscape(o)
        <5>1. Flags(b.mb, o, TRUE, o, TRUE, TRUE)
          BY <1>1, <2>4, <2>5, <2>6, <2>8, <3>1, <4>1 DEF Marked, Flags, Escaping, Senders, o
        <5> QED BY <1>3, <3>1, <4>1, <5>1, OrderMeans DEF Fine, SentBy, o
      <4>2. CASE ~NeedEscape(o)
        <5>1. Flags(b.mb, o, FALSE, a.mb.escapedChar, TRUE, TRUE)
          BY <1>1, <2>2, <2>4, <2>5, <2>6, <2>8, <3>1, <4>2 DEF Marked, Flags, Escaping, Senders, o
        <5> QED BY <1>3, <3>1, <4>2, <5>1, OrderMeans DEF Fine, SentBy, o
      <4> QED BY <4>1, <4>2
    <3> HIDE DEF c
    <3> QED BY <2>7, <3>1, <3>2, <3>3 DEF OnlyFrames, Fine, SentBy, b
  <2>9. CASE ~t.fits
    <3>1. Written(b, B) = Written(a, B)
      BY <2>4, <2>7, <2>9 DEF Escaping
    <3>2. /\ b.mb.escape = a.mb.escape /\ b.mb.startPut = a.mb.startPut
          /\ b.mb.orderPut = a.mb.orderPut /\ b.mb.order = a.mb.order
          /\ b.mb.escapedChar = a.mb.escapedChar /\ b.mb \in Senders
      BY <1>1, <1>3, <2>4, <2>6, <2>9 DEF Flags, Senders, Marked, Escaping
    <3>3. Coherent(b.mb, Written(a, B)) /\ Sent(b.mb, Written(a, B)) = SentBy(a, B)
      BY <3>2 DEF Fine, SentBy, Coherent, Sent
    <3> QED BY <2>7, <2>9, <3>1, <3>2, <3>3 DEF OnlyFrames, Fine, SentBy, b
  <2> QED BY <2>8, <2>9
<1> QED BY <1>2, <1>3

(* encapsulate's beginning: the frame of another order is closed, and its  *)
(* order replaced, in one go.                                              *)
LEMMA FrameChanged ==
    ASSUME NEW B \in Decodings, NEW a, Fine(a, B), a.fits, NEW o \in Orders
    PROVE  LET b == SetOrder(CloseFrame(a, o), o) IN
           /\ Fine(b, B) /\ SentBy(b, B) = SentBy(a, B) /\ (b.fits => b.mb.order = o)
           /\ b.count = a.count
<1> DEFINE f == CloseFrame(a, o)
           b == SetOrder(f, o)
<1>1. a \in Attempts /\ a.mb \in Senders /\ o \in Char /\ MESSAGE_EDGE \in Char
  BY CodecAssumption DEF Fine, Attempts, MESSAGE_EDGE, Char
<1>2. CASE a.mb.order = o
  <2>1. f = a
    BY <1>2 DEF CloseFrame
  <2>2. b = a
    BY <1>2, <2>1 DEF SetOrder
  <2> HIDE DEF b
  <2> QED BY <1>2, <2>2 DEF b
<1>3. CASE a.mb.order # o /\ ~a.mb.startPut
  <2>1. f = a
    BY <1>3 DEF CloseFrame
  <2>2. b = [a EXCEPT !.mb.order = o, !.mb.orderPut = FALSE]
    BY <1>3, <2>1 DEF SetOrder
  <2> HIDE DEF f, b
  <2>3. Marked(b, a, o, a.mb.escape, a.mb.escapedChar, a.mb.startPut, FALSE)
    BY <1>1, <2>2, NewOrderMarked
  <2>4. /\ b \in Attempts /\ b.mb \in Senders /\ b.mb.order = o /\ b.mb.escape = a.mb.escape
        /\ b.count = a.count
        /\ b.mb.startPut = a.mb.startPut /\ b.mb.orderPut = FALSE
        /\ Written(b, B) = Written(a, B)
    BY <2>3 DEF Marked, Flags, Written
  <2>5. Coherent(b.mb, Written(a, B)) /\ Sent(b.mb, Written(a, B)) = SentBy(a, B)
    BY <1>1, <1>3, <2>4 DEF Senders, Fine, SentBy, Coherent, Sent
  <2> QED BY <2>4, <2>5 DEF Fine, SentBy, b, f
<1>4. CASE a.mb.order # o /\ a.mb.startPut
  <2> DEFINE p == PutOrder(a)
             q == PutEscapedChar(p)
             t == TryPut(q, MESSAGE_EDGE)
  <2>1. f = [t EXCEPT !.mb.startPut = ~t.fits]
    BY <1>4 DEF CloseFrame
  <2>2. OnlyFrames(p, a, B) /\ p.mb.startPut = a.mb.startPut /\ (p.fits => p.mb.orderPut)
    BY <1>4, OrderPutFrames
  <2>3. /\ Fine(p, B) /\ SentBy(p, B) = SentBy(a, B) /\ p.mb.order = a.mb.order
        /\ p.count = a.count
    BY <2>2 DEF OnlyFrames
  <2> HIDE DEF p
  <2>4. /\ Fine(q, B) /\ SentBy(q, B) = SentBy(p, B)
        /\ q.fits => ~q.mb.escape
        /\ q.mb.startPut = p.mb.startPut /\ q.mb.order = p.mb.order
        /\ q.count = a.count
    BY <2>3, EscapedCharPut
  <2> HIDE DEF q
  <2>5. q \in Attempts /\ q.mb \in Senders
    BY <2>4 DEF Fine, Attempts
  <2>6. Putting(t, q, MESSAGE_EDGE, B)
    BY <1>1, <2>5, TryPutPuts
  <2> HIDE DEF t, f, b
  <2>7. t \in Attempts /\ (~t.fits) \in BOOLEAN
    BY <2>6 DEF Putting, Attempts
  <2>8. Marked(f, t, t.mb.order, t.mb.escape, t.mb.escapedChar, ~t.fits, t.mb.orderPut)
    BY <2>1, <2>7, StartMarked
  <2>9. /\ f \in Attempts /\ f.fits = t.fits /\ Written(f, B) = Written(t, B)
        /\ f.mb.order = q.mb.order /\ f.count = a.count
    BY <2>4, <2>6, <2>8 DEF Marked, Written, Flags, Putting
  <2>10. CASE t.fits
    <3>1. b = [f EXCEPT !.mb.order = o, !.mb.orderPut = FALSE]
      BY <1>4, <2>3, <2>4, <2>9, <2>10 DEF SetOrder, b
    <3>2. Marked(b, f, o, f.mb.escape, f.mb.escapedChar, f.mb.startPut, FALSE)
      BY <1>1, <2>9, <3>1, NewOrderMarked
    <3>3. q.fits /\ Written(b, B) = Meaning(Written(q, B), MESSAGE_EDGE)
      BY <2>6, <2>9, <2>10, <3>2 DEF Marked, Written, Putting
    <3>4. q.mb.escape = FALSE
      BY <2>4, <2>5, <3>3 DEF Senders
    <3>5. Flags(b.mb, o, FALSE, q.mb.escapedChar, FALSE, FALSE) /\ b.mb.order = o /\ b \in Attempts
      BY <2>6, <2>8, <2>10, <3>2, <3>4 DEF Marked, Flags, Putting
    <3>6. /\ Coherent(b.mb, Meaning(Written(q, B), MESSAGE_EDGE))
          /\ Sent(b.mb, Meaning(Written(q, B), MESSAGE_EDGE)) = SentBy(q, B)
      BY <1>4, <2>2, <2>4, <3>4, <3>5, EdgeMeans DEF Fine, SentBy
    <3>7. Fine(b, B) /\ SentBy(b, B) = SentBy(a, B)
      BY <2>3, <2>4, <3>3, <3>5, <3>6 DEF Fine, SentBy
    <3>8. b.count = a.count
      BY <2>9, <3>2 DEF Marked
    <3> QED BY <3>5, <3>7, <3>8 DEF b, f
  <2>11. CASE ~t.fits
    <3>1. b = f
      BY <2>9, <2>11 DEF SetOrder, b
    <3>2. Written(f, B) = Written(q, B)
      BY <2>6, <2>9, <2>11 DEF Putting
    <3>3. /\ f.mb.escape = q.mb.escape /\ f.mb.startPut = q.mb.startPut
          /\ f.mb.orderPut = q.mb.orderPut /\ f.mb.order = q.mb.order
          /\ f.mb.escapedChar = q.mb.escapedChar /\ f.mb \in Senders
      BY <1>1, <1>4, <2>2, <2>4, <2>5, <2>6, <2>8, <2>11 DEF Flags, Senders, Marked, Putting
    <3>4. Coherent(f.mb, Written(q, B)) /\ Sent(f.mb, Written(q, B)) = SentBy(q, B)
      BY <2>4, <3>3 DEF Fine, SentBy, Coherent, Sent
    <3>5. Fine(f, B) /\ SentBy(f, B) = SentBy(a, B) /\ ~f.fits
      BY <2>3, <2>4, <2>9, <2>11, <3>2, <3>4 DEF Fine, SentBy
    <3>6. Fine(b, B) /\ SentBy(b, B) = SentBy(a, B) /\ ~b.fits
      BY <3>1, <3>5
    <3> QED BY <2>9, <3>1, <3>6 DEF b, f
  <2> QED BY <2>10, <2>11
<1> QED BY <1>2, <1>3, <1>4

(* An attempt that bytes may follow: nothing is left to put in front of    *)
(* them, or they do not fit either.                                        *)
Readied(B) == {x \in Attempts : Fine(x, B) /\ (x.fits => x.mb.startPut /\ x.mb.orderPut)}

LEMMA CharPut ==
    ASSUME NEW B \in Decodings, NEW a \in Readied(B), NEW c \in Chars
    PROVE  LET b == PutChar(a, c) IN
           /\ b \in Readied(B) /\ b.mb.order = a.mb.order
           /\ b.fits => /\ a.fits /\ a.mb.order \in Orders /\ b.count = a.count + 1
                        /\ SentBy(b, B) = Append(SentBy(a, B), <<a.mb.order, c>>)
           /\ ~b.fits => b.count = a.count /\ SentBy(b, B) = SentBy(a, B)
<1> DEFINE r == PutEscapedChar(a)
           t == PutEscaping(a, c)
           b == PutChar(a, c)
<1>1. Fine(a, B) /\ (a.fits => a.mb.startPut /\ a.mb.orderPut) /\ c \in Char
  BY CodecAssumption DEF Readied, Char
<1>2. Escaping(t, r, c, B)
  BY <1>1, PutEscapingPuts
<1>3. /\ Fine(r, B) /\ SentBy(r, B) = SentBy(a, B)
      /\ r.fits => a.fits /\ ~r.mb.escape
      /\ r.mb.startPut = a.mb.startPut /\ r.mb.orderPut = a.mb.orderPut
      /\ r.mb.order = a.mb.order /\ r.count = a.count
  BY <1>1, EscapedCharPut
<1>4. b = IF t.fits THEN [t EXCEPT !.count = @ + 1] ELSE t
  BY DEF PutChar
<1> HIDE DEF r, t, b
<1>5. t \in Attempts /\ r \in Attempts /\ r.mb \in Senders
  BY <1>2, <1>3 DEF Escaping, Fine, Attempts
<1>6. /\ b \in Attempts /\ b.fits = t.fits /\ b.mb = t.mb /\ Written(b, B) = Written(t, B)
      /\ b.count = IF t.fits THEN a.count + 1 ELSE a.count
  <2>1. b \in Attempts /\ b.fits = t.fits /\ b.mb = t.mb
    BY <1>4, <1>5 DEF Attempts
  <2>2. t.count = a.count
    BY <1>2, <1>3 DEF Escaping
  <2>3. b.count = IF t.fits THEN a.count + 1 ELSE a.count
    BY <1>4, <1>5, <2>2 DEF Attempts
  <2> QED BY <2>1, <2>3 DEF Written
<1>7. CASE t.fits
  <2> DEFINE e == IF NeedEscape(c) THEN MESSAGE_ESCAPE ELSE c
             x == <<r.mb.order, c>>
  <2>1. r.fits /\ r.mb.startPut /\ r.mb.orderPut /\ r.mb.escape = FALSE
    BY <1>1, <1>2, <1>3, <1>5, <1>7 DEF Escaping, Senders
  <2>2. /\ Written(b, B) = Meaning(Written(r, B), e) /\ b.mb.startPut /\ b.mb.orderPut
        /\ b.mb.order = a.mb.order
    BY <1>2, <1>3, <1>6, <1>7, <2>1 DEF Escaping, Flags
  <2>3. x \in Orders \X Chars
    BY <1>3, <2>1, CharMeans DEF Fine
  <2>4. /\ Coherent(b.mb, Meaning(Written(r, B), e))
        /\ Sent(b.mb, Meaning(Written(r, B), e)) = Append(SentBy(r, B), x)
    <3>1. CASE NeedEscape(c)
      <4>1. Flags(b.mb, r.mb.order, TRUE, c, TRUE, TRUE)
        BY <1>2, <1>5, <1>6, <1>7, <2>1, <3>1 DEF Escaping, Flags, Senders
      <4>2. /\ Coherent(b.mb, Meaning(Written(r, B), MESSAGE_ESCAPE))
            /\ Sent(b.mb, Meaning(Written(r, B), MESSAGE_ESCAPE)) = Append(Sent(r.mb, Written(r, B)), x)
        <5> DEFINE m == r.mb
                   d == Written(r, B)
                   n == b.mb
        <5>1. Coherent(m, d) /\ m.startPut /\ m.orderPut /\ ~m.escape
          BY <1>3, <2>1 DEF Fine
        <5>2. Flags(n, m.order, TRUE, c, TRUE, TRUE)
          BY <3>1, <4>1
        <5> HIDE DEF m, d, n
        <5>3. /\ Coherent(n, Meaning(d, MESSAGE_ESCAPE))
              /\ Sent(n, Meaning(d, MESSAGE_ESCAPE)) = Append(Sent(m, d), <<m.order, c>>)
          BY <5>1, <5>2, CharMeans
        <5> QED BY <5>3 DEF m, d, n
      <4>3. e = MESSAGE_ESCAPE
        BY <3>1
      <4> QED BY <4>2, <4>3 DEF SentBy
    <3>2. CASE ~NeedEscape(c)
      <4>1. Flags(b.mb, r.mb.order, FALSE, r.mb.escapedChar, TRUE, TRUE)
        BY <1>2, <1>5, <1>6, <1>7, <2>1, <3>2 DEF Escaping, Flags, Senders
      <4>2. /\ Coherent(b.mb, Meaning(Written(r, B), c))
            /\ Sent(b.mb, Meaning(Written(r, B), c)) = Append(Sent(r.mb, Written(r, B)), x)
        <5> DEFINE m == r.mb
                   d == Written(r, B)
                   n == b.mb
        <5>1. Coherent(m, d) /\ m.startPut /\ m.orderPut /\ ~m.escape
          BY <1>3, <2>1 DEF Fine
        <5>2. ~NeedEscape(c) /\ Flags(n, m.order, FALSE, m.escapedChar, TRUE, TRUE)
          BY <3>2, <4>1
        <5> HIDE DEF m, d, n
        <5>3. /\ Coherent(n, Meaning(d, c))
              /\ Sent(n, Meaning(d, c)) = Append(Sent(m, d), <<m.order, c>>)
          BY <5>1, <5>2, CharMeans
        <5> QED BY <5>3 DEF m, d, n
      <4>3. e = c
        BY <3>2
      <4> QED BY <4>2, <4>3 DEF SentBy
    <3> QED BY <3>1, <3>2
  <2> HIDE DEF e, x
  <2>5. Fine(b, B) /\ SentBy(b, B) = Append(SentBy(a, B), x)
    BY <1>3, <1>6, <2>2, <2>4 DEF Fine, SentBy
  <2>6. x = <<a.mb.order, c>> /\ a.mb.order \in Orders
    BY <1>3, <2>3 DEF x
  <2>7. b \in Readied(B)
    BY <1>6, <2>2, <2>5 DEF Readied
  <2>8. a.fits
    BY <1>3, <2>1
  <2>9. b.fits /\ b.count = a.count + 1
    BY <1>6, <1>7
  <2> QED BY <2>2, <2>5, <2>6, <2>7, <2>8, <2>9 DEF b
<1>8. CASE ~t.fits
  <2>1. Written(b, B) = Written(r, B) /\ Flags(b.mb, r.mb.order, r.mb.escape, r.mb.escapedChar, r.mb.startPut, r.mb.orderPut)
    BY <1>2, <1>6, <1>8 DEF Escaping
  <2>2. Coherent(b.mb, Written(r, B)) /\ Sent(b.mb, Written(r, B)) = SentBy(r, B)
    BY <1>3, <2>1 DEF Fine, SentBy, Coherent, Sent, Flags
  <2>3. Fine(b, B) /\ SentBy(b, B) = SentBy(a, B)
    BY <1>3, <1>6, <2>1, <2>2 DEF Fine, SentBy
  <2>4. b.mb.order = a.mb.order /\ ~b.fits /\ b.count = a.count
    BY <1>3, <1>6, <1>8, <2>1 DEF Flags
  <2>5. b \in Readied(B)
    BY <1>6, <2>3, <2>4 DEF Readied
  <2> QED BY <2>3, <2>4, <2>5 DEF b
<1> QED BY <1>7, <1>8

LEMMA PutCharType ==
    ASSUME NEW B \in Decodings, NEW a \in Readied(B), NEW c \in Chars
    PROVE  PutChar(a, c) \in Readied(B)
BY CharPut

(* The intermediate results of putting several bytes.                       *)
LEMMA PutCharSteps ==
    ASSUME NEW B \in Decodings, NEW base \in Readied(B), NEW s \in Seq(Chars)
    PROVE  \E f \in [0 .. Len(s) -> Readied(B)] :
              /\ f[0] = base
              /\ \A k \in 1 .. Len(s) : f[k] = PutChar(f[k - 1], s[k])
              /\ Folded(PutChar, base, s) = f[Len(s)]
<1> DEFINE n == Len(s)
           A == Readied(B)
           g == [p \in (1 .. n) \X A |-> PutChar(p[2], s[p[1]])]
           Step(after) == [k \in 0 .. n |->
               IF k = 0 THEN base
               ELSE CHOOSE next \in {PutChar(before, s[k]) : before \in {after[k - 1]}} : TRUE]
<1>1. n \in Nat /\ \A k \in 1 .. n : s[k] \in Chars
  BY LenProperties, ElementOfSeq
<1>2. g \in [(1 .. n) \X A -> A]
  BY <1>1, PutCharType
<1>3. PICK f : RunOf(f, n, A, base, g)
  <2>1. n \in Nat /\ base \in A
    BY <1>1
  <2> HIDE DEF n, A, g
  <2> QED BY <2>1, <1>2, RecursionExists, Zenon
<1>4. ASSUME NEW x \in A, NEW k \in 1 .. n PROVE g[<<k, x>>] = PutChar(x, s[k])
  <2> HIDE DEF A
  <2> QED OBVIOUS
<1>5. ASSUME NEW k \in 1 .. n PROVE f[k - 1] \in A /\ f[k] = PutChar(f[k - 1], s[k])
  <2>1. k - 1 \in 0 .. n
    BY <1>1
  <2> HIDE DEF A, g
  <2> QED BY <1>3, <1>4, <2>1 DEF RunOf
<1>6. ASSUME NEW after, NEW k \in 1 .. n
      PROVE  Step(after)[k] = PutChar(after[k - 1], s[k])
  <2> DEFINE v == PutChar(after[k - 1], s[k])
  <2>1. {PutChar(before, s[k]) : before \in {after[k - 1]}} = {v}
    OBVIOUS
  <2>2. (CHOOSE next \in {v} : TRUE) = v
    OBVIOUS
  <2>3. k \in 0 .. n /\ k # 0
    BY <1>1
  <2> QED BY <2>1, <2>2, <2>3
<1>7. f = Step(f)
  <2>1. f = [k \in 0 .. n |-> f[k]]
    BY <1>3 DEF RunOf
  <2>2. ASSUME NEW k \in 0 .. n PROVE f[k] = Step(f)[k]
    <3>1. CASE k = 0
      <4>1. Step(f)[0] = base
        BY <1>1
      <4> QED BY <1>3, <3>1, <4>1 DEF RunOf
    <3>2. CASE k # 0
      <4>1. k \in 1 .. n
        BY <1>1, <3>2
      <4> HIDE DEF Step
      <4> QED BY <1>5, <1>6, <4>1
    <3> QED BY <3>1, <3>2
  <2>3. Step(f) = [k \in 0 .. n |-> Step(f)[k]]
    OBVIOUS
  <2> HIDE DEF Step
  <2> QED BY <2>1, <2>2, <2>3, Zenon
<1> DEFINE Fold == CHOOSE after : after = Step(after)
<1>8. Fold = Step(Fold)
  <2> HIDE DEF Step
  <2> QED BY <1>7, Zenon
<1>9. Folded(PutChar, base, s) = Fold[n]
  BY Zenon DEF Folded
<1> HIDE DEF Fold
<1>10. Follows(Fold, n, A, base, g)
  <2>1. Step(Fold)[0] = base
    BY <1>1
  <2> HIDE DEF Step, A, g
  <2> QED BY <1>4, <1>6, <1>8, <2>1 DEF Follows
<1>11. Fold[n] = f[n]
  <2>1. n \in 0 .. n
    BY <1>1
  <2>2. \A k \in 0 .. n : Fold[k] = f[k]
    <3>1. n \in Nat
      BY <1>1
    <3> HIDE DEF n, A, g
    <3> QED BY <3>1, <1>3, <1>10, RunUnique
  <2> QED BY <2>1, <2>2
<1>12. f \in [0 .. n -> A] /\ f[0] = base
  BY <1>3 DEF RunOf
<1> QED BY <1>5, <1>9, <1>11, <1>12

Pairs == Seq(Orders \X Chars)

LEMMA SentType ==
    ASSUME NEW m, NEW d, Coherent(m, d)
    PROVE  Sent(m, d) \in Pairs
<1>1. d.out \in Seq(Orders \X Chars)
  BY DEF Coherent
<1>2. CASE m.escape /\ d.orderGot
  <2>1. <<m.order, m.escapedChar>> \in Orders \X Chars
    BY <1>2 DEF Coherent
  <2>2. Append(d.out, <<m.order, m.escapedChar>>) \in Seq(Orders \X Chars)
    BY <1>1, <2>1, AppendProperties
  <2> QED BY <1>2, <2>2 DEF Sent, Pairs
<1>3. CASE ~(m.escape /\ d.orderGot)
  BY <1>1, <1>3 DEF Sent, Pairs
<1> QED BY <1>2, <1>3

LEMMA AppendBehind ==
    ASSUME NEW a \in Pairs, NEW b \in Pairs, NEW x \in Orders \X Chars
    PROVE  Append(a \o b, x) = a \o Append(b, x)
<1> DEFINE S == Orders \X Chars
<1>1. a \in Seq(S) /\ b \in Seq(S) /\ x \in S
  BY DEF Pairs
<1> HIDE DEF S
<1>2. <<x>> \in Seq(S) /\ a \o b \in Seq(S)
  BY <1>1, ConcatProperties
<1>3. Append(a \o b, x) = (a \o b) \o <<x>> /\ Append(b, x) = b \o <<x>>
  BY <1>1, <1>2, AppendIsConcat
<1>4. (a \o b) \o <<x>> = a \o (b \o <<x>>)
  BY ONLY <1>1, <1>2, ConcatAssociative
<1> QED BY <1>3, <1>4

(* Bytes under the label of their client. *)
LEMMA LabelledNone ==
    ASSUME NEW o, NEW data, NEW n \in Int, n <= 0
    PROVE  LabelledWith(o, data, n) = <<>>
<1>1. 1 .. n = {}
  OBVIOUS
<1>2. LabelledWith(o, data, n) = [k \in {} |-> <<o, data[k]>>]
  BY <1>1 DEF LabelledWith
<1>3. [k \in {} |-> <<o, data[k]>>] = <<>>
  OBVIOUS
<1> QED BY <1>2, <1>3

LEMMA LabelledIs ==
    ASSUME NEW o \in Orders, NEW data \in Seq(Chars), NEW n \in 0 .. Len(data)
    PROVE  /\ LabelledWith(o, data, n) \in Pairs /\ Len(LabelledWith(o, data, n)) = n
           /\ \A k \in 1 .. n : LabelledWith(o, data, n)[k] = <<o, data[k]>>
<1>1. n \in Nat /\ \A k \in 1 .. n : data[k] \in Chars
  BY LenProperties, ElementOfSeq
<1>2. \A k \in 1 .. n : <<o, data[k]>> \in Orders \X Chars
  BY <1>1
<1> DEFINE S == Orders \X Chars
           x == LabelledWith(o, data, n)
<1>3. x \in [1 .. n -> S]
  BY <1>2 DEF LabelledWith
<1>4. \A k \in 1 .. n : x[k] = <<o, data[k]>>
  BY DEF LabelledWith
<1> HIDE DEF S, x
<1>5. x \in Seq(S) /\ Len(x) = n
  BY <1>1, <1>3
<1> QED BY <1>4, <1>5 DEF Pairs, S, x

LEMMA LabelledNext ==
    ASSUME NEW o \in Orders, NEW data \in Seq(Chars), NEW n \in 1 .. Len(data)
    PROVE  Append(LabelledWith(o, data, n - 1), <<o, data[n]>>) = LabelledWith(o, data, n)
<1> DEFINE x == LabelledWith(o, data, n - 1)
           y == LabelledWith(o, data, n)
           p == <<o, data[n]>>
           S == Orders \X Chars
<1>1. n \in Nat /\ n - 1 \in 0 .. Len(data) /\ n \in 0 .. Len(data) /\ data[n] \in Chars
  BY LenProperties, ElementOfSeq
<1>2. /\ x \in Seq(S) /\ Len(x) = n - 1 /\ y \in Seq(S) /\ Len(y) = n
      /\ \A k \in 1 .. n - 1 : x[k] = <<o, data[k]>>
      /\ \A k \in 1 .. n : y[k] = <<o, data[k]>>
  BY <1>1, LabelledIs DEF Pairs
<1>3. p \in S
  BY <1>1
<1> HIDE DEF x, y, S
<1>4. /\ Append(x, p) \in Seq(S) /\ Len(Append(x, p)) = n
      /\ \A k \in 1 .. n - 1 : Append(x, p)[k] = x[k]
      /\ Append(x, p)[n] = p
  BY <1>1, <1>2, <1>3, AppendProperties
<1>5. ASSUME NEW k \in 1 .. n PROVE Append(x, p)[k] = y[k]
  <2>1. k = n \/ k \in 1 .. n - 1
    BY <1>1
  <2> QED BY <1>2, <1>4, <2>1
<1>6. Append(x, p) = y
  <2> HIDE DEF p
  <2> QED BY <1>2, <1>4, <1>5, SeqEqual
<1> QED BY <1>6 DEF x, y

(* Of the first k bytes of data, x has put as many as it counted; a byte   *)
(* it did not count is not put.                                            *)
Counted(x, a, data, B, k) ==
    /\ x \in Readied(B) /\ x.mb.order = a.mb.order
    /\ x.count \in 0 .. k
    /\ x.fits => a.fits /\ x.count = k
    /\ ~a.fits => x.count = 0
    /\ x.count > 0 => a.mb.order \in Orders
    /\ SentBy(x, B) = SentBy(a, B) \o LabelledWith(a.mb.order, data, x.count)

LEMMA CountedNext ==
    ASSUME NEW B \in Decodings, NEW a \in Readied(B), NEW data \in Seq(Chars),
           NEW k \in 1 .. Len(data), NEW x, Counted(x, a, data, B, k - 1)
    PROVE  Counted(PutChar(x, data[k]), a, data, B, k)
<1> DEFINE y == PutChar(x, data[k])
           o == a.mb.order
<1>1. k \in Nat /\ k - 1 \in Nat /\ data[k] \in Chars /\ x \in Readied(B)
  BY LenProperties, ElementOfSeq DEF Counted
<1>2. /\ y \in Readied(B) /\ y.mb.order = x.mb.order
      /\ y.fits => /\ x.fits /\ x.mb.order \in Orders /\ y.count = x.count + 1
                   /\ SentBy(y, B) = Append(SentBy(x, B), <<x.mb.order, data[k]>>)
      /\ ~y.fits => y.count = x.count /\ SentBy(y, B) = SentBy(x, B)
  BY <1>1, CharPut
<1> HIDE DEF y
<1>3. CASE ~y.fits
  <2>1. y.count \in 0 .. k
    BY <1>1, <1>2, <1>3 DEF Counted
  <2> QED BY <1>2, <1>3, <2>1 DEF Counted, y
<1>4. CASE y.fits
  <2>1. a.fits /\ x.count = k - 1 /\ o \in Orders /\ y.count = k /\ x.mb.order = o
    BY <1>1, <1>2, <1>4 DEF Counted
  <2>2. SentBy(a, B) \in Pairs
    BY SentType DEF Readied, Fine, SentBy
  <2>3. k - 1 \in 0 .. Len(data)
    BY <1>1, LenProperties
  <2>4. LabelledWith(o, data, k - 1) \in Pairs
    BY <2>1, <2>3, LabelledIs
  <2>5. <<o, data[k]>> \in Orders \X Chars
    BY <1>1, <2>1
  <2>6. SentBy(y, B) = Append(SentBy(a, B) \o LabelledWith(o, data, k - 1), <<o, data[k]>>)
    BY <1>2, <1>4, <2>1 DEF Counted
  <2>7. SentBy(y, B) = SentBy(a, B) \o Append(LabelledWith(o, data, k - 1), <<o, data[k]>>)
    <3> HIDE DEF o
    <3> QED BY <2>2, <2>4, <2>5, <2>6, AppendBehind
  <2>8. SentBy(y, B) = SentBy(a, B) \o LabelledWith(o, data, k)
    <3> HIDE DEF o
    <3> QED BY <2>1, <2>7, LabelledNext
  <2>9. y.count \in 0 .. k /\ y.mb.order = o
    BY <1>1, <1>2, <2>1
  <2> QED BY <1>2, <1>4, <2>1, <2>8, <2>9 DEF Counted, y
<1> QED BY <1>3, <1>4

(* encapsulate: what was sent before, and then as many bytes of its client *)
(* as it counted.                                                          *)
LEMMA CharsPut ==
    ASSUME NEW B \in Decodings, NEW a \in Readied(B), a.count = 0, NEW data \in Seq(Chars)
    PROVE  Counted(Folded(PutChar, a, data), a, data, B, Len(data))
<1>1. PICK f \in [0 .. Len(data) -> Readied(B)] :
          /\ f[0] = a
          /\ \A k \in 1 .. Len(data) : f[k] = PutChar(f[k - 1], data[k])
          /\ Folded(PutChar, a, data) = f[Len(data)]
  BY PutCharSteps
<1>2. Len(data) \in Nat
  BY LenProperties
<1>3. Counted(f[0], a, data, B, 0)
  <2>1. SentBy(a, B) \in Pairs
    BY SentType DEF Readied, Fine, SentBy
  <2>2. SentBy(a, B) \o <<>> = SentBy(a, B)
    BY <2>1, ConcatEmptySeq DEF Pairs
  <2>3. LabelledWith(a.mb.order, data, 0) = <<>>
    BY LabelledNone
  <2> QED BY <1>1, <2>2, <2>3 DEF Counted
<1> DEFINE Wrong == {k \in 0 .. Len(data) : ~Counted(f[k], a, data, B, k)}
<1> SUFFICES ASSUME Wrong # {} PROVE FALSE
  BY <1>1, <1>2
<1>4. PICK k \in Wrong : \A x \in Wrong : k <= x
  <2>1. Wrong \in SUBSET Nat
    BY <1>2
  <2> HIDE DEF Wrong
  <2> QED BY <2>1, LeastOf
<1>5. k # 0
  BY <1>3, <1>4
<1>6. k - 1 \in 0 .. Len(data) /\ k \in 1 .. Len(data) /\ ~(k <= k - 1)
  BY <1>2, <1>4, <1>5
<1>7. Counted(f[k - 1], a, data, B, k - 1)
  BY <1>4, <1>6
<1>8. Counted(f[k], a, data, B, k)
  BY <1>1, <1>6, <1>7, CountedNext
<1> QED BY <1>4, <1>8

-----------------------------------------------------------------------------
(* Encoder, transport and decoder together.                                *)
TransitOf(m, r) ==
    Decoded(StateOf(r),
            r.message \o m.message \o (IF m.escape THEN <<m.escapedChar>> ELSE <<>>)).out

Flow(m, r) ==
    /\ Sound(r) /\ Len(r.message) <= Size
    /\ Coherent(m, Decoded(Waits(r), m.message))

CodecSound == Flow(mb, mr)

LEMMA PartsOfPairs ==
    ASSUME NEW S, NEW a \in Seq(S), NEW b \in Seq(S), NEW T, a \o b \in Seq(T)
    PROVE  a \in Seq(T) /\ b \in Seq(T)
<1>1. Len(a) \in Nat /\ Len(b) \in Nat /\ Len(a \o b) = Len(a) + Len(b)
  BY LenProperties, ConcatProperties
<1>2. ASSUME NEW k \in 1 .. Len(a) PROVE a[k] \in T
  <2>1. k \in 1 .. Len(a \o b) /\ (a \o b)[k] = a[k]
    BY <1>1, ConcatProperties
  <2> QED BY <2>1, ElementOfSeq
<1>3. ASSUME NEW k \in 1 .. Len(b) PROVE b[k] \in T
  <2>1. Len(a) + k \in 1 .. Len(a \o b) /\ ~(Len(a) + k <= Len(a)) /\ (Len(a) + k) - Len(a) = k
    BY <1>1
  <2>2. (a \o b)[Len(a) + k] = b[k]
    BY <1>1, <2>1, ConcatProperties
  <2> QED BY <2>1, <2>2, ElementOfSeq
<1>4. a \in [1 .. Len(a) -> T] /\ b \in [1 .. Len(b) -> T]
  BY <1>2, <1>3, LenProperties
<1> QED BY <1>1, <1>4

LEMMA TransitIs ==
    ASSUME NEW m, NEW r, Flow(m, r)
    PROVE  /\ TransitOf(m, r) = Sent(m, Decoded(Waits(r), m.message))
           /\ TransitOf(m, r) \in Pairs
           /\ Len(TransitOf(m, r)) \in Nat /\ Len(TransitOf(m, r)) <= 2 * Size + 1
<1> DEFINE d == Decoded(Waits(r), m.message)
           c == m.escapedChar
           tail == IF m.escape THEN <<c>> ELSE <<>>
           all == r.message \o m.message \o tail
<1>1. /\ r \in Receivers /\ m \in Senders /\ r.message \in Seq(Char)
      /\ m.message \in Seq(Char) /\ c \in Char /\ d \in Decodings
      /\ StateOf(r) \in Decodings
  BY StateType DEF Flow, Sound, Coherent, Receivers, Senders
<1>2. tail \in Seq(Char) /\ Len(tail) \in 0 .. 1
  BY <1>1
<1>3. /\ r.message \o m.message \in Seq(Char) /\ all \in Seq(Char)
      /\ Len(all) = Len(r.message) + Len(m.message) + Len(tail)
  BY <1>1, <1>2, ConcatProperties
<1>4. Decoded(StateOf(r), all) = Decoded(d, tail)
  <2>1. Decoded(StateOf(r), r.message \o m.message) = d
    BY <1>1, DecodedConcat DEF Waits
  <2> HIDE DEF tail, d
  <2> QED BY <1>1, <1>2, <1>3, <2>1, DecodedConcat
<1>5. Decoded(d, tail).out = Sent(m, d)
  <2> HIDE DEF d
  <2>1. CASE ~m.escape
    BY <1>1, <2>1, DecodedEmpty DEF Sent
  <2>2. CASE m.escape
    <3>1. Decoded(d, tail) = Meaning(d, c)
      BY <1>1, <2>2, DecodedOne
    <3>2. d.started /\ d.escape
      BY <2>2 DEF Flow, Coherent, d
    <3>3. CASE d.orderGot
      <4>1. d.order = m.order
        BY <3>3 DEF Flow, Coherent, d
      <4>2. State(Meaning(d, c), FALSE, TRUE, TRUE, d.order, Append(d.out, <<d.order, c>>))
        BY <1>1, <3>2, <3>3, MeansByte
      <4> QED BY <2>2, <3>1, <3>3, <4>1, <4>2 DEF State, Sent
    <3>4. CASE ~d.orderGot
      <4>1. c \notin NoByte
        BY <2>2, <3>2, <3>4 DEF Flow, Coherent, OrdersAreNamed, d
      <4>2. State(Meaning(d, c), FALSE, TRUE, TRUE, c, d.out)
        BY <1>1, <3>2, <3>4, <4>1, MeansByte
      <4> QED BY <2>2, <3>1, <3>4, <4>2 DEF State, Sent
    <3> QED BY <3>3, <3>4
  <2> QED BY <2>1, <2>2
<1>6. TransitOf(m, r) = Sent(m, d)
  BY <1>4, <1>5 DEF TransitOf
<1>7. Sent(m, d) \in Pairs
  BY SentType DEF Flow
<1>8. Len(TransitOf(m, r)) \in Nat /\ Len(TransitOf(m, r)) <= 2 * Size + 1
  <2>1. Len(Decoded(StateOf(r), all).out) <= Len(StateOf(r).out) + Len(all)
    <3> HIDE DEF all
    <3> QED BY <1>1, <1>3, DecodedLength
  <2>2. Len(StateOf(r).out) = 0
    BY EmptySeq DEF StateOf
  <2>3. Len(r.message) \in 0 .. Size /\ Len(m.message) \in 0 .. Size
    BY <1>1, LenProperties DEF Flow, Senders
  <2>4. Len(TransitOf(m, r)) \in Nat
    BY <1>6, <1>7, LenProperties DEF Pairs
  <2>5. TransitOf(m, r) = Decoded(StateOf(r), all).out
    BY DEF TransitOf
  <2> HIDE DEF all, tail
  <2>6. Size \in Nat
    BY CodecAssumption
  <2>7. Len(TransitOf(m, r)) <= 0 + Len(all)
    BY <2>1, <2>2, <2>5
  <2>8. Len(all) \in Nat /\ Len(all) <= Size + Size + 1
    <3> DEFINE u == Len(r.message)
               j == Len(m.message)
               k == Len(tail)
    <3>1. u \in 0 .. Size /\ j \in 0 .. Size /\ k \in 0 .. 1 /\ Len(all) = u + j + k
      BY <1>2, <1>3, <2>3
    <3> HIDE DEF u, j, k
    <3> QED BY <2>6, <3>1
  <2> QED BY <2>4, <2>6, <2>7, <2>8
<1> QED BY <1>6, <1>7, <1>8

(* What the decoder takes is what was first under way.                     *)
LEMMA FlowReads ==
    ASSUME NEW m, NEW r, Flow(m, r), NEW q, NEW got, Reads(q, r, got)
    PROVE  Flow(m, q) /\ got \in Pairs /\ TransitOf(m, r) = got \o TransitOf(m, q)
<1> DEFINE d == Decoded(Waits(r), m.message)
           e == Decoded(Waits(q), m.message)
<1>1. /\ r \in Receivers /\ q \in Receivers /\ m \in Senders /\ m.message \in Seq(Char)
      /\ got \in Labelled /\ Waits(r) = Prefixed(got, Waits(q))
      /\ Len(q.message) \in Nat /\ Len(r.message) \in Nat
      /\ Len(q.message) <= Len(r.message)
  BY LenProperties DEF Flow, Sound, Coherent, Receivers, Senders, Reads
<1>2. Waits(q) \in Decodings /\ e \in Decodings
  BY <1>1, StateType, DecodingExists
<1>3. d = Prefixed(got, e)
  BY <1>1, <1>2, DecodedPrefixed
<1>4. Coherent(m, d)
  BY DEF Flow
<1> HIDE DEF d, e
<1>5. /\ d.out = got \o e.out
      /\ d.escape = e.escape /\ d.started = e.started
      /\ d.orderGot = e.orderGot /\ d.order = e.order
  BY <1>1, <1>2, <1>3, PrefixedIs
<1>6. got \in Pairs /\ e.out \in Pairs
  BY <1>1, <1>2, <1>4, <1>5, PartsOfPairs DEF Coherent, Pairs, Decodings, Labelled
<1>7. Coherent(m, e)
  BY <1>2, <1>4, <1>5, <1>6 DEF Coherent, Pairs
<1>8. Sent(m, d) = got \o Sent(m, e)
  <2>1. CASE m.escape /\ d.orderGot
    <3> DEFINE x == <<m.order, m.escapedChar>>
    <3>1. x \in Orders \X Chars
      BY <1>4, <2>1 DEF Coherent
    <3> HIDE DEF x
    <3>2. Append(got \o e.out, x) = got \o Append(e.out, x)
      BY <1>6, <3>1, AppendBehind
    <3> QED BY <1>5, <2>1, <3>2 DEF Sent, x
  <2>2. CASE ~(m.escape /\ d.orderGot)
    BY <1>5, <2>2 DEF Sent
  <2> QED BY <2>1, <2>2
<1>9. Flow(m, q)
  <2>1. Sound(q) /\ Len(q.message) <= Size
    BY <1>1, CodecAssumption DEF Reads, Flow
  <2> QED BY <1>7, <2>1 DEF Flow, e
<1>10. TransitOf(m, r) = Sent(m, d) /\ TransitOf(m, q) = Sent(m, e)
  BY <1>9, TransitIs DEF d, e
<1> QED BY <1>6, <1>8, <1>9, <1>10

LEMMA EncapsulateFlows ==
    ASSUME CodecSound, NEW order \in Orders, NEW data \in Seq(Chars), Encapsulate(data, order)
    PROVE  /\ Flow(mb', mr)
           /\ (call').name = "encapsulate" /\ (call').bytes \in Pairs
           /\ Queue!OfOneOrder((call').bytes)
           /\ TransitOf(mb', mr) = TransitOf(mb, mr) \o (call').bytes
<1> DEFINE B == Waits(mr)
           a == [mb |-> mb, fits |-> TRUE, count |-> 0]
           closed == CloseFrame(a, order)
           framed == SetOrder(closed, order)
           begun == PutStart(framed)
           ready == PutOrder(begun)
           b == Folded(PutChar, ready, data)
           result == IF closed.fits THEN b.count ELSE NO_SPACE
<1>1. mb' = b.mb /\ call' = [name |-> "encapsulate", bytes |-> LabelledWith(order, data, result)]
  BY DEF Encapsulate
<1>2. B \in Decodings /\ Flow(mb, mr)
  BY StateType DEF CodecSound, Flow, Sound
<1>3. Fine(a, B) /\ SentBy(a, B) = Sent(mb, Decoded(B, mb.message)) /\ a.fits /\ a.count = 0
  <2>1. mb \in Senders
    BY <1>2 DEF Flow, Coherent
  <2>2. a \in Attempts /\ a.mb = mb /\ a.fits /\ a.count = 0
    BY <2>1 DEF Attempts
  <2> HIDE DEF a, B
  <2>3. Written(a, B) = Decoded(B, mb.message)
    BY <2>2 DEF Written
  <2>4. Coherent(mb, Decoded(B, mb.message))
    BY <1>2 DEF Flow, B
  <2> QED BY <2>2, <2>3, <2>4 DEF Fine, SentBy
<1> HIDE DEF B, a
<1>4. /\ Fine(framed, B) /\ SentBy(framed, B) = SentBy(a, B)
      /\ framed.fits => framed.mb.order = order
      /\ framed.count = 0
  BY <1>2, <1>3, FrameChanged
<1>13. ~closed.fits => ~framed.fits
  BY DEF SetOrder
<1> HIDE DEF framed, closed
<1>5. OnlyFrames(begun, framed, B) /\ (begun.fits => begun.mb.startPut)
  BY <1>2, <1>4, StartPutFrames
<1>6. Fine(begun, B) /\ SentBy(begun, B) = SentBy(a, B)
  BY <1>4, <1>5 DEF OnlyFrames
<1> HIDE DEF begun
<1>7. /\ OnlyFrames(ready, begun, B) /\ ready.mb.startPut = begun.mb.startPut
      /\ ready.fits => ready.mb.orderPut
  BY <1>2, <1>5, <1>6, OrderPutFrames
<1> HIDE DEF ready
<1>8. /\ ready \in Readied(B) /\ SentBy(ready, B) = SentBy(a, B) /\ ready.count = 0
      /\ ready.fits => framed.fits /\ ready.mb.order = order
  BY <1>4, <1>5, <1>6, <1>7 DEF OnlyFrames, Fine, Readied
<1>9. Counted(b, ready, data, B, Len(data))
  BY <1>2, <1>8, CharsPut
<1>14. Fine(b, B) /\ b.count \in 0 .. Len(data) /\ Len(data) \in Nat
  BY <1>9, LenProperties DEF Counted, Readied
<1> HIDE DEF b
<1>15. LabelledWith(ready.mb.order, data, b.count) = LabelledWith(order, data, result)
  <2>1. CASE ready.fits
    BY <1>8, <1>13, <2>1
  <2>2. CASE ~ready.fits
    <3>1. b.count = 0
      BY <1>9, <2>2 DEF Counted
    <3>2. result \in Int /\ result <= 0
      BY <3>1 DEF NO_SPACE
    <3> QED BY <3>1, <3>2, LabelledNone
  <2> QED BY <2>1, <2>2
<1> DEFINE bytes == LabelledWith(order, data, result)
<1>16. SentBy(b, B) = SentBy(a, B) \o bytes
  <2>1. SentBy(b, B) = SentBy(ready, B) \o LabelledWith(ready.mb.order, data, b.count)
    BY <1>9 DEF Counted
  <2> QED BY <1>8, <1>15, <2>1
<1>17. bytes \in Pairs /\ Queue!OfOneOrder(bytes)
  <2>1. result \in Int /\ (result <= 0 \/ result \in 0 .. Len(data))
    BY <1>14 DEF NO_SPACE
  <2> HIDE DEF result
  <2>2. CASE result <= 0
    <3>1. bytes = <<>>
      BY <2>1, <2>2, LabelledNone
    <3> QED BY <3>1, EmptySeq DEF Pairs, Queue!OfOneOrder
  <2>3. CASE result \in 0 .. Len(data)
    <3>1. /\ bytes \in Pairs /\ Len(bytes) = result
          /\ \A k \in 1 .. result : bytes[k] = <<order, data[k]>>
      BY <2>3, LabelledIs
    <3> HIDE DEF bytes
    <3>2. DOMAIN bytes = 1 .. result
      BY <3>1, LenProperties DEF Pairs
    <3> QED BY <3>1, <3>2 DEF Queue!OfOneOrder
  <2> QED BY <2>1, <2>2, <2>3
<1>18. (call').name = "encapsulate" /\ (call').bytes = bytes
  BY <1>1
<1> HIDE DEF bytes, result, ready
<1>10. /\ Coherent(mb', Decoded(B, (mb').message))
       /\ SentBy(b, B) = Sent(mb', Decoded(B, (mb').message))
  BY <1>1, <1>14 DEF Fine, SentBy, Written
<1>11. Flow(mb', mr)
  BY <1>2, <1>10 DEF Flow, B
<1>12. /\ TransitOf(mb', mr) = Sent(mb', Decoded(B, (mb').message))
       /\ TransitOf(mb, mr) = Sent(mb, Decoded(B, mb.message))
  <2>1. TransitOf(mb', mr) = Sent(mb', Decoded(Waits(mr), (mb').message))
    BY <1>11, TransitIs
  <2>2. TransitOf(mb, mr) = Sent(mb, Decoded(Waits(mr), mb.message))
    BY <1>2, TransitIs
  <2> QED BY <2>1, <2>2 DEF B
<1>19. TransitOf(mb', mr) = TransitOf(mb, mr) \o bytes
  BY <1>3, <1>10, <1>12, <1>16
<1> QED BY <1>11, <1>17, <1>18, <1>19

LEMMA CutInTwo ==
    ASSUME NEW S, NEW s \in Seq(S), NEW n \in 0 .. Len(s)
    PROVE  LET h == SubSeq(s, 1, n)
               l == SubSeq(s, n + 1, Len(s))
           IN  /\ h \in Seq(S) /\ l \in Seq(S)
               /\ Len(h) = n /\ Len(l) = Len(s) - n
               /\ h \o l = s
<1>1. Len(s) \in Nat /\ \A u \in 1 .. Len(s) : s[u] \in S
  BY LenProperties, ElementOfSeq
<1>2. SubSeq(s, 1, n) \in Seq(S) /\ Len(SubSeq(s, 1, n)) = n
  <2>1. n \in Int /\ 1 \in Int /\ \A u \in 1 .. n : s[u] \in S
    BY <1>1
  <2> QED BY <1>1, <2>1, SubSeqProperties
<1>3. SubSeq(s, n + 1, Len(s)) \in Seq(S) /\ Len(SubSeq(s, n + 1, Len(s))) = Len(s) - n
  <2>1. n + 1 \in Int /\ Len(s) \in Int /\ \A u \in n + 1 .. Len(s) : s[u] \in S
    BY <1>1
  <2> QED BY <1>1, <2>1, SubSeqProperties
<1>4. SubSeq(s, 1, n) \o SubSeq(s, n + 1, Len(s)) = SubSeq(s, 1, Len(s))
  <2>1. 1 \in 1 .. Len(s) + 1 /\ n \in 1 - 1 .. Len(s) /\ Len(s) \in n .. Len(s)
    BY <1>1
  <2> QED BY <2>1, ConcatAdjacentSubSeq
<1>5. SubSeq(s, 1, Len(s)) = s
  BY SubSeqFull
<1> QED BY <1>2, <1>3, <1>4, <1>5, Zenon

(* It does not matter to the decoding where the bytes wait. *)
LEMMA DecodedMoved ==
    ASSUME NEW B \in Decodings, NEW t \in Seq(Char), NEW s \in Seq(Char),
           NEW n \in 0 .. Len(s)
    PROVE  Decoded(Decoded(B, t \o SubSeq(s, 1, n)), SubSeq(s, n + 1, Len(s))) =
              Decoded(Decoded(B, t), s)
<1> DEFINE h == SubSeq(s, 1, n)
           l == SubSeq(s, n + 1, Len(s))
           C == Decoded(B, t)
<1>1. h \in Seq(Char) /\ l \in Seq(Char) /\ h \o l = s
  BY CutInTwo
<1>2. C \in Decodings
  BY DecodingExists
<1> HIDE DEF h, l
<1>3. Decoded(B, t \o h) = Decoded(C, h)
  BY <1>1, DecodedConcat
<1> HIDE DEF C
<1>4. Decoded(C, h \o l) = Decoded(Decoded(C, h), l)
  BY <1>1, <1>2, DecodedConcat
<1>5. Decoded(Decoded(B, t \o h), l) = Decoded(C, s)
  BY <1>1, <1>3, <1>4
<1> QED BY <1>5 DEF h, l, C

LEMMA TransferFlows ==
    ASSUME CodecSound, NEW n, Transfer(n)
    PROVE  Flow(mb', mr') /\ TransitOf(mb', mr') = TransitOf(mb, mr)
<1> DEFINE s == mb.message
           t == mr.message
           h == SubSeq(s, 1, n)
           l == SubSeq(s, n + 1, Len(s))
<1>1. /\ mb \in Senders /\ mr \in Receivers /\ Sound(mr) /\ s \in Seq(Char) /\ t \in Seq(Char)
      /\ Len(s) \in Nat /\ Len(t) \in Nat /\ Len(s) <= Size /\ Len(t) <= Size
      /\ StateOf(mr) \in Decodings
  BY StateType, LenProperties DEF CodecSound, Flow, Coherent, Senders, Receivers, Sound
<1>2. n \in 1 .. Len(s) /\ Len(t) + n <= Size
  BY DEF Transfer
<1>3. /\ h \in Seq(Char) /\ l \in Seq(Char) /\ Len(h) = n /\ Len(l) = Len(s) - n
      /\ h \o l = s
  BY <1>1, <1>2, CutInTwo
<1>4. Decoded(Decoded(StateOf(mr), t \o h), l) = Decoded(Waits(mr), s)
  <2>1. n \in 0 .. Len(s)
    BY <1>1, <1>2
  <2> QED BY <1>1, <2>1, DecodedMoved DEF Waits
<1>5. t \o h \in Seq(Char) /\ Len(t \o h) = Len(t) + n
  BY <1>1, <1>3, ConcatProperties
<1>6. mr' = [mr EXCEPT !.message = t \o h] /\ mb' = [mb EXCEPT !.message = l]
  BY DEF Transfer
<1>7. Len(l) <= Size /\ Len(t \o h) <= Size
  BY <1>1, <1>2, <1>3, <1>5, CodecAssumption
<1> HIDE DEF h, l
<1>8. Sound(mr') /\ (mr').message = t \o h /\ StateOf(mr') = StateOf(mr)
  BY <1>1, <1>5, <1>6 DEF Sound, Receivers, StateOf
<1>9. /\ mb' \in Senders /\ (mb').message = l
      /\ (mb').escape = mb.escape /\ (mb').escapedChar = mb.escapedChar
      /\ (mb').order = mb.order /\ (mb').startPut = mb.startPut /\ (mb').orderPut = mb.orderPut
  BY <1>1, <1>3, <1>6, <1>7 DEF Senders
<1>10. Decoded(Waits(mr'), (mb').message) = Decoded(Waits(mr), s)
  <2>1. Waits(mr') = Decoded(StateOf(mr), t \o h)
    BY <1>8 DEF Waits
  <2> QED BY <1>4, <1>9, <2>1
<1>11. Coherent(mb, Decoded(Waits(mr), s)) /\ Flow(mb, mr)
  BY DEF CodecSound, Flow
<1> DEFINE d == Decoded(Waits(mr), s)
<1> HIDE DEF d
<1>12. Coherent(mb', d) /\ Sent(mb', d) = Sent(mb, d)
  BY <1>9, <1>11 DEF Coherent, Sent, d
<1>13. Flow(mb', mr')
  BY <1>7, <1>8, <1>10, <1>12 DEF Flow, d
<1> QED BY <1>10, <1>11, <1>12, <1>13, TransitIs DEF d

LEMMA ParsedReads ==
    ASSUME CodecSound
    PROVE  Sound(mr) /\ Reads(TryParseOrder(mr), mr, <<>>)
BY ParseOrderReads DEF CodecSound, Flow

LEMMA JoinedParts ==
    ASSUME NEW S, NEW a \in Seq(S), NEW b \in Seq(S)
    PROVE  /\ Len(a) \in 0 .. Len(a \o b) /\ Len(b) = Len(a \o b) - Len(a)
           /\ SubSeq(a \o b, 1, Len(a)) = a
           /\ SubSeq(a \o b, Len(a) + 1, Len(a \o b)) = b
           /\ \A k \in 1 .. Len(a) : (a \o b)[k] = a[k]
<1> DEFINE c == a \o b
           u == Len(a)
           j == Len(b)
<1>1. u \in Nat /\ j \in Nat /\ c \in Seq(S) /\ Len(c) = u + j
  BY LenProperties, ConcatProperties
<1>2. \A k \in 1 .. u + j : c[k] = IF k <= u THEN a[k] ELSE b[k - u]
  BY ConcatProperties
<1> HIDE DEF c
<1>3. \A k \in 1 .. u : c[k] = a[k]
  <2> HIDE DEF u, j
  <2> QED BY <1>1, <1>2
<1>4. \A k \in 1 .. j : c[u + k] = b[k]
  <2> HIDE DEF u, j
  <2>1. ASSUME NEW k \in 1 .. j PROVE u + k \in 1 .. u + j /\ ~(u + k <= u) /\ (u + k) - u = k
    BY <1>1
  <2> QED BY <1>2, <2>1
<1>5. /\ SubSeq(c, 1, u) \in Seq(S) /\ Len(SubSeq(c, 1, u)) = u
      /\ SubSeq(c, u + 1, Len(c)) \in Seq(S) /\ Len(SubSeq(c, u + 1, Len(c))) = j
  <2>1. u \in 0 .. Len(c) /\ Len(c) - u = j
    <3> HIDE DEF u, j
    <3> QED BY <1>1
  <2> HIDE DEF u, j
  <2> QED BY <1>1, <2>1, CutInTwo
<1>6. SubSeq(c, 1, u) = a
  <2>1. ASSUME NEW k \in 1 .. u PROVE SubSeq(c, 1, u)[k] = a[k]
    <3>1. SubSeq(c, 1, u)[k] = c[k]
      <4> HIDE DEF u, j
      <4>1. k \in 1 .. u - 1 + 1 /\ 1 + k - 1 = k
        BY <1>1
      <4> QED BY <1>1, <4>1
    <3> QED BY <1>3, <3>1
  <2> QED BY <1>5, <2>1, SeqEqual
<1>7. SubSeq(c, u + 1, Len(c)) = b
  <2>1. ASSUME NEW k \in 1 .. j PROVE SubSeq(c, u + 1, Len(c))[k] = b[k]
    <3>1. SubSeq(c, u + 1, Len(c))[k] = c[u + k]
      <4> HIDE DEF u, j
      <4> QED BY <1>1
    <3> QED BY <1>4, <3>1
  <2> QED BY <1>5, <2>1, SeqEqual
<1>8. u \in 0 .. Len(c) /\ j = Len(c) - u
  <2> HIDE DEF u, j
  <2> QED BY <1>1
<1> QED BY <1>3, <1>6, <1>7, <1>8 DEF c

(* What was taken out, and what was handed out of it: all of it, or all    *)
(* but a last byte below zero.                                             *)
Handed(got, all) ==
    /\ \E o : \A j \in 1 .. Len(all) : all[j][1] = o
    /\ \E n \in 0 .. Len(all) :
          /\ got = SubSeq(all, 1, n)
          /\ \A k \in 1 .. n : ~(all[k][2] < 0)
          /\ n = Len(all) \/ (n + 1 = Len(all) /\ all[n + 1][2] < 0)

LEMMA TookHanded ==
    ASSUME NEW r \in Receivers, NEW x, TookFrom(x, r)
    PROVE  \E all : Reads(x.r, r, all) /\ Handed(x.got, all)
<1>1. /\ x.got \in Labelled /\ Len(x.got) \in Nat
      /\ \A j \in 1 .. Len(x.got) : x.got[j][1] = r.order /\ ~(x.got[j][2] < 0)
  BY LenProperties DEF TookFrom, Readings, Labelled
<1>2. CASE Reads(x.r, r, x.got)
  <2>1. SubSeq(x.got, 1, Len(x.got)) = x.got
    BY <1>1, SubSeqFull DEF Labelled
  <2>2. Handed(x.got, x.got)
    <3> DEFINE n == Len(x.got)
    <3>1. n \in 0 .. n /\ n \in Nat
      BY <1>1
    <3>2. \E o : \A j \in 1 .. n : x.got[j][1] = o
      BY <1>1
    <3>3. \A k \in 1 .. n : ~(x.got[k][2] < 0)
      BY <1>1
    <3> QED BY <2>1, <3>1, <3>2, <3>3 DEF Handed
  <2> QED BY <1>2, <2>2
<1>3. CASE Lost(x.r, r, x.got)
  <2>1. PICK c \in Char : c < 0 /\ Reads(x.r, r, Append(x.got, <<r.order, c>>))
    BY <1>3 DEF Lost
  <2> DEFINE p == <<r.order, c>>
             n == Len(x.got)
             all == Append(x.got, p)
  <2>2. p \in Char \X Char /\ p[1] = r.order /\ p[2] < 0
    BY <2>1 DEF Receivers
  <2> HIDE DEF p
  <2>3. /\ all = x.got \o <<p>> /\ Len(all) = n + 1
        /\ \A j \in 1 .. n : all[j] = x.got[j]
        /\ all[n + 1] = p
    BY <1>1, <2>2, LabelledAppend
  <2>4. SubSeq(all, 1, n) = x.got
    <3>1. x.got \in Seq(Char \X Char) /\ <<p>> \in Seq(Char \X Char)
      BY <1>1, <2>2 DEF Labelled
    <3>2. SubSeq(x.got \o <<p>>, 1, Len(x.got)) = x.got
      BY <3>1, JoinedParts
    <3> QED BY <2>3, <3>2
  <2>5. Reads(x.r, r, all)
    BY <2>1 DEF p
  <2> HIDE DEF all, n
  <2>6. n \in Nat /\ n \in 0 .. Len(all)
    BY <1>1, <2>3 DEF n
  <2>7. ASSUME NEW j \in 1 .. Len(all) PROVE all[j][1] = r.order
    <3>1. j \in 1 .. n \/ j = n + 1
      BY <2>3, <2>6
    <3> QED BY <1>1, <2>2, <2>3, <3>1 DEF n
  <2>8. \A k \in 1 .. n : ~(all[k][2] < 0)
    BY <1>1, <2>3 DEF n
  <2>9. Handed(x.got, all)
    BY <2>2, <2>3, <2>4, <2>6, <2>7, <2>8 DEF Handed
  <2> QED BY <2>5, <2>9
<1> QED BY <1>2, <1>3 DEF TookFrom

LEMMA ManyRead ==
    ASSUME CodecSound, NEW n \in Nat
    PROVE  LET x == ReadMany(TryParseOrder(mr), n) IN
           \E all : Reads(x.r, mr, all) /\ Handed(x.got, all)
<1> DEFINE p == TryParseOrder(mr)
           x == ReadMany(p, n)
<1>1. mr \in Receivers /\ Reads(p, mr, <<>>) /\ Sound(p) /\ p \in Receivers
  BY ParsedReads DEF Sound, Reads
<1>2. TookFrom(x, p)
  BY <1>1, ReadManyTook
<1> HIDE DEF p, x
<1>3. PICK all : Reads(x.r, p, all) /\ Handed(x.got, all)
  BY <1>1, <1>2, TookHanded
<1>4. Reads(x.r, mr, all)
  BY <1>1, <1>3, ReadsOn
<1> QED BY <1>3, <1>4 DEF x, p

-----------------------------------------------------------------------------
LEMMA ReadFlows ==
    ASSUME CodecSound, NEW got, Reads(mr', mr, got), UNCHANGED mb
    PROVE  /\ Flow(mb', mr') /\ got \in Pairs
           /\ TransitOf(mb, mr) = got \o TransitOf(mb', mr')
<1>1. /\ Flow(mb, mr') /\ got \in Pairs
      /\ TransitOf(mb, mr) = got \o TransitOf(mb, mr')
  BY FlowReads DEF CodecSound
<1> QED BY <1>1

(* What one step does to the bytes under way: it appends what encapsulate  *)
(* says, takes the oldest ones, of one client, or leaves them.             *)
Appends ==
    /\ (call').name = "encapsulate" /\ (call').bytes \in Pairs
    /\ Queue!OfOneOrder((call').bytes)
    /\ InTransit' = InTransit \o (call').bytes

Removes ==
    \E all \in Pairs : \E got :
        /\ InTransit = all \o InTransit'
        /\ Handed(got, all)
        /\ \/ call' = [name |-> "decapsulate", bytes |-> got]
           \/ call' = Queue!Calls("skip")

Leaves == InTransit' = InTransit /\ call' = Queue!Calls("none")

LEMMA CodecStep ==
    ASSUME CodecSound, CodecNext
    PROVE  CodecSound' /\ (Appends \/ Removes \/ Leaves)
<1>1. InTransit = TransitOf(mb, mr) /\ InTransit' = TransitOf(mb', mr')
  BY DEF InTransit, UnderWay, TransitOf, StateOf, Decoded
<1>2. InTransit \in Pairs
  BY <1>1, TransitIs DEF CodecSound
<1>3. ASSUME NEW order \in Orders, NEW data \in Data, Encapsulate(data, order)
      PROVE  CodecSound' /\ Appends
  <2>1. data \in Seq(Chars)
    BY CodecAssumption DEF Data
  <2>2. /\ Flow(mb', mr)
        /\ (call').name = "encapsulate" /\ (call').bytes \in Pairs
        /\ Queue!OfOneOrder((call').bytes)
        /\ TransitOf(mb', mr) = TransitOf(mb, mr) \o (call').bytes
    BY <1>3, <2>1, EncapsulateFlows
  <2>3. mr' = mr
    BY <1>3 DEF Encapsulate
  <2> QED BY <1>1, <2>2, <2>3 DEF CodecSound, Appends
<1>4. ASSUME NEW n, Transfer(n) PROVE CodecSound' /\ Leaves
  <2>1. Flow(mb', mr') /\ InTransit' = InTransit
    BY <1>1, <1>4, TransferFlows
  <2>2. call' = Queue!Calls("none")
    BY <1>4 DEF Transfer, Queue!Calls
  <2> QED BY <2>1, <2>2 DEF CodecSound, Leaves
<1>5. ASSUME NEW got, NEW all, Reads(mr', mr, all), UNCHANGED mb, Handed(got, all),
             call' = [name |-> "decapsulate", bytes |-> got] \/ call' = Queue!Calls("skip")
      PROVE  CodecSound' /\ Removes
  <2>1. /\ Flow(mb', mr') /\ all \in Pairs
        /\ TransitOf(mb, mr) = all \o TransitOf(mb', mr')
    BY <1>5, ReadFlows
  <2> QED BY <1>1, <1>5, <2>1 DEF CodecSound, Removes
<1>6. CASE GetCurrentOrder
  <2>1. Reads(mr', mr, <<>>) /\ UNCHANGED mb /\ call' = Queue!Calls("none")
    BY <1>6, ParsedReads DEF GetCurrentOrder, Queue!Calls
  <2>2. Flow(mb', mr') /\ TransitOf(mb, mr) = <<>> \o TransitOf(mb', mr')
    BY <2>1, ReadFlows
  <2>3. TransitOf(mb', mr') \in Pairs
    BY <2>2, TransitIs
  <2>4. <<>> \o TransitOf(mb', mr') = TransitOf(mb', mr')
    BY <2>3, ConcatEmptySeq DEF Pairs
  <2> QED BY <1>1, <2>1, <2>2, <2>4 DEF CodecSound, Leaves
<1>7. ASSUME NEW n \in 1 .. MaxData, Decapsulate(n) PROVE CodecSound' /\ Removes
  <2> DEFINE x == ReadMany(TryParseOrder(mr), n)
  <2>1. n \in Nat
    BY CodecAssumption
  <2>2. mr' = x.r /\ call' = [name |-> "decapsulate", bytes |-> x.got] /\ UNCHANGED mb
    BY <1>7 DEF Decapsulate
  <2>3. PICK all : Reads(x.r, mr, all) /\ Handed(x.got, all)
    BY <2>1, ManyRead
  <2> HIDE DEF x
  <2> QED BY <1>5, <2>2, <2>3
<1>8. CASE Skip
  <2> DEFINE x == ReadMany(TryParseOrder(mr), Size + 1)
  <2>1. Size + 1 \in Nat
    BY CodecAssumption
  <2>2. mr' = x.r /\ call' = Queue!Calls("skip") /\ UNCHANGED mb
    BY <1>8 DEF Skip, Skipped, Queue!Calls
  <2>3. PICK all : Reads(x.r, mr, all) /\ Handed(x.got, all)
    BY <2>1, ManyRead
  <2> HIDE DEF x
  <2> QED BY <1>5, <2>2, <2>3
<1> QED BY <1>3, <1>4, <1>6, <1>7, <1>8 DEF CodecNext, Encode, Transport

LEMMA CodecStarts == OrdersAreNamed /\ CodecInit => CodecSound /\ Queue!Init
<1> SUFFICES ASSUME OrdersAreNamed, CodecInit PROVE CodecSound /\ Queue!Init
  OBVIOUS
<1>1. <<>> \in Seq(Char) /\ Len(<<>>) = 0 /\ 0 \in Char /\ Size \in Nat
      /\ <<>> \in Seq(Orders \X Chars)
  BY CodecAssumption, EmptySeq DEF Char
<1>2. mb \in Senders /\ mb.message = <<>> /\ ~mb.escape /\ ~mb.startPut /\ ~mb.orderPut
  BY <1>1 DEF CodecInit, Senders
<1>3. Sound(mr) /\ mr.message = <<>>
  BY <1>1 DEF CodecInit, Sound, Receivers
<1> DEFINE d == StateOf(mr)
<1>4. /\ d \in Decodings /\ d.out = <<>> /\ ~d.escape /\ ~d.started /\ ~d.orderGot
  <2>1. d \in Decodings
    BY <1>3, StateType DEF Sound
  <2>2. d.out = <<>> /\ ~d.escape /\ ~d.started /\ ~d.orderGot
    BY DEF CodecInit, StateOf
  <2> QED BY <2>1, <2>2
<1>5. Waits(mr) = d /\ Decoded(d, <<>>) = d
  BY <1>3, <1>4, DecodedEmpty DEF Waits
<1> HIDE DEF d
<1>6. mb.escape = FALSE /\ mb.startPut = FALSE /\ mb.orderPut = FALSE
  BY <1>2 DEF Senders
<1>7. d.escape = FALSE /\ d.started = FALSE
  BY <1>4 DEF Decodings
<1>8. Coherent(mb, d)
  BY <1>1, <1>2, <1>4, <1>6, <1>7 DEF Coherent
<1>9. CodecSound
  BY <1>1, <1>2, <1>3, <1>5, <1>8 DEF CodecSound, Flow
<1>10. InTransit = TransitOf(mb, mr)
  BY DEF InTransit, UnderWay, TransitOf, StateOf, Decoded
<1>11. TransitOf(mb, mr) = <<>>
  <2>1. TransitOf(mb, mr) = Sent(mb, d)
    BY <1>2, <1>5, <1>9, TransitIs DEF CodecSound
  <2> QED BY <1>2, <1>4, <2>1 DEF Sent
<1> QED BY <1>9, <1>10, <1>11 DEF CodecInit, Queue!Init, Queue!Calls

LEMMA CodecStays == CodecSound /\ [CodecNext]_codecVars => CodecSound'
<1> SUFFICES ASSUME CodecSound, [CodecNext]_codecVars PROVE CodecSound'
  OBVIOUS
<1>1. CASE CodecNext
  BY <1>1, CodecStep
<1>2. CASE UNCHANGED codecVars
  BY <1>2 DEF codecVars, CodecSound
<1> QED BY <1>1, <1>2

(* What both sides remember about the frame they are in is what the bytes  *)
(* written so far say (message_buffer.c, message_receiver.c), as long as   *)
(* no client's order is one of the results that mean "no byte".            *)
THEOREM CodecIsSound == OrdersAreNamed => (CodecSpec => []CodecSound)
<1>1. OrdersAreNamed /\ CodecInit => CodecSound
  BY CodecStarts
<1>2. CodecSound /\ [CodecNext]_codecVars => CodecSound'
  BY CodecStays
<1> QED BY <1>1, <1>2, PTL DEF CodecSpec

(* The buffers hold bytes and no more than fit; no flag takes another      *)
(* value than true and false.                                              *)
THEOREM CodecTypes == OrdersAreNamed => (CodecSpec => []CodecTypeOK)
<1>1. CodecSound => CodecTypeOK
  BY DEF CodecSound, Flow, Sound, Coherent, Senders, Receivers, CodecTypeOK
<1> QED BY <1>1, CodecIsSound, PTL

(* The bytes under way are always bytes of clients, and few. *)
LEMMA TransitType ==
    ASSUME CodecSound
    PROVE  /\ InTransit \in Pairs
           /\ Len(InTransit) \in Nat /\ Len(InTransit) <= 2 * Size + 1
<1>1. InTransit = TransitOf(mb, mr)
  BY DEF InTransit, UnderWay, TransitOf, StateOf, Decoded
<1>2. Flow(mb, mr)
  BY DEF CodecSound
<1> QED BY <1>1, <1>2, TransitIs

LEMMA TransitTypeNext ==
    ASSUME CodecSound'
    PROVE  /\ InTransit' \in Pairs
           /\ Len(InTransit') \in Nat /\ Len(InTransit') <= 2 * Size + 1
<1>1. InTransit' = TransitOf(mb', mr')
  BY DEF InTransit, UnderWay, TransitOf, StateOf, Decoded
<1>2. Flow(mb', mr')
  BY DEF CodecSound
<1> QED BY <1>1, <1>2, TransitIs

LEMMA FirstPart ==
    ASSUME NEW S, NEW a \in Seq(S), NEW b \in Seq(S), NEW n \in 0 .. Len(a)
    PROVE  SubSeq(a \o b, 1, n) = SubSeq(a, 1, n)
<1> DEFINE c == a \o b
<1>1. /\ Len(a) \in Nat /\ n \in Nat /\ c \in Seq(S) /\ Len(a) \in 0 .. Len(c)
      /\ \A k \in 1 .. Len(a) : c[k] = a[k]
  BY LenProperties, ConcatProperties, JoinedParts
<1> HIDE DEF c
<1>2. n \in 0 .. Len(c) /\ \A k \in 1 .. n : c[k] = a[k]
  BY <1>1
<1>3. /\ SubSeq(c, 1, n) \in Seq(S) /\ Len(SubSeq(c, 1, n)) = n
      /\ SubSeq(a, 1, n) \in Seq(S) /\ Len(SubSeq(a, 1, n)) = n
  BY <1>1, <1>2, CutInTwo
<1>4. ASSUME NEW k \in 1 .. n PROVE SubSeq(c, 1, n)[k] = SubSeq(a, 1, n)[k]
  <2>1. k \in 1 .. n - 1 + 1 /\ 1 + k - 1 = k
    BY <1>1
  <2>2. SubSeq(c, 1, n)[k] = c[k] /\ SubSeq(a, 1, n)[k] = a[k]
    BY <1>1, <1>2, <2>1
  <2> QED BY <1>2, <2>2
<1>5. SubSeq(c, 1, n) = SubSeq(a, 1, n)
  BY <1>3, <1>4, SeqEqual
<1> QED BY <1>5 DEF c

LEMMA PairOfInts ==
    ASSUME NEW all \in Pairs, NEW k \in 1 .. Len(all)
    PROVE  all[k][2] \in Int
<1>1. all[k] \in Orders \X Chars
  BY ElementOfSeq DEF Pairs
<1>2. all[k][2] \in Chars
  BY <1>1
<1>3. ASSUME NEW c \in Chars PROVE c \in Int
  <2>1. c \in Char
    BY CodecAssumption
  <2> QED BY <2>1 DEF Char
<1> QED BY <1>2, <1>3

LEMMA CodecQueueStep ==
    ASSUME CodecSound, CodecSound', [CodecNext]_codecVars
    PROVE  [Queue!Next]_Queue!messageQueueVars
<1>1. /\ InTransit \in Pairs /\ InTransit' \in Pairs
      /\ Len(InTransit) \in Nat /\ Len(InTransit') \in Nat /\ Len(InTransit') <= 2 * Size + 1
  BY TransitType, TransitTypeNext
<1>2. CASE Appends
  <2>1. Queue!Put
    BY <1>1, <1>2 DEF Queue!Put, Appends, Pairs
  <2> QED BY <2>1 DEF Queue!Next
<1>3. CASE Removes
  <2>7. PICK all \in Pairs : \E got :
            /\ InTransit = all \o InTransit' /\ Handed(got, all)
            /\ \/ call' = [name |-> "decapsulate", bytes |-> got]
               \/ call' = Queue!Calls("skip")
    BY <1>3 DEF Removes
  <2>1. PICK got :
            /\ InTransit = all \o InTransit' /\ Handed(got, all)
            /\ \/ call' = [name |-> "decapsulate", bytes |-> got]
               \/ call' = Queue!Calls("skip")
    BY <2>7
  <2>2. /\ Len(all) \in 0 .. Len(InTransit)
        /\ SubSeq(InTransit, 1, Len(all)) = all
        /\ SubSeq(InTransit, Len(all) + 1, Len(InTransit)) = InTransit'
        /\ \A k \in 1 .. Len(all) : InTransit[k] = all[k]
    BY <1>1, <2>1, JoinedParts DEF Pairs
  <2>3. Queue!Leave(Len(all))
    BY <2>2 DEF Queue!Leave
  <2>4. CASE call' = Queue!Calls("skip")
    BY <2>2, <2>3, <2>4 DEF Queue!Drop, Queue!Next
  <2>5. CASE call' = [name |-> "decapsulate", bytes |-> got]
    <3>1. PICK n \in 0 .. Len(all) :
              /\ got = SubSeq(all, 1, n) /\ \A k \in 1 .. n : ~(all[k][2] < 0)
              /\ n = Len(all) \/ (n + 1 = Len(all) /\ all[n + 1][2] < 0)
      BY <2>1 DEF Handed
    <3>2. n \in 0 .. Len(InTransit) /\ Len(all) \in Nat
      BY <1>1, <2>2
    <3>3. (call').name = "decapsulate" /\ (call').bytes = SubSeq(InTransit, 1, n)
      <4>1. SubSeq(InTransit, 1, n) = SubSeq(all, 1, n)
        BY <1>1, <2>1, <3>1, FirstPart DEF Pairs
      <4> QED BY <2>5, <3>1, <4>1
    <3>4. ASSUME NEW k \in 1 .. n PROVE InTransit[k][2] >= 0
      <4>1. k \in 1 .. Len(all)
        BY <3>2
      <4>2. all[k][2] \in Int /\ InTransit[k] = all[k] /\ ~(all[k][2] < 0)
        BY <2>2, <3>1, <4>1, PairOfInts
      <4> QED BY <4>2
    <3>5. Queue!Leave(n) \/ (n < Len(InTransit) /\ InTransit[n + 1][2] < 0 /\ Queue!Leave(n + 1))
      <4>1. CASE n = Len(all)
        BY <2>3, <4>1
      <4>2. CASE n + 1 = Len(all) /\ all[n + 1][2] < 0
        <5>1. n + 1 \in 1 .. Len(all) /\ n < Len(InTransit)
          BY <1>1, <2>2, <3>2, <4>2
        <5> QED BY <2>2, <2>3, <4>2, <5>1
      <4> QED BY <3>1, <4>1, <4>2
    <3>6. Queue!Take
      BY <3>2, <3>3, <3>4, <3>5 DEF Queue!Take
    <3> QED BY <3>6 DEF Queue!Next
  <2> QED BY <2>1, <2>4, <2>5
<1>4. CASE Leaves
  BY <1>4 DEF Leaves, Queue!Move, Queue!Next
<1>5. CASE UNCHANGED codecVars
  <2>1. UNCHANGED InTransit /\ UNCHANGED call
    BY <1>5 DEF codecVars, InTransit, UnderWay
  <2> QED BY <2>1 DEF Queue!messageQueueVars
<1> QED BY <1>2, <1>3, <1>4, <1>5, CodecStep

(* Encoder, transport and decoder are a bounded queue of bytes labelled    *)
(* with their client, to which exactly what encapsulate says it consumed   *)
(* is appended, for every size, all bytes, every set of clients whose      *)
(* orders can be told from "no byte", and every place where a full buffer  *)
(* or a late byte interrupts them.                                         *)
THEOREM CodecImplementsQueue == OrdersAreNamed => (CodecSpec => ImplementsQueue)
<1>1. CodecSound /\ CodecSound' /\ [CodecNext]_codecVars => [Queue!Next]_Queue!messageQueueVars
  BY CodecQueueStep
<1>2. OrdersAreNamed /\ CodecInit => Queue!Init
  BY CodecStarts
<1> QED BY <1>1, <1>2, CodecIsSound, PTL DEF CodecSpec, ImplementsQueue, Queue!Spec

LEMMA OneOrderStep ==
    ASSUME CodecSound, CodecSound', [CodecNext]_codecVars
    PROVE  \A k \in 1 .. (Len(InTransit) - Len(InTransit')) : InTransit[k][1] = InTransit[1][1]
<1>1. /\ InTransit \in Pairs /\ InTransit' \in Pairs
      /\ Len(InTransit) \in Nat /\ Len(InTransit') \in Nat
  BY TransitType, TransitTypeNext
<1>2. CASE Appends
  <2>1. Len(InTransit) \in 0 .. Len(InTransit')
    BY <1>1, <1>2, JoinedParts DEF Appends, Pairs
  <2>2. 1 .. (Len(InTransit) - Len(InTransit')) = {}
    BY <1>1, <2>1
  <2> QED BY <2>2
<1>3. CASE Removes
  <2>1. PICK all \in Pairs : /\ InTransit = all \o InTransit'
                             /\ \E o : \A j \in 1 .. Len(all) : all[j][1] = o
    BY <1>3 DEF Removes, Handed
  <2>2. PICK o : \A j \in 1 .. Len(all) : all[j][1] = o
    BY <2>1
  <2>3. /\ Len(all) \in 0 .. Len(InTransit) /\ Len(InTransit') = Len(InTransit) - Len(all)
        /\ \A k \in 1 .. Len(all) : InTransit[k] = all[k]
    BY <1>1, <2>1, JoinedParts DEF Pairs
  <2>4. Len(InTransit) - Len(InTransit') = Len(all) /\ Len(all) \in Nat
    BY <1>1, <2>3
  <2>5. ASSUME NEW k \in 1 .. Len(all) PROVE InTransit[k][1] = InTransit[1][1]
    <3>1. 1 \in 1 .. Len(all)
      BY <2>4
    <3> QED BY <2>2, <2>3, <3>1
  <2> QED BY <2>4, <2>5
<1>4. CASE InTransit' = InTransit
  <2>1. 1 .. (Len(InTransit) - Len(InTransit')) = {}
    BY <1>1, <1>4
  <2> QED BY <2>1
<1>5. CASE UNCHANGED codecVars
  BY <1>4, <1>5 DEF codecVars, InTransit, UnderWay
<1> QED BY <1>2, <1>3, <1>4, <1>5, CodecStep DEF Leaves

(* decapsulate and skip stop where the bytes of one client stop, wherever  *)
(* the frame around them was cut and whatever the bytes are.               *)
THEOREM CodecLeavesOfOneOrder == OrdersAreNamed => (CodecSpec => LeavesOfOneOrder)
<1>1. CodecSound /\ CodecSound' /\ [CodecNext]_codecVars =>
        [(call').name \in {"decapsulate", "skip"} =>
            \A k \in 1 .. (Len(InTransit) - Len(InTransit')) :
                InTransit[k][1] = InTransit[1][1]]_codecVars
  BY OneOrderStep
<1> QED BY <1>1, CodecIsSound, PTL DEF CodecSpec, LeavesOfOneOrder
====
