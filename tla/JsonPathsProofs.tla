-------------------------- MODULE JsonPathsProofs --------------------------
(***************************************************************************)
(* A JsonPath is read as the segments that were added to it, however many  *)
(* there are and whatever separators and escapes stand in them.            *)
(*                                                                         *)
(* Every operator of JsonPaths takes its sequence apart token by token or  *)
(* segment by segment.  The lemmas say what each does with one more at the *)
(* end; SequencesByAppend makes statements about all sequences of them.    *)
(***************************************************************************)
EXTENDS JsonPaths, FiniteSetTheorems, SequenceTheorems, TLAPS

LEMMA LeastNatural ==
  ASSUME NEW S \in SUBSET Nat, S # {}
  PROVE  \E m \in S : \A n \in S : m <= n
<1>1. PICK m \in S : \A n \in S : ~(<<n, m>> \in OpToRel(<, Nat))
  BY NatLessThanWellFounded, WFMin
<1>2. \A n \in S : ~(n < m)
  BY <1>1 DEF OpToRel
<1> QED  BY <1>2

(* A set of naturals with 0 and every successor has all of them. *)
LEMMA NaturalsBySuccessor ==
  ASSUME NEW S \in SUBSET Nat, 0 \in S, \A n \in S : n + 1 \in S
  PROVE  S = Nat
<1> SUFFICES ASSUME Nat \ S # {}  PROVE FALSE
  OBVIOUS
<1>1. PICK m \in Nat \ S : \A n \in Nat \ S : m <= n
  BY LeastNatural
<1>2. m # 0 /\ m - 1 \in Nat
  BY <1>1
<1>3. m - 1 \in S
  BY <1>1, <1>2
<1>4. (m - 1) + 1 \in S
  BY <1>3
<1> QED  BY <1>1, <1>4

(* A set of sequences with <<>> and all that extend its own has them all. *)
LEMMA SequencesByAppend ==
  ASSUME NEW T, NEW P \in SUBSET Seq(T), <<>> \in P,
         \A s \in P, x \in T : Append(s, x) \in P
  PROVE  P = Seq(T)
<1> DEFINE N == {n \in Nat : \A s \in Seq(T) : Len(s) = n => s \in P}
<1>1. 0 \in N
  BY EmptySeq
<1>2. ASSUME NEW n \in N  PROVE n + 1 \in N
  <2> SUFFICES ASSUME NEW s \in Seq(T), Len(s) = n + 1  PROVE s \in P
    OBVIOUS
  <2>1. s # <<>>
    BY EmptySeq
  <2>2. PICK t \in Seq(T), x \in T : s = Append(t, x)
    BY <2>1, SequenceEmptyOrAppend
  <2>3. Len(t) \in Nat /\ Len(s) = Len(t) + 1
    BY <2>2, AppendProperties, LenProperties
  <2>4. Len(t) = n
    BY <2>3
  <2>5. t \in P
    BY <2>4
  <2> QED  BY <2>2, <2>5
<1>3. N = Nat
  <2>1. N \in SUBSET Nat
    OBVIOUS
  <2> HIDE DEF N
  <2> QED  BY <1>1, <1>2, <2>1, NaturalsBySuccessor
<1> QED  BY <1>3, LenProperties

-----------------------------------------------------------------------------
(* FlattenSeq *)

(* The sequences that FlattenSeq goes through. *)
Joined(seqs) ==
  CHOOSE f : f = [i \in 1 .. Len(seqs) |->
                    IF i = 1 THEN seqs[i] ELSE f[i - 1] \o seqs[i]]

IsJoined(f, seqs) ==
  f = [i \in 1 .. Len(seqs) |-> IF i = 1 THEN seqs[i] ELSE f[i - 1] \o seqs[i]]

LEMMA JoinedUnfolds ==
  ASSUME NEW T, NEW seqs \in Seq(Seq(T))
  PROVE  IsJoined(Joined(seqs), seqs)
<1> DEFINE P == {s \in Seq(Seq(T)) : \E f : IsJoined(f, s)}
<1>1. <<>> \in P
  <2>1. <<>> \in Seq(Seq(T)) /\ Len(<<>>) = 0
    BY EmptySeq
  <2>2. IsJoined([i \in 1 .. 0 |-> {}], <<>>)
    BY <2>1 DEF IsJoined
  <2> QED  BY <2>1, <2>2
<1>2. ASSUME NEW s \in P, NEW x \in Seq(T)  PROVE Append(s, x) \in P
  <2> DEFINE n == Len(s)
             t == Append(s, x)
  <2>1. PICK g : IsJoined(g, s)
    OBVIOUS
  <2> DEFINE f == [i \in 1 .. n + 1 |->
                     IF i <= n THEN g[i] ELSE IF i = 1 THEN x ELSE g[n] \o x]
  <2>2. /\ s \in Seq(Seq(T)) /\ n \in Nat
        /\ t \in Seq(Seq(T)) /\ Len(t) = n + 1 /\ t[n + 1] = x
        /\ \A i \in 1 .. n : t[i] = s[i]
    BY AppendProperties, LenProperties
  <2>3. \A i \in 1 .. n : g[i] = IF i = 1 THEN s[i] ELSE g[i - 1] \o s[i]
    BY <2>1 DEF IsJoined
  <2>4. ASSUME NEW i \in 1 .. n + 1
        PROVE  f[i] = IF i = 1 THEN t[i] ELSE f[i - 1] \o t[i]
    <3>1. CASE i <= n
      <4>1. i \in 1 .. n /\ f[i] = g[i] /\ t[i] = s[i]
        BY <2>2, <3>1
      <4>2. i # 1 => f[i - 1] = g[i - 1]
        BY <2>2, <3>1
      <4> HIDE DEF f, t
      <4> QED  BY <2>3, <4>1, <4>2
    <3>2. CASE i = n + 1
      <4>1. t[i] = x
        BY <2>2, <3>2
      <4>2. CASE i = 1
        <5>1. f[i] = x
          BY <2>2, <3>2, <4>2
        <5> QED  BY <4>1, <4>2, <5>1
      <4>3. CASE i # 1
        <5>1. f[i] = g[n] \o x /\ f[i - 1] = g[n]
          BY <2>2, <3>2, <4>3
        <5> HIDE DEF f, t
        <5> QED  BY <4>1, <4>3, <5>1
      <4> QED  BY <4>2, <4>3
    <3> QED  BY <2>2, <3>1, <3>2
  <2>5. IsJoined(f, t)
    <3>1. f = [i \in 1 .. n + 1 |-> f[i]]
      OBVIOUS
    <3> HIDE DEF f
    <3> QED  BY <2>2, <2>4, <3>1 DEF IsJoined
  <2> QED  BY <2>2, <2>5
<1>3. P = Seq(Seq(T))
  <2>1. P \in SUBSET Seq(Seq(T))
    OBVIOUS
  <2> HIDE DEF P
  <2> QED  BY <1>1, <1>2, <2>1, SequencesByAppend
<1>4. \E f : IsJoined(f, seqs)
  BY <1>3
<1> QED  BY <1>4 DEF Joined, IsJoined

LEMMA FlattenIsJoined ==
  \A seqs : FlattenSeq(seqs) = IF Len(seqs) = 0 THEN seqs ELSE Joined(seqs)[Len(seqs)]
BY DEF FlattenSeq, Joined

LEMMA FlattenEmpty == FlattenSeq(<<>>) = <<>>
BY EmptySeq, FlattenIsJoined

LEMMA FlattenAppend ==
  ASSUME NEW T, NEW seqs \in Seq(Seq(T)), NEW x \in Seq(T), FlattenSeq(seqs) \in Seq(T)
  PROVE  FlattenSeq(Append(seqs, x)) = FlattenSeq(seqs) \o x
<1> DEFINE n == Len(seqs)
           more == Append(seqs, x)
           f == Joined(seqs)
           g == Joined(more)
<1>1. /\ n \in Nat
      /\ more \in Seq(Seq(T)) /\ Len(more) = n + 1 /\ more[n + 1] = x
      /\ \A i \in 1 .. n : more[i] = seqs[i]
  BY AppendProperties, LenProperties
<1>2. \A i \in 1 .. n : f[i] = IF i = 1 THEN seqs[i] ELSE f[i - 1] \o seqs[i]
  <2>1. IsJoined(f, seqs)
    BY JoinedUnfolds
  <2> HIDE DEF f
  <2> QED  BY <2>1 DEF IsJoined
<1>3. \A i \in 1 .. n + 1 : g[i] = IF i = 1 THEN more[i] ELSE g[i - 1] \o more[i]
  <2>1. IsJoined(g, more)
    BY <1>1, JoinedUnfolds
  <2> HIDE DEF g, more
  <2> QED  BY <1>1, <2>1 DEF IsJoined
<1>4. FlattenSeq(seqs) = IF n = 0 THEN seqs ELSE f[n]
  BY FlattenIsJoined
<1>5. FlattenSeq(more) = g[n + 1]
  <2> HIDE DEF n, more
  <2>1. Len(more) # 0
    BY <1>1
  <2>2. FlattenSeq(more) = IF Len(more) = 0 THEN more ELSE g[Len(more)]
    BY FlattenIsJoined
  <2> QED  BY <1>1, <2>1, <2>2
<1> HIDE DEF n, more, f, g
<1> DEFINE N == {i \in Nat : i \in 1 .. n => g[i] = f[i]}
<1>6. N = Nat
  <2>1. ASSUME NEW i \in N  PROVE i + 1 \in N
    <3> SUFFICES ASSUME i + 1 \in 1 .. n  PROVE g[i + 1] = f[i + 1]
      OBVIOUS
    <3>1. more[i + 1] = seqs[i + 1]
      BY <1>1
    <3>2. CASE i = 0
      BY <1>1, <1>2, <1>3, <3>1, <3>2
    <3>3. CASE i # 0
      <4>1. i \in 1 .. n /\ i + 1 # 1 /\ (i + 1) - 1 = i /\ i + 1 \in 1 .. n + 1
        BY <1>1, <3>3
      <4>3. g[i] = f[i]
        BY <4>1
      <4>2. g[i + 1] = g[i] \o more[i + 1] /\ f[i + 1] = f[i] \o seqs[i + 1]
        BY <1>2, <1>3, <4>1
      <4> QED  BY <3>1, <4>2, <4>3
    <3> QED  BY <3>2, <3>3
  <2>2. 0 \in N /\ N \in SUBSET Nat
    BY <1>1
  <2> HIDE DEF N
  <2> QED  BY <2>1, <2>2, NaturalsBySuccessor
<1>7. CASE n = 0
  <2>1. seqs = <<>>
    BY <1>7, EmptySeq DEF n
  <2>2. g[n + 1] = x
    BY <1>1, <1>3, <1>7
  <2>3. <<>> \o x = x
    BY ConcatEmptySeq
  <2> QED  BY <1>4, <1>5, <1>7, <2>1, <2>2, <2>3 DEF more
<1>8. CASE n # 0
  <2>1. g[n] = f[n]
    <3>1. n \in N
      <4> HIDE DEF N
      <4> QED  BY <1>1, <1>6
    <3>2. n \in 1 .. n
      BY <1>1, <1>8
    <3> QED  BY <3>1, <3>2
  <2>2. n + 1 # 1 /\ (n + 1) - 1 = n /\ n + 1 \in 1 .. n + 1
    BY <1>1, <1>8
  <2>3. g[n + 1] = g[n] \o x
    BY <1>1, <1>3, <2>2
  <2> QED  BY <1>4, <1>5, <1>8, <2>1, <2>3 DEF more
<1> QED  BY <1>7, <1>8

(* Joining sequences of some set gives a sequence of it. *)
LEMMA FlattenTyped ==
  ASSUME NEW T, NEW seqs \in Seq(Seq(T))
  PROVE  FlattenSeq(seqs) \in Seq(T)
<1> DEFINE P == {s \in Seq(Seq(T)) : FlattenSeq(s) \in Seq(T)}
<1>1. <<>> \in P
  BY EmptySeq, FlattenEmpty
<1>2. ASSUME NEW s \in P, NEW x \in Seq(T)  PROVE Append(s, x) \in P
  BY FlattenAppend, AppendProperties, ConcatProperties
<1>3. P = Seq(Seq(T))
  <2>1. P \in SUBSET Seq(Seq(T))
    OBVIOUS
  <2> HIDE DEF P
  <2> QED  BY <1>1, <1>2, <2>1, SequencesByAppend
<1> QED  BY <1>3

-----------------------------------------------------------------------------
(* One segment *)

(* What an operator makes of each token, and of one more at the end. *)
LEMMA MappedAppend ==
  ASSUME NEW T, NEW n \in Nat, NEW f \in [1 .. n + 1 -> Seq(T)]
  PROVE  LET front == [i \in 1 .. n |-> f[i]] IN
         /\ front \in Seq(Seq(T))
         /\ f = Append(front, f[n + 1])
         /\ FlattenSeq(f) = FlattenSeq(front) \o f[n + 1]
         /\ FlattenSeq(front) \in Seq(T)
<1> DEFINE front == [i \in 1 .. n |-> f[i]]
<1>1. front \in Seq(Seq(T)) /\ Len(front) = n
  OBVIOUS
<1>2. f[n + 1] \in Seq(T)
  OBVIOUS
<1>3. f = Append(front, f[n + 1])
  <2>1. f \in Seq(Seq(T)) /\ Len(f) = n + 1
    OBVIOUS
  <2>2. /\ Append(front, f[n + 1]) \in Seq(Seq(T))
        /\ Len(Append(front, f[n + 1])) = n + 1
        /\ Append(front, f[n + 1])[n + 1] = f[n + 1]
        /\ \A i \in 1 .. n : Append(front, f[n + 1])[i] = front[i]
    <3> HIDE DEF front
    <3> QED  BY <1>1, <1>2, AppendProperties
  <2>3. \A i \in 1 .. n + 1 : f[i] = Append(front, f[n + 1])[i]
    <3>1. \A i \in 1 .. n + 1 : i \in 1 .. n \/ i = n + 1
      OBVIOUS
    <3>2. \A i \in 1 .. n : f[i] = front[i]
      OBVIOUS
    <3> HIDE DEF front
    <3> QED  BY <2>2, <3>1, <3>2
  <2> HIDE DEF front
  <2> QED  BY <2>1, <2>2, <2>3, SeqEqual
<1> HIDE DEF front
<1>4. FlattenSeq(front) \in Seq(T)
  BY <1>1, FlattenTyped
<1>5. FlattenSeq(f) = FlattenSeq(front) \o f[n + 1]
  BY <1>1, <1>2, <1>3, <1>4, FlattenAppend
<1> QED  BY <1>1, <1>3, <1>4, <1>5 DEF front

LEMMA ReplacedAppend ==
  ASSUME NEW T, NEW text \in Seq(T), NEW c \in T, NEW token, NEW by \in Seq(T)
  PROVE  /\ Replaced(text, token, by) \in Seq(T)
         /\ c = token =>
              Replaced(Append(text, c), token, by) = Replaced(text, token, by) \o by
         /\ c # token =>
              Replaced(Append(text, c), token, by) = Replaced(text, token, by) \o <<c>>
<1> DEFINE n == Len(text)
           more == Append(text, c)
           piece(x) == IF x = token THEN by ELSE <<x>>
           f == [i \in 1 .. n + 1 |-> piece(more[i])]
           front == [i \in 1 .. n |-> f[i]]
<1>1. /\ n \in Nat /\ more \in Seq(T) /\ Len(more) = n + 1 /\ more[n + 1] = c
      /\ \A i \in 1 .. n : more[i] = text[i]
      /\ \A i \in 1 .. n + 1 : more[i] \in T
  BY AppendProperties, LenProperties, ElementOfSeq
<1>2. \A x \in T : piece(x) \in Seq(T)
  OBVIOUS
<1>3. f \in [1 .. n + 1 -> Seq(T)]
  <2> HIDE DEF more, n, piece
  <2> QED  BY <1>1, <1>2
<1>4. f[n + 1] = piece(c)
  BY <1>1
<1>5. front = [i \in 1 .. n |-> piece(text[i])]
  <2>1. \A i \in 1 .. n : f[i] = piece(text[i])
    BY <1>1
  <2> HIDE DEF f, piece, n
  <2> QED  BY <2>1
<1>6. /\ FlattenSeq(f) = FlattenSeq(front) \o f[n + 1]
      /\ FlattenSeq(front) \in Seq(T)
  <2> HIDE DEF f, n
  <2> QED  BY <1>1, <1>3, MappedAppend
<1>7. Replaced(text, token, by) = FlattenSeq(front)
  <2> HIDE DEF front
  <2> QED  BY <1>5 DEF Replaced
<1>8. Replaced(more, token, by) = FlattenSeq(f)
  <2>1. f = [i \in 1 .. Len(more) |-> piece(more[i])]
    BY <1>1
  <2> HIDE DEF f, more
  <2> QED  BY <2>1 DEF Replaced
<1> HIDE DEF f, front
<1> QED  BY <1>4, <1>6, <1>7, <1>8

LEMMA TwoTokens ==
  ASSUME NEW T, NEW t \in Seq(T), NEW x \in T, NEW y \in T
  PROVE  <<x, y>> \in Seq(T) /\ t \o <<x, y>> = Append(Append(t, x), y)
<1>1. <<x, y>> \in Seq(T) /\ Len(<<x, y>>) = 2 /\ <<x, y>>[1] = x /\ <<x, y>>[2] = y
  OBVIOUS
<1> DEFINE pair == <<x, y>>
           n == Len(t)
           u == Append(Append(t, x), y)
<1> HIDE DEF pair
<1>2. pair \in Seq(T) /\ Len(pair) = 2 /\ pair[1] = x /\ pair[2] = y /\ n \in Nat
  BY <1>1, LenProperties DEF pair
<1>3. /\ u \in Seq(T) /\ Len(u) = n + 2
      /\ \A i \in 1 .. n : u[i] = t[i]
      /\ u[n + 1] = x /\ u[n + 2] = y
  BY <1>2, AppendProperties
<1> HIDE DEF u
<1>4. /\ t \o pair \in Seq(T) /\ Len(t \o pair) = n + 2
      /\ \A i \in 1 .. n + 2 : (t \o pair)[i] = IF i <= n THEN t[i] ELSE pair[i - n]
  <2>1. /\ t \o pair \in Seq(T)
        /\ Len(t \o pair) = n + Len(pair)
        /\ \A i \in 1 .. n + Len(pair) :
             (t \o pair)[i] = IF i <= n THEN t[i] ELSE pair[i - n]
    BY <1>2, ConcatProperties
  <2> QED  BY <1>2, <2>1
<1>5. \A i \in 1 .. n + 2 : i \in 1 .. n \/ i = n + 1 \/ i = n + 2
  BY <1>2
<1>6. \A i \in 1 .. n + 2 : (t \o pair)[i] = u[i]
  <2> HIDE DEF n
  <2>1. \A i \in 1 .. n : (t \o pair)[i] = u[i]
    BY <1>2, <1>3, <1>4
  <2>2. (t \o pair)[n + 1] = u[n + 1] /\ (t \o pair)[n + 2] = u[n + 2]
    BY <1>2, <1>3, <1>4
  <2> QED  BY <1>5, <2>1, <2>2
<1>7. t \o pair = u
  BY <1>3, <1>4, <1>6, SeqEqual
<1> QED  BY <1>2, <1>7 DEF pair, u

LEMMA EscapedAppend ==
  ASSUME NEW T, {"~", "/", "0", "1"} \subseteq T, NEW s \in Seq(T), NEW c \in T
  PROVE  /\ Escaped(s) \in Seq(T)
         /\ c = "~" => Escaped(Append(s, c)) = Append(Append(Escaped(s), "~"), "0")
         /\ c = "/" => Escaped(Append(s, c)) = Append(Append(Escaped(s), "~"), "1")
         /\ c \notin {"~", "/"} => Escaped(Append(s, c)) = Append(Escaped(s), c)
<1> DEFINE zero == <<"~", "0">>
           one == <<"~", "1">>
           more(t, x) == Append(t, x)
           then(t, u) == t \o u
           alone(x) == <<x>>
           r == Replaced(s, "~", zero)
           e(text) == Replaced(text, "/", one)
<1> SUFFICES /\ Escaped(s) \in Seq(T)
             /\ c = "~" => Escaped(more(s, c)) = more(more(Escaped(s), "~"), "0")
             /\ c = "/" => Escaped(more(s, c)) = more(more(Escaped(s), "~"), "1")
             /\ c \notin {"~", "/"} => Escaped(more(s, c)) = more(Escaped(s), c)
  OBVIOUS
<1>1. zero \in Seq(T) /\ one \in Seq(T) /\ "~" \in T /\ "/" \in T /\ "0" \in T /\ "1" \in T
  BY TwoTokens
<1>2. \A t \in Seq(T) : /\ then(t, zero) = more(more(t, "~"), "0")
                        /\ then(t, one) = more(more(t, "~"), "1")
  BY TwoTokens
<1>3. \A t \in Seq(T), x \in T : then(t, alone(x)) = more(t, x)
  BY AppendIsConcat
<1>4. \A t \in Seq(T), x \in T : more(t, x) \in Seq(T)
  BY AppendProperties
<1>5. \A t \in Seq(T), x \in T, token \in T, by \in Seq(T) :
        /\ Replaced(t, token, by) \in Seq(T)
        /\ x = token => Replaced(more(t, x), token, by) = then(Replaced(t, token, by), by)
        /\ x # token =>
             Replaced(more(t, x), token, by) = then(Replaced(t, token, by), alone(x))
  BY ReplacedAppend
<1>6. Escaped(s) = e(r) /\ Escaped(more(s, c)) = e(Replaced(more(s, c), "~", zero))
  BY DEF Escaped
<1> HIDE DEF zero, one, more, then, alone
<1>7. \A t \in Seq(T), x \in T, token \in T, by \in Seq(T) :
        /\ Replaced(t, token, by) \in Seq(T)
        /\ x # token => Replaced(more(t, x), token, by) = more(Replaced(t, token, by), x)
  BY <1>3, <1>5
<1>8. \A t \in Seq(T) :
        /\ Replaced(more(t, "~"), "~", zero) = more(more(Replaced(t, "~", zero), "~"), "0")
        /\ Replaced(more(t, "/"), "/", one) = more(more(Replaced(t, "/", one), "~"), "1")
  BY <1>1, <1>2, <1>5
<1>9. r \in Seq(T) /\ e(r) \in Seq(T)
  BY <1>1, <1>7
<1>10. CASE c = "~"
  <2>1. Escaped(more(s, c)) = e(more(more(r, "~"), "0"))
    BY <1>6, <1>8, <1>10
  <2>2. more(r, "~") \in Seq(T)
    BY <1>1, <1>4, <1>9
  <2>3. e(more(r, "~")) = more(e(r), "~")
    BY <1>1, <1>7, <1>9
  <2>4. e(more(more(r, "~"), "0")) = more(e(more(r, "~")), "0")
    BY <1>1, <1>7, <2>2
  <2> QED  BY <1>6, <1>9, <1>10, <2>1, <2>3, <2>4
<1>11. CASE c # "~"
  <2>1. Escaped(more(s, c)) = e(more(r, c))
    BY <1>1, <1>6, <1>7, <1>11
  <2>2. c = "/" => e(more(r, c)) = more(more(e(r), "~"), "1")
    BY <1>8, <1>9
  <2>3. c # "/" => e(more(r, c)) = more(e(r), c)
    BY <1>1, <1>7, <1>9
  <2> QED  BY <1>6, <1>9, <1>11, <2>1, <2>2, <2>3
<1> QED  BY <1>10, <1>11

LEMMA EscapedTyped ==
  ASSUME NEW T, {"~", "/", "0", "1"} \subseteq T, NEW s \in Seq(T)
  PROVE  Escaped(s) \in Seq(T)
BY EscapedAppend

(* What a token is read as, after others. *)
Unescape(part, c) ==
  IF Len(part) > 0 /\ part[Len(part)] = "~" THEN <<IF c = "1" THEN "/" ELSE "~">>
  ELSE IF c = "~" THEN <<>>
  ELSE <<c>>

LEMMA UnescapedAppend ==
  ASSUME NEW T, {"~", "/", "0", "1"} \subseteq T, NEW part \in Seq(T), NEW c \in T
  PROVE  /\ Unescaped(part) \in Seq(T)
         /\ Unescaped(Append(part, c)) = Unescaped(part) \o Unescape(part, c)
<1> DEFINE n == Len(part)
           more == Append(part, c)
           read(p, i) == IF i > 1 /\ p[i - 1] = "~" THEN <<IF p[i] = "1" THEN "/" ELSE "~">>
                         ELSE IF p[i] = "~" THEN <<>>
                         ELSE <<p[i]>>
           f == [i \in 1 .. n + 1 |-> read(more, i)]
           front == [i \in 1 .. n |-> f[i]]
<1>1. /\ n \in Nat /\ more \in Seq(T) /\ Len(more) = n + 1 /\ more[n + 1] = c
      /\ \A i \in 1 .. n : more[i] = part[i]
      /\ \A i \in 1 .. n + 1 : more[i] \in T
  BY AppendProperties, LenProperties, ElementOfSeq
<1>2. \A i \in 1 .. n + 1 : read(more, i) \in Seq(T)
  <2> SUFFICES ASSUME NEW i \in 1 .. n + 1  PROVE read(more, i) \in Seq(T)
    OBVIOUS
  <2>1. <<"/">> \in Seq(T) /\ <<"~">> \in Seq(T) /\ <<>> \in Seq(T) /\ <<more[i]>> \in Seq(T)
    BY <1>1
  <2> HIDE DEF more
  <2> QED  BY <2>1
<1>3. f \in [1 .. n + 1 -> Seq(T)]
  <2> HIDE DEF more, n, read
  <2> QED  BY <1>2
<1>4. f[n + 1] = Unescape(part, c)
  <2>1. f[n + 1] = read(more, n + 1) /\ (n + 1) - 1 = n /\ (n + 1 > 1 <=> n > 0)
    BY <1>1
  <2>2. n > 0 => more[n] = part[n]
    BY <1>1
  <2> HIDE DEF f, more
  <2> QED  BY <1>1, <2>1, <2>2 DEF Unescape
<1>5. front = [i \in 1 .. n |-> read(part, i)]
  <2>1. \A i \in 1 .. n : f[i] = read(part, i)
    <3> SUFFICES ASSUME NEW i \in 1 .. n  PROVE read(more, i) = read(part, i)
      BY <1>1
    <3>1. more[i] = part[i] /\ (i > 1 => more[i - 1] = part[i - 1])
      BY <1>1
    <3> HIDE DEF more
    <3> QED  BY <3>1
  <2> HIDE DEF f, read, n
  <2> QED  BY <2>1
<1>6. /\ FlattenSeq(f) = FlattenSeq(front) \o f[n + 1]
      /\ FlattenSeq(front) \in Seq(T)
  <2> HIDE DEF f, n
  <2> QED  BY <1>1, <1>3, MappedAppend
<1>7. Unescaped(part) = FlattenSeq(front)
  <2> HIDE DEF front
  <2> QED  BY <1>5 DEF Unescaped
<1>8. Unescaped(more) = FlattenSeq(f)
  <2>1. f = [i \in 1 .. Len(more) |-> read(more, i)]
    BY <1>1
  <2> HIDE DEF f, more
  <2> QED  BY <2>1 DEF Unescaped
<1> HIDE DEF f, front
<1> QED  BY <1>4, <1>6, <1>7, <1>8

(* A segment is read as it was before it was escaped, and holds no /. *)
LEMMA ReadsEscaped ==
  ASSUME NEW T, {"~", "/", "0", "1"} \subseteq T, NEW segment \in Seq(T)
  PROVE  /\ Escaped(segment) \in Seq(T)
         /\ \A i \in 1 .. Len(Escaped(segment)) : Escaped(segment)[i] # "/"
         /\ Unescaped(Escaped(segment)) = segment
<1> DEFINE plain(e) == \A i \in 1 .. Len(e) : e[i] # "/"
           closed(e) == ~(Len(e) > 0 /\ e[Len(e)] = "~")
           P == {s \in Seq(T) : /\ Escaped(s) \in Seq(T)
                                /\ plain(Escaped(s))
                                /\ closed(Escaped(s))
                                /\ Unescaped(Escaped(s)) = s}
<1>1. <<>> \in P
  <2>1. Escaped(<<>>) = <<>> /\ Unescaped(<<>>) = <<>>
    <3>1. \A token, by : Replaced(<<>>, token, by) = <<>>
      BY FlattenEmpty, EmptySeq DEF Replaced
    <3> QED  BY <3>1, FlattenEmpty, EmptySeq DEF Escaped, Unescaped
  <2>2. <<>> \in Seq(T) /\ plain(<<>>) /\ closed(<<>>)
    BY EmptySeq
  <2> HIDE DEF plain, closed
  <2> QED  BY <2>1, <2>2
<1>2. ASSUME NEW e \in Seq(T), plain(e), NEW c \in T, c # "/"
      PROVE  plain(Append(e, c))
  BY <1>2, AppendProperties
<1>3. ASSUME NEW e \in Seq(T), NEW c \in T, c # "~"
      PROVE  closed(Append(e, c))
  BY <1>3, AppendProperties, LenProperties
<1>4. ASSUME NEW e \in Seq(T), closed(e), NEW d \in {"0", "1"}
      PROVE  LET more == Append(Append(e, "~"), d) IN
             /\ more \in Seq(T)
             /\ plain(e) => plain(more)
             /\ closed(more)
             /\ Unescaped(more) = Append(Unescaped(e), IF d = "1" THEN "/" ELSE "~")
  <2>1. "~" \in T /\ "/" \in T /\ d \in T /\ d # "/" /\ d # "~" /\ "~" # "/"
    OBVIOUS
  <2> DEFINE f == Append(e, "~")
             g == Append(f, d)
             x == IF d = "1" THEN "/" ELSE "~"
  <2>2. f \in Seq(T) /\ Len(f) > 0 /\ f[Len(f)] = "~"
    BY <2>1, AppendProperties, LenProperties
  <2>3. Unescaped(e) \in Seq(T) /\ Unescaped(f) = Unescaped(e)
    <3>1. Unescape(e, "~") = <<>>
      BY <1>4 DEF Unescape
    <3>2. Unescaped(e) \in Seq(T) /\ Unescaped(f) = Unescaped(e) \o <<>>
      BY <2>1, <3>1, UnescapedAppend
    <3> HIDE DEF f
    <3> QED  BY <3>2, ConcatEmptySeq
  <2>4. plain(e) => plain(f)
    BY <1>2, <2>1
  <2> HIDE DEF f
  <2>5. g \in Seq(T)
    BY <2>1, <2>2, AppendProperties
  <2>6. plain(f) => plain(g)
    BY <1>2, <2>1, <2>2
  <2>7. closed(g)
    BY <1>3, <2>1, <2>2
  <2>8. Unescaped(g) = Unescaped(f) \o <<x>>
    <3>1. Unescape(f, d) = <<x>>
      BY <2>2 DEF Unescape
    <3> HIDE DEF x
    <3> QED  BY <2>1, <2>2, <3>1, UnescapedAppend
  <2>9. Unescaped(e) \o <<x>> = Append(Unescaped(e), x)
    <3>1. x \in T
      BY <2>1
    <3> HIDE DEF x
    <3> QED  BY <2>3, <3>1, AppendIsConcat
  <2> HIDE DEF x, g
  <2>10. Unescaped(g) = Append(Unescaped(e), x)
    BY <2>3, <2>8, <2>9
  <2> QED  BY <2>4, <2>5, <2>6, <2>7, <2>10 DEF f, g, x
<1>5. ASSUME NEW s \in P, NEW c \in T  PROVE Append(s, c) \in P
  <2> DEFINE e == Escaped(s)
             more == Append(s, c)
  <2>1. s \in Seq(T) /\ e \in Seq(T) /\ plain(e) /\ closed(e) /\ Unescaped(e) = s
    OBVIOUS
  <2>2. more \in Seq(T)
    BY <2>1, AppendProperties
  <2>3. /\ c = "~" => Escaped(more) = Append(Append(e, "~"), "0")
        /\ c = "/" => Escaped(more) = Append(Append(e, "~"), "1")
        /\ c \notin {"~", "/"} => Escaped(more) = Append(e, c)
    BY <2>1, EscapedAppend
  <2> HIDE DEF e, P, plain, closed
  <2> SUFFICES /\ Escaped(more) \in Seq(T)
               /\ plain(Escaped(more))
               /\ closed(Escaped(more))
               /\ Unescaped(Escaped(more)) = more
    BY <2>2 DEF P
  <2>4. CASE c = "~"
    <3> DEFINE u == Append(Append(e, "~"), "0")
    <3>1. u \in Seq(T) /\ plain(u) /\ closed(u) /\ Unescaped(u) = Append(s, "~")
      BY <1>4, <2>1
    <3> HIDE DEF u
    <3>2. Escaped(more) = u
      BY <2>3, <2>4 DEF u
    <3> QED  BY <2>4, <3>1, <3>2
  <2>5. CASE c = "/"
    <3> DEFINE u == Append(Append(e, "~"), "1")
    <3>1. u \in Seq(T) /\ plain(u) /\ closed(u) /\ Unescaped(u) = Append(s, "/")
      BY <1>4, <2>1
    <3> HIDE DEF u
    <3>2. Escaped(more) = u
      BY <2>3, <2>5 DEF u
    <3> QED  BY <2>5, <3>1, <3>2
  <2>6. CASE c \notin {"~", "/"}
    <3> DEFINE u == Append(e, c)
    <3>1. u \in Seq(T) /\ plain(u) /\ closed(u)
      BY <1>2, <1>3, <2>1, <2>6, AppendProperties
    <3>2. Unescaped(u) = Append(s, c)
      <4>1. Unescape(e, c) = <<c>>
        BY <2>1, <2>6 DEF Unescape, closed
      <4>2. Unescaped(u) = s \o <<c>>
        BY <2>1, <4>1, UnescapedAppend
      <4> QED  BY <2>1, <4>2, AppendIsConcat
    <3> HIDE DEF u
    <3>3. Escaped(more) = u
      BY <2>3, <2>6 DEF u
    <3> QED  BY <3>1, <3>2, <3>3
  <2> QED  BY <2>4, <2>5, <2>6
<1>6. P = Seq(T)
  <2>1. P \in SUBSET Seq(T)
    OBVIOUS
  <2> HIDE DEF P
  <2> QED  BY <1>1, <1>5, <2>1, SequencesByAppend
<1> QED  BY <1>6

-----------------------------------------------------------------------------
(* The segments of a path *)

(* An end is the one that as many ends stand before. *)
LEMMA EndIs ==
  ASSUME NEW p, IsFiniteSet(Ends(p)), Ends(p) \subseteq Nat, NEW e \in Ends(p)
  PROVE  End(p, Cardinality({j \in Ends(p) : j < e})) = e
<1> DEFINE before(i) == {j \in Ends(p) : j < i}
<1>1. ASSUME NEW i \in Ends(p), NEW k \in Ends(p), i < k
      PROVE  Cardinality(before(i)) # Cardinality(before(k))
  <2>1. before(i) \in SUBSET before(k) /\ i \in before(k) /\ i \notin before(i)
    BY <1>1
  <2>2. IsFiniteSet(before(k))
    <3>1. before(k) \in SUBSET Ends(p)
      OBVIOUS
    <3> HIDE DEF before
    <3> QED  BY <3>1, FS_Subset
  <2> HIDE DEF before
  <2> QED  BY <2>1, <2>2, FS_Subset
<1>2. \A i \in Ends(p) : Cardinality(before(i)) = Cardinality(before(e)) => i = e
  <2> SUFFICES ASSUME NEW i \in Ends(p), i # e
               PROVE  Cardinality(before(i)) # Cardinality(before(e))
    OBVIOUS
  <2>1. i < e \/ e < i
    OBVIOUS
  <2> HIDE DEF before
  <2> QED  BY <1>1, <2>1
<1>3. End(p, Cardinality(before(e)))
        = CHOOSE i \in Ends(p) : Cardinality(before(i)) = Cardinality(before(e))
  BY DEF End
<1> HIDE DEF before
<1>4. End(p, Cardinality(before(e))) = e
  BY <1>2, <1>3
<1> QED  BY <1>4 DEF before

(* If the ends are known in their order, so are the parts. *)
LEMMA PartsBetween ==
  ASSUME NEW p, NEW n \in Nat, NEW at \in [0 .. n -> Nat],
         \A k \in 1 .. n : at[k - 1] < at[k],
         Ends(p) = {at[k] : k \in 0 .. n}
  PROVE  Parts(p) = [k \in 1 .. n |-> SubSeq(p, at[k - 1] + 1, at[k] - 1)]
<1> DEFINE first(k) == {at[j] : j \in 0 .. k - 1}
<1>1. \A k \in 0 .. n : \A j \in 0 .. k : j < k => at[j] < at[k]
  <2> DEFINE N == {k \in Nat : k \in 0 .. n => \A j \in 0 .. k : j < k => at[j] < at[k]}
  <2>1. 0 \in N
    OBVIOUS
  <2>2. ASSUME NEW k \in N  PROVE k + 1 \in N
    <3> SUFFICES ASSUME k + 1 \in 0 .. n, NEW j \in 0 .. k  PROVE at[j] < at[k + 1]
      OBVIOUS
    <3>1. k \in 0 .. n /\ k + 1 \in 1 .. n /\ (k + 1) - 1 = k
      OBVIOUS
    <3>2. at[k] < at[k + 1]
      BY <3>1
    <3>3. j = k \/ at[j] < at[k]
      BY <3>1
    <3>4. at[j] \in Nat /\ at[k] \in Nat /\ at[k + 1] \in Nat
      BY <3>1
    <3> QED  BY <3>2, <3>3, <3>4
  <2>3. N = Nat
    <3>1. N \in SUBSET Nat
      OBVIOUS
    <3> HIDE DEF N
    <3> QED  BY <2>1, <2>2, <3>1, NaturalsBySuccessor
  <2> SUFFICES ASSUME NEW k \in 0 .. n  PROVE k \in N
    OBVIOUS
  <2> HIDE DEF N
  <2> QED  BY <2>3
<1>2. \A k \in 0 .. n + 1 : IsFiniteSet(first(k)) /\ Cardinality(first(k)) = k
  <2> DEFINE N == {k \in Nat : k \in 0 .. n + 1 =>
                     IsFiniteSet(first(k)) /\ Cardinality(first(k)) = k}
  <2>1. 0 \in N
    <3>1. first(0) = {}
      OBVIOUS
    <3> HIDE DEF first
    <3> QED  BY <3>1, FS_EmptySet
  <2>2. ASSUME NEW k \in N  PROVE k + 1 \in N
    <3> SUFFICES ASSUME k + 1 \in 0 .. n + 1
                 PROVE  IsFiniteSet(first(k + 1)) /\ Cardinality(first(k + 1)) = k + 1
      OBVIOUS
    <3>1. IsFiniteSet(first(k)) /\ Cardinality(first(k)) = k
      OBVIOUS
    <3>2. first(k + 1) = first(k) \cup {at[k]}
      <4>1. \A j : j \in 0 .. (k + 1) - 1 <=> j \in 0 .. k - 1 \/ j = k
        OBVIOUS
      <4> QED  BY <4>1
    <3>3. at[k] \notin first(k)
      <4>1. \A j \in 0 .. k - 1 : at[j] < at[k] /\ at[j] \in Nat /\ at[k] \in Nat
        BY <1>1
      <4> QED  BY <4>1
    <3>4. /\ IsFiniteSet(first(k) \cup {at[k]})
          /\ Cardinality(first(k) \cup {at[k]}) = Cardinality(first(k)) + 1
      <4> HIDE DEF first
      <4> QED  BY <3>1, <3>3, FS_AddElement
    <3> HIDE DEF first
    <3> QED  BY <3>1, <3>2, <3>4
  <2>3. N = Nat
    <3>1. N \in SUBSET Nat
      OBVIOUS
    <3> HIDE DEF N
    <3> QED  BY <2>1, <2>2, <3>1, NaturalsBySuccessor
  <2> SUFFICES ASSUME NEW k \in 0 .. n + 1  PROVE k \in N
    OBVIOUS
  <2> HIDE DEF N
  <2> QED  BY <2>3
<1>3. \A k \in 0 .. n : {j \in Ends(p) : j < at[k]} = first(k)
  <2> SUFFICES ASSUME NEW k \in 0 .. n
               PROVE  \A j \in 0 .. n : at[j] < at[k] <=> j < k
    OBVIOUS
  <2>1. ASSUME NEW j \in 0 .. n  PROVE at[j] < at[k] <=> j < k
    <3>1. at[j] \in Nat /\ at[k] \in Nat
      OBVIOUS
    <3>2. j < k => at[j] < at[k]
      BY <1>1
    <3>3. k < j => at[k] < at[j]
      BY <1>1
    <3> QED  BY <3>1, <3>2, <3>3
  <2> QED  BY <2>1
<1>4. Ends(p) = first(n + 1) /\ Ends(p) \subseteq Nat
  OBVIOUS
<1>5. IsFiniteSet(Ends(p)) /\ Cardinality(Ends(p)) - 1 = n
  <2> HIDE DEF first
  <2>1. n + 1 \in 0 .. n + 1
    OBVIOUS
  <2>2. IsFiniteSet(first(n + 1)) /\ Cardinality(first(n + 1)) = n + 1
    BY <1>2, <2>1
  <2>3. IsFiniteSet(Ends(p)) /\ Cardinality(Ends(p)) = Cardinality(first(n + 1))
    BY <1>4, <2>2
  <2> QED  BY <2>2, <2>3
<1>6. \A k \in 0 .. n : End(p, k) = at[k]
  <2> SUFFICES ASSUME NEW k \in 0 .. n  PROVE End(p, k) = at[k]
    OBVIOUS
  <2>1. at[k] \in Ends(p)
    OBVIOUS
  <2>2. Cardinality({j \in Ends(p) : j < at[k]}) = k
    <3>1. {j \in Ends(p) : j < at[k]} = first(k)
      BY <1>3
    <3>2. k \in 0 .. n + 1
      OBVIOUS
    <3> HIDE DEF first
    <3>3. Cardinality(first(k)) = k
      BY <1>2, <3>2
    <3> QED  BY <3>1, <3>3
  <2> QED  BY <1>4, <1>5, <2>1, <2>2, EndIs
<1>7. \A k \in 1 .. n : End(p, k - 1) = at[k - 1] /\ End(p, k) = at[k]
  BY <1>6
<1> QED  BY <1>5, <1>7 DEF Parts

(* A pointer that goes on. *)
Continued(p, x) == p \o (<<"/">> \o x)

LEMMA FormatPathAppend ==
  ASSUME NEW T, "/" \in T, NEW path \in Seq(Seq(T)), NEW x \in Seq(T)
  PROVE  /\ FormatPath(path) \in Seq(T)
         /\ path = <<>> => FormatPath(Append(path, x)) = x
         /\ path # <<>> =>
              FormatPath(Append(path, x)) = Continued(FormatPath(path), x)
<1> DEFINE n == Len(path)
           more == Append(path, x)
           piece(q, i) == IF i = 1 THEN q[i] ELSE <<"/">> \o q[i]
           f == [i \in 1 .. n + 1 |-> piece(more, i)]
           front == [i \in 1 .. n |-> f[i]]
<1>1. /\ n \in Nat /\ Len(more) = n + 1 /\ more[n + 1] = x
      /\ \A i \in 1 .. n : more[i] = path[i]
      /\ \A i \in 1 .. n + 1 : more[i] \in Seq(T)
  BY AppendProperties, LenProperties, ElementOfSeq
<1>2. <<"/">> \in Seq(T)
  OBVIOUS
<1>3. \A i \in 1 .. n + 1 : piece(more, i) \in Seq(T)
  <2> SUFFICES ASSUME NEW i \in 1 .. n + 1  PROVE piece(more, i) \in Seq(T)
    OBVIOUS
  <2> DEFINE s == <<"/">>
  <2>1. more[i] \in Seq(T) /\ s \in Seq(T)
    BY <1>1, <1>2
  <2> HIDE DEF more, s
  <2>2. s \o more[i] \in Seq(T)
    BY <2>1, ConcatProperties
  <2> QED  BY <2>1, <2>2 DEF s
<1>4. f \in [1 .. n + 1 -> Seq(T)]
  <2> HIDE DEF more, n, piece
  <2> QED  BY <1>3
<1>5. front = [i \in 1 .. n |-> piece(path, i)]
  <2>1. \A i \in 1 .. n : f[i] = piece(path, i)
    <3> SUFFICES ASSUME NEW i \in 1 .. n  PROVE piece(more, i) = piece(path, i)
      BY <1>1
    <3>1. more[i] = path[i]
      BY <1>1
    <3> HIDE DEF more
    <3> QED  BY <3>1
  <2> HIDE DEF f, piece, n
  <2> QED  BY <2>1
<1>6. /\ FlattenSeq(f) = FlattenSeq(front) \o f[n + 1]
      /\ FlattenSeq(front) \in Seq(T)
  <2> HIDE DEF f, n
  <2> QED  BY <1>1, <1>4, MappedAppend
<1>7. FormatPath(path) = FlattenSeq(front)
  <2> HIDE DEF front
  <2> QED  BY <1>5 DEF FormatPath
<1>8. FormatPath(more) = FlattenSeq(f)
  <2>1. f = [i \in 1 .. Len(more) |-> piece(more, i)]
    BY <1>1
  <2> HIDE DEF f, more
  <2> QED  BY <2>1 DEF FormatPath
<1>9. CASE path = <<>>
  <2>1. n = 0
    BY <1>9, EmptySeq
  <2>2. FlattenSeq(front) = <<>>
    <3>1. front = <<>>
      BY <2>1
    <3> HIDE DEF front
    <3> QED  BY <3>1, FlattenEmpty
  <2>3. f[n + 1] = x
    BY <1>1, <2>1
  <2>4. <<>> \o x = x
    BY ConcatEmptySeq
  <2> HIDE DEF f, front, more
  <2> QED  BY <1>6, <1>7, <1>8, <1>9, <2>2, <2>3, <2>4 DEF more
<1>10. CASE path # <<>>
  <2>1. n + 1 # 1
    BY <1>10, EmptySeq
  <2>2. f[n + 1] = <<"/">> \o x
    <3>1. f[n + 1] = <<"/">> \o more[n + 1]
      BY <1>1, <2>1
    <3> HIDE DEF more, f
    <3> QED  BY <1>1, <3>1
  <2> HIDE DEF f, front
  <2> QED  BY <1>6, <1>7, <1>8, <1>10, <2>2 DEF Continued
<1> QED  BY <1>9, <1>10

(* A pointer that goes on after a / has one more end, and the ends it had. *)
Continues(more, p, x) ==
  /\ Len(more) = Len(p) + 1 + Len(x)
  /\ \A i \in 1 .. Len(p) : more[i] = p[i]
  /\ \A i \in 1 .. Len(x) : more[Len(p) + 1 + i] = x[i]
  /\ Ends(more) = Ends(p) \cup {Len(more) + 1}

LEMMA EndsAppend ==
  ASSUME NEW T, "/" \in T, NEW p \in Seq(T), NEW x \in Seq(T),
         \A i \in 1 .. Len(x) : x[i] # "/"
  PROVE  Continued(p, x) \in Seq(T) /\ Continues(Continued(p, x), p, x)
<1> DEFINE s == <<"/">>
           tail == s \o x
           more == Continued(p, x)
<1>a. more = p \o tail
  BY DEF Continued
<1>1. s \in Seq(T) /\ Len(s) = 1 /\ s[1] = "/"
  OBVIOUS
<1> HIDE DEF s
<1>2. Len(p) \in Nat /\ Len(x) \in Nat
  BY LenProperties
<1>3. /\ tail \in Seq(T)
      /\ Len(tail) = Len(s) + Len(x)
      /\ \A i \in 1 .. Len(s) + Len(x) :
           tail[i] = IF i <= Len(s) THEN s[i] ELSE x[i - Len(s)]
  BY <1>1, ConcatProperties
<1> HIDE DEF tail
<1>b. tail \in Seq(T)
  BY <1>3
<1>4. Len(tail) = 1 + Len(x) /\ tail[1] = "/"
  BY <1>1, <1>2, <1>3
<1>5. \A i \in 1 .. Len(x) : tail[1 + i] = x[i]
  BY <1>1, <1>2, <1>3
<1>6. /\ more \in Seq(T)
      /\ Len(more) = Len(p) + Len(tail)
      /\ \A i \in 1 .. Len(p) + Len(tail) :
           more[i] = IF i <= Len(p) THEN p[i] ELSE tail[i - Len(p)]
  BY <1>a, <1>b, ConcatProperties
<1> HIDE DEF more
<1> DEFINE n == Len(p)
           m == Len(x)
<1>7. Len(more) = n + 1 + m
  BY <1>2, <1>4, <1>6
<1>8. \A i \in 1 .. n : more[i] = p[i]
  BY <1>2, <1>4, <1>6
<1>9. more[n + 1] = "/"
  <2>1. n + 1 \in 1 .. n + Len(tail) /\ ~(n + 1 <= n) /\ (n + 1) - n = 1
    BY <1>2, <1>4
  <2>2. more[n + 1] = tail[1]
    BY <1>6, <2>1
  <2> QED  BY <1>4, <2>2
<1>10. \A i \in 1 .. m : more[n + 1 + i] = x[i]
  <2> SUFFICES ASSUME NEW i \in 1 .. m  PROVE more[n + 1 + i] = x[i]
    OBVIOUS
  <2>1. /\ n + 1 + i \in 1 .. n + Len(tail) /\ ~(n + 1 + i <= n)
        /\ (n + 1 + i) - n = 1 + i
    BY <1>2, <1>4
  <2>2. more[n + 1 + i] = tail[1 + i]
    BY <1>6, <2>1
  <2> QED  BY <1>5, <2>2
<1>11. Ends(more) = Ends(p) \cup {Len(more) + 1}
  <2> DEFINE slashes(q) == {i \in 1 .. Len(q) : q[i] = "/"}
  <2>1. slashes(more) = slashes(p) \cup {n + 1}
    <3>1. ASSUME NEW i \in 1 .. Len(more)
          PROVE  more[i] = "/" <=> i \in slashes(p) \/ i = n + 1
      <4>1. CASE i \in 1 .. n
        BY <1>2, <1>8, <4>1
      <4>2. CASE i = n + 1
        BY <1>9, <4>2
      <4>3. CASE i \notin 1 .. n /\ i # n + 1
        <5>1. i - (n + 1) \in 1 .. m /\ n + 1 + (i - (n + 1)) = i
          BY <1>2, <1>7, <4>3
        <5>2. more[i] # "/"
          BY <1>10, <5>1
        <5> QED  BY <4>3, <5>2
      <4> QED  BY <4>1, <4>2, <4>3
    <3>2. \A i \in slashes(p) : i \in 1 .. Len(more)
      BY <1>2, <1>7
    <3>3. n + 1 \in 1 .. Len(more)
      BY <1>2, <1>7
    <3> QED  BY <3>1, <3>2, <3>3
  <2>2. /\ Ends(more) = {0, Len(more) + 1} \cup slashes(more)
        /\ Ends(p) = {0, n + 1} \cup slashes(p)
    BY DEF Ends
  <2> HIDE DEF slashes
  <2> QED  BY <2>1, <2>2
<1> QED  BY <1>6, <1>7, <1>8, <1>10, <1>11 DEF more, Continues

(***************************************************************************)
(* The ends of p, in their order, when it is the segments of path with a / *)
(* between any two: the segments are what stands between the ends.         *)
(***************************************************************************)
Marked(p, path, at) ==
  /\ at \in [0 .. Len(path) -> Nat]
  /\ at[0] = 0
  /\ at[Len(path)] = Len(p) + 1
  /\ Ends(p) = {at[k] : k \in 0 .. Len(path)}
  /\ \A k \in 1 .. Len(path) :
       /\ at[k] = at[k - 1] + 1 + Len(path[k])
       /\ at[k] <= Len(p) + 1
       /\ \A i \in 1 .. Len(path[k]) : p[at[k - 1] + i] = path[k][i]

LEMMA MarkedAlone ==
  ASSUME NEW T, NEW x \in Seq(T), \A i \in 1 .. Len(x) : x[i] # "/",
         NEW path, Len(path) = 1, path[1] = x
  PROVE  \E at : Marked(x, path, at)
<1> DEFINE m == Len(x)
           at == [k \in 0 .. 1 |-> IF k = 0 THEN 0 ELSE m + 1]
<1>1. m \in Nat
  BY LenProperties
<1>2. Ends(x) = {0, m + 1}
  BY DEF Ends
<1>3. at \in [0 .. 1 -> Nat] /\ at[0] = 0 /\ at[1] = m + 1
  BY <1>1
<1> HIDE DEF at
<1>4. {at[k] : k \in 0 .. 1} = {0, m + 1}
  <2>1. \A k : k \in 0 .. 1 <=> k = 0 \/ k = 1
    OBVIOUS
  <2> QED  BY <1>3, <2>1
<1>5. \A k \in 1 .. 1 :
        /\ at[k] = at[k - 1] + 1 + Len(path[k])
        /\ at[k] <= m + 1
        /\ \A i \in 1 .. Len(path[k]) : x[at[k - 1] + i] = path[k][i]
  <2> SUFFICES ASSUME NEW k \in 1 .. 1
               PROVE  /\ at[k] = at[k - 1] + 1 + Len(path[k])
                      /\ at[k] <= m + 1
                      /\ \A i \in 1 .. Len(path[k]) : x[at[k - 1] + i] = path[k][i]
    OBVIOUS
  <2>1. k = 1 /\ k - 1 = 0
    OBVIOUS
  <2>2. path[k] = x /\ at[k] = m + 1 /\ at[k - 1] = 0
    BY <1>3, <2>1
  <2>3. \A i \in 1 .. m : x[0 + i] = x[i]
    BY <1>1
  <2> QED  BY <1>1, <2>2, <2>3
<1> QED  BY <1>2, <1>3, <1>4, <1>5 DEF Marked

LEMMA MarkedMore ==
  ASSUME NEW T, "/" \in T, NEW p \in Seq(T), NEW x \in Seq(T),
         \A i \in 1 .. Len(x) : x[i] # "/",
         NEW path \in Seq(Seq(T)), NEW at, Marked(p, path, at)
  PROVE  \E on : Marked(Continued(p, x), Append(path, x), on)
<1> DEFINE more == Continued(p, x)
<1>a. /\ more \in Seq(T) /\ Len(more) = Len(p) + 1 + Len(x)
      /\ \A i \in 1 .. Len(p) : more[i] = p[i]
      /\ \A i \in 1 .. Len(x) : more[Len(p) + 1 + i] = x[i]
      /\ Ends(more) = Ends(p) \cup {Len(more) + 1}
  <2>1. Continued(p, x) \in Seq(T) /\ Continues(Continued(p, x), p, x)
    BY EndsAppend
  <2> QED  BY <2>1 DEF Continues
<1> HIDE DEF more
<1> DEFINE n == Len(path)
           m == Len(x)
           longer == Append(path, x)
           on == [k \in 0 .. n + 1 |-> IF k <= n THEN at[k] ELSE Len(more) + 1]
<1>1. /\ n \in Nat /\ m \in Nat /\ Len(p) \in Nat /\ Len(more) = Len(p) + 1 + m
      /\ Len(longer) = n + 1 /\ longer[n + 1] = x
      /\ \A k \in 1 .. n : longer[k] = path[k]
  BY <1>a, AppendProperties, LenProperties
<1>2. /\ at \in [0 .. n -> Nat] /\ at[0] = 0 /\ at[n] = Len(p) + 1
      /\ Ends(p) = {at[k] : k \in 0 .. n}
      /\ \A k \in 1 .. n :
           /\ at[k] = at[k - 1] + 1 + Len(path[k])
           /\ at[k] <= Len(p) + 1
           /\ \A i \in 1 .. Len(path[k]) : p[at[k - 1] + i] = path[k][i]
  BY DEF Marked
<1> HIDE DEF n, m, longer
<1>3. /\ on \in [0 .. n + 1 -> Nat]
      /\ \A k \in 0 .. n : on[k] = at[k]
      /\ on[n + 1] = Len(more) + 1
  <2>1. Len(more) + 1 \in Nat
    BY <1>1 DEF m
  <2>2. \A k \in 0 .. n + 1 : on[k] \in Nat
    BY <1>1, <1>2, <2>1
  <2>3. on = [k \in 0 .. n + 1 |-> on[k]]
    OBVIOUS
  <2>4. on \in [0 .. n + 1 -> Nat]
    <3> HIDE DEF on
    <3> QED  BY <2>2, <2>3
  <2> QED  BY <1>1, <2>4
<1> HIDE DEF on
<1>4. on[0] = 0
  BY <1>1, <1>2, <1>3
<1>5. Ends(more) = {on[k] : k \in 0 .. n + 1}
  <2>1. \A k : k \in 0 .. n + 1 <=> k \in 0 .. n \/ k = n + 1
    BY <1>1
  <2>2. {on[k] : k \in 0 .. n + 1} = {on[k] : k \in 0 .. n} \cup {on[n + 1]}
    BY <2>1
  <2>3. {on[k] : k \in 0 .. n} = {at[k] : k \in 0 .. n}
    BY <1>3
  <2> QED  BY <1>a, <1>2, <1>3, <2>2, <2>3
<1>6. ASSUME NEW k \in 1 .. n + 1
      PROVE  /\ on[k] = on[k - 1] + 1 + Len(longer[k])
             /\ on[k] <= Len(more) + 1
             /\ \A i \in 1 .. Len(longer[k]) : more[on[k - 1] + i] = longer[k][i]
  <2>1. CASE k \in 1 .. n
    <3>1. /\ longer[k] = path[k] /\ on[k] = at[k] /\ on[k - 1] = at[k - 1]
          /\ at[k] \in Nat /\ at[k - 1] \in Nat
      <4>1. k \in 0 .. n /\ k - 1 \in 0 .. n
        BY <1>1, <2>1
      <4>2. at[k] \in Nat /\ at[k - 1] \in Nat
        BY <1>2, <4>1
      <4> QED  BY <1>1, <1>3, <2>1, <4>1, <4>2
    <3>2. /\ at[k] = at[k - 1] + 1 + Len(path[k])
          /\ at[k] <= Len(p) + 1
          /\ \A i \in 1 .. Len(path[k]) : p[at[k - 1] + i] = path[k][i]
      BY <1>2, <2>1
    <3>3. Len(path[k]) \in Nat
      BY <2>1, LenProperties, ElementOfSeq DEF n
    <3>4. \A i \in 1 .. Len(path[k]) : at[k - 1] + i \in 1 .. Len(p)
      <4> DEFINE l == Len(path[k])
                 a == at[k - 1]
                 b == at[k]
                 e == Len(p)
      <4>1. l \in Nat /\ a \in Nat /\ b \in Nat /\ e \in Nat
            /\ b = a + 1 + l /\ b <= e + 1
        BY <1>1, <3>1, <3>2, <3>3
      <4> HIDE DEF l, a, b, e
      <4>2. \A i \in 1 .. l : a + i \in 1 .. e
        BY <4>1
      <4> QED  BY <4>2 DEF l, a, e
    <3>5. \A i \in 1 .. Len(path[k]) : more[at[k - 1] + i] = path[k][i]
      BY <1>a, <3>2, <3>4
    <3>6. at[k] <= Len(more) + 1
      BY <1>1, <3>1, <3>2 DEF m
    <3> QED  BY <3>1, <3>2, <3>5, <3>6
  <2>2. CASE k = n + 1
    <3>1. longer[k] = x /\ on[k] = Len(more) + 1 /\ on[k - 1] = Len(p) + 1
      BY <1>1, <1>2, <1>3, <2>2
    <3> QED  BY <1>a, <1>1, <3>1 DEF m
  <2> QED  BY <1>1, <2>1, <2>2
<1>7. Marked(more, longer, on)
  BY <1>1, <1>3, <1>4, <1>5, <1>6 DEF Marked
<1> QED  BY <1>7 DEF longer, more

LEMMA PieceIs ==
  ASSUME NEW T, NEW p \in Seq(T), NEW x \in Seq(T), NEW a \in Nat, NEW b \in Nat,
         b = a + 1 + Len(x), b <= Len(p) + 1,
         \A i \in 1 .. Len(x) : p[a + i] = x[i]
  PROVE  SubSeq(p, a + 1, b - 1) = x
<1> DEFINE m == Len(x)
           part == SubSeq(p, a + 1, b - 1)
<1>1. m \in Nat /\ Len(p) \in Nat
  BY LenProperties
<1>2. \A i \in (a + 1) .. (b - 1) : p[i] \in T
  <2>1. \A i \in (a + 1) .. (b - 1) : i \in 1 .. Len(p)
    BY <1>1
  <2> QED  BY <2>1, ElementOfSeq
<1>3. /\ part \in Seq(T)
      /\ Len(part) = IF a + 1 <= b - 1 THEN (b - 1) - (a + 1) + 1 ELSE 0
      /\ \A i \in 1 .. (b - 1) - (a + 1) + 1 : part[i] = p[(a + 1) + i - 1]
  <2>1. a + 1 \in Int /\ b - 1 \in Int
    OBVIOUS
  <2> QED  BY <1>2, <2>1, SubSeqProperties
<1> HIDE DEF part
<1>4. (b - 1) - (a + 1) + 1 = m
  BY <1>1
<1>5. Len(part) = m
  BY <1>1, <1>3, <1>4
<1>6. \A i \in 1 .. m : part[i] = x[i]
  <2> SUFFICES ASSUME NEW i \in 1 .. m  PROVE part[i] = x[i]
    OBVIOUS
  <2>1. (a + 1) + i - 1 = a + i
    OBVIOUS
  <2>2. part[i] = p[a + i]
    BY <1>3, <1>4, <2>1
  <2> QED  BY <2>2
<1>7. part = x
  BY <1>3, <1>5, <1>6, SeqEqual
<1> QED  BY <1>7 DEF part

(* A pointer is split into the segments that it was joined from. *)
LEMMA PartsBack ==
  ASSUME NEW T, "/" \in T, NEW path \in Seq(Seq(T)), path # <<>>,
         \A k \in 1 .. Len(path) : \A i \in 1 .. Len(path[k]) : path[k][i] # "/"
  PROVE  Parts(FormatPath(path)) = path
<1> DEFINE Plain == {x \in Seq(T) : \A i \in 1 .. Len(x) : x[i] # "/"}
           P == {q \in Seq(Plain) : q # <<>> => \E at : Marked(FormatPath(q), q, at)}
<1>a. \A q \in Seq(Plain) : q \in Seq(Seq(T))
  <2> HIDE DEF Plain
  <2>1. Plain \subseteq Seq(T)
    BY DEF Plain
  <2> SUFFICES ASSUME NEW q \in Seq(Plain)  PROVE q \in Seq(Seq(T))
    OBVIOUS
  <2> DEFINE n == Len(q)
             Texts == Seq(T)
  <2>2. n \in Nat /\ q \in [1 .. n -> Plain]
    BY LenProperties
  <2> HIDE DEF Texts, n
  <2>3. q \in [1 .. n -> Texts]
    BY <2>1, <2>2 DEF Texts
  <2>4. q \in Seq(Texts)
    BY <2>2, <2>3
  <2> QED  BY <2>4 DEF Texts
<1>1. <<>> \in P
  BY EmptySeq
<1>2. ASSUME NEW q \in P, NEW x \in Plain  PROVE Append(q, x) \in P
  <2> DEFINE longer == Append(q, x)
  <2>1. q \in Seq(Plain) /\ longer \in Seq(Plain)
    BY AppendProperties
  <2>2. q \in Seq(Seq(T))
    BY <1>a, <2>1
  <2>3. x \in Seq(T) /\ \A i \in 1 .. Len(x) : x[i] # "/"
    OBVIOUS
  <2>4. /\ FormatPath(q) \in Seq(T)
        /\ q = <<>> => FormatPath(longer) = x
        /\ q # <<>> => FormatPath(longer) = Continued(FormatPath(q), x)
    BY <2>2, <2>3, FormatPathAppend
  <2> SUFFICES \E at : Marked(FormatPath(longer), longer, at)
    BY <2>1
  <2>5. CASE q = <<>>
    <3>1. Len(longer) = 1 /\ longer[1] = x
      BY <2>5
    <3> HIDE DEF longer, Plain, P
    <3>2. \E at : Marked(x, longer, at)
      BY <2>3, <3>1, MarkedAlone
    <3> QED  BY <2>4, <2>5, <3>2
  <2>6. CASE q # <<>>
    <3> DEFINE p == FormatPath(q)
    <3>1. PICK at : Marked(p, q, at)
      BY <2>6
    <3> HIDE DEF Plain, P
    <3>2. p \in Seq(T) /\ FormatPath(longer) = Continued(p, x)
      BY <2>4, <2>6
    <3> HIDE DEF p, longer
    <3>3. \E on : Marked(Continued(p, x), Append(q, x), on)
      BY <2>2, <2>3, <3>1, <3>2, MarkedMore
    <3> QED  BY <3>2, <3>3 DEF longer
  <2> QED  BY <2>5, <2>6
<1>3. P = Seq(Plain)
  <2>1. P \in SUBSET Seq(Plain)
    OBVIOUS
  <2> HIDE DEF P, Plain
  <2> QED  BY <1>1, <1>2, <2>1, SequencesByAppend
<1> DEFINE n == Len(path)
           p == FormatPath(path)
<1>4. n \in Nat /\ n # 0 /\ \A k \in 1 .. n : path[k] \in Seq(T)
  BY EmptySeq, LenProperties, ElementOfSeq
<1>5. path \in Seq(Plain)
  <2>1. \A k \in 1 .. n : path[k] \in Plain
    BY <1>4
  <2>2. DOMAIN path = 1 .. n /\ path \in [1 .. n -> Seq(T)]
    BY LenProperties
  <2> HIDE DEF Plain, n
  <2>3. path \in [1 .. n -> Plain]
    BY <2>1, <2>2
  <2> QED  BY <1>4, <2>3
<1>6. PICK at : Marked(p, path, at)
  <2>1. path \in P
    <3> HIDE DEF P, Plain
    <3> QED  BY <1>3, <1>5
  <2> QED  BY <2>1
<1>7. p \in Seq(T)
  <2>1. <<>> \in Seq(T)
    OBVIOUS
  <2> QED  BY <2>1, FormatPathAppend
<1> HIDE DEF Plain, P, p
<1>8. /\ at \in [0 .. n -> Nat]
      /\ Ends(p) = {at[k] : k \in 0 .. n}
      /\ \A k \in 1 .. n :
           /\ at[k] = at[k - 1] + 1 + Len(path[k])
           /\ at[k] <= Len(p) + 1
           /\ \A i \in 1 .. Len(path[k]) : p[at[k - 1] + i] = path[k][i]
  BY <1>6 DEF Marked
<1> HIDE DEF n
<1>9. \A k \in 1 .. n : at[k - 1] \in Nat /\ at[k] \in Nat /\ Len(path[k]) \in Nat
  <2>1. \A k \in 1 .. n : k - 1 \in 0 .. n /\ k \in 0 .. n
    BY <1>4
  <2>2. \A k \in 0 .. n : at[k] \in Nat
    BY <1>8
  <2>3. \A k \in 1 .. n : Len(path[k]) \in Nat
    BY <1>4, LenProperties
  <2> QED  BY <2>1, <2>2, <2>3
<1>10. \A k \in 1 .. n : at[k - 1] < at[k]
  <2> SUFFICES ASSUME NEW k \in 1 .. n  PROVE at[k - 1] < at[k]
    OBVIOUS
  <2>1. at[k] = at[k - 1] + 1 + Len(path[k])
    BY <1>8
  <2>2. at[k - 1] \in Nat /\ at[k] \in Nat /\ Len(path[k]) \in Nat
    BY <1>9
  <2> QED  BY <2>1, <2>2
<1>11. Parts(p) = [k \in 1 .. n |-> SubSeq(p, at[k - 1] + 1, at[k] - 1)]
  <2>1. n \in Nat /\ at \in [0 .. n -> Nat] /\ Ends(p) = {at[k] : k \in 0 .. n}
    BY <1>4, <1>8
  <2> QED  BY <1>10, <2>1, PartsBetween
<1>12. \A k \in 1 .. n : SubSeq(p, at[k - 1] + 1, at[k] - 1) = path[k]
  <2> SUFFICES ASSUME NEW k \in 1 .. n
               PROVE  SubSeq(p, at[k - 1] + 1, at[k] - 1) = path[k]
    OBVIOUS
  <2> DEFINE a == at[k - 1]
             b == at[k]
             x == path[k]
  <2>1. a \in Nat /\ b \in Nat /\ x \in Seq(T)
    BY <1>4, <1>9
  <2>2. b = a + 1 + Len(x) /\ b <= Len(p) + 1 /\ \A i \in 1 .. Len(x) : p[a + i] = x[i]
    BY <1>8
  <2> HIDE DEF a, b, x
  <2>3. SubSeq(p, a + 1, b - 1) = x
    BY <1>7, <2>1, <2>2, PieceIs
  <2> QED  BY <2>3 DEF a, b, x
<1>13. path = [k \in 1 .. n |-> path[k]]
  BY LenProperties DEF n
<1> QED  BY <1>11, <1>12, <1>13 DEF p

-----------------------------------------------------------------------------
(* What is added *)

LEMMA AddedTyped ==
  ASSUME NEW T, {"~", "/", "0", "1"} \subseteq T, NEW segs \in Seq(Seq(T))
  PROVE  [i \in 1 .. Len(segs) |-> Escaped(segs[i])] \in Seq(Seq(T))
<1> DEFINE n == Len(segs)
           Texts == Seq(T)
           f == [i \in 1 .. n |-> Escaped(segs[i])]
<1>1. n \in Nat /\ \A i \in 1 .. n : segs[i] \in Seq(T)
  BY LenProperties, ElementOfSeq
<1>2. \A i \in 1 .. n : Escaped(segs[i]) \in Texts
  BY <1>1, EscapedTyped
<1> HIDE DEF n, Texts
<1>3. f \in [1 .. n -> Texts]
  BY <1>2
<1> HIDE DEF f
<1>4. f \in Seq(Texts)
  BY <1>1, <1>3
<1> QED  BY <1>4 DEF f, Texts, n

(* Two calls of add are one, of the segments of both. *)
LEMMA AddedTwice ==
  ASSUME NEW T, {"~", "/", "0", "1"} \subseteq T,
         NEW a \in Seq(Seq(T)), NEW b \in Seq(Seq(T))
  PROVE  Added(Added(<<>>, a), b) = Added(<<>>, a \o b)
<1> DEFINE Texts == Seq(T)
           all(q) == [i \in 1 .. Len(q) |-> Escaped(q[i])]
           m == Len(a)
           n == Len(b)
           ab == a \o b
<1>1. /\ m \in Nat /\ n \in Nat
      /\ ab \in Seq(Texts) /\ Len(ab) = m + n
      /\ \A i \in 1 .. m + n : ab[i] = IF i <= m THEN a[i] ELSE b[i - m]
  BY ConcatProperties, LenProperties
<1> HIDE DEF ab
<1>2. /\ all(a) \in Seq(Texts) /\ Len(all(a)) = m
      /\ all(b) \in Seq(Texts) /\ Len(all(b)) = n
      /\ all(ab) \in Seq(Texts) /\ Len(all(ab)) = m + n
      /\ \A i \in 1 .. m : all(a)[i] = Escaped(a[i])
      /\ \A i \in 1 .. n : all(b)[i] = Escaped(b[i])
      /\ \A i \in 1 .. m + n : all(ab)[i] = Escaped(ab[i])
  <2>1. all(a) \in Seq(Texts) /\ all(b) \in Seq(Texts) /\ all(ab) \in Seq(Texts)
    BY <1>1, AddedTyped
  <2> QED  BY <1>1, <2>1
<1>3. /\ <<>> \o all(a) = all(a)
      /\ <<>> \o all(ab) = all(ab)
  <2> HIDE DEF all, Texts
  <2> QED  BY <1>2, ConcatEmptySeq
<1>4. Added(<<>>, a) = all(a) /\ Added(<<>>, ab) = all(ab)
  BY <1>3 DEF Added
<1>5. Added(all(a), b) = all(a) \o all(b)
  BY DEF Added
<1> HIDE DEF all, Texts
<1> DEFINE both == all(a) \o all(b)
<1>6. /\ both \in Seq(Texts) /\ Len(both) = m + n
      /\ \A i \in 1 .. m + n : both[i] = IF i <= m THEN all(a)[i] ELSE all(b)[i - m]
  <2>1. /\ both \in Seq(Texts)
        /\ Len(both) = Len(all(a)) + Len(all(b))
        /\ \A i \in 1 .. Len(all(a)) + Len(all(b)) :
             both[i] = IF i <= Len(all(a)) THEN all(a)[i] ELSE all(b)[i - Len(all(a))]
    BY <1>2, ConcatProperties
  <2> QED  BY <1>2, <2>1
<1> HIDE DEF both, m, n
<1>7. \A i \in 1 .. m + n : both[i] = all(ab)[i]
  <2> SUFFICES ASSUME NEW i \in 1 .. m + n  PROVE both[i] = all(ab)[i]
    OBVIOUS
  <2>1. CASE i <= m
    <3>1. i \in 1 .. m
      BY <1>1, <2>1
    <3>2. both[i] = all(a)[i] /\ ab[i] = a[i]
      BY <1>1, <1>6, <2>1
    <3>3. all(a)[i] = Escaped(a[i]) /\ all(ab)[i] = Escaped(ab[i])
      BY <1>2, <3>1
    <3> QED  BY <3>2, <3>3
  <2>2. CASE ~(i <= m)
    <3>1. i - m \in 1 .. n
      BY <1>1, <2>2
    <3>2. both[i] = all(b)[i - m] /\ ab[i] = b[i - m]
      BY <1>1, <1>6, <2>2
    <3>3. all(b)[i - m] = Escaped(b[i - m]) /\ all(ab)[i] = Escaped(ab[i])
      BY <1>2, <3>1
    <3> QED  BY <3>2, <3>3
  <2> QED  BY <2>1, <2>2
<1>8. both = all(ab)
  BY <1>2, <1>6, <1>7, SeqEqual
<1> QED  BY <1>4, <1>5, <1>8 DEF both, ab

(***************************************************************************)
(* Segments that are added are read back, each as it was, whatever stands  *)
(* in them: a media type with its separator, a template with escapes       *)
(* (json_path.rs:16).                                                      *)
(***************************************************************************)
THEOREM ReadsAdded ==
  ASSUME NEW T, {"~", "/", "0", "1"} \subseteq T,
         NEW segs \in Seq(Seq(T)), segs # <<>>
  PROVE  ReadPath(FormatPath(Added(<<>>, segs))) = segs
<1> DEFINE n == Len(segs)
           path == [k \in 1 .. n |-> Escaped(segs[k])]
           p == FormatPath(path)
<1>1. n \in Nat /\ n # 0 /\ \A k \in 1 .. n : segs[k] \in Seq(T)
  BY EmptySeq, LenProperties, ElementOfSeq
<1>2. \A k \in 1 .. n :
        /\ \A i \in 1 .. Len(Escaped(segs[k])) : Escaped(segs[k])[i] # "/"
        /\ Unescaped(Escaped(segs[k])) = segs[k]
  BY <1>1, ReadsEscaped
<1>3. path \in Seq(Seq(T))
  BY AddedTyped
<1>4. Len(path) = n /\ \A k \in 1 .. n : path[k] = Escaped(segs[k])
  BY <1>1
<1>5. Added(<<>>, segs) = path
  <2>1. Added(<<>>, segs) = <<>> \o path
    BY DEF Added
  <2> HIDE DEF path
  <2> QED  BY <1>3, <2>1, ConcatEmptySeq
<1> HIDE DEF path
<1>6. path # <<>>
  BY <1>1, <1>4, EmptySeq
<1>7. \A k \in 1 .. Len(path) : \A i \in 1 .. Len(path[k]) : path[k][i] # "/"
  BY <1>2, <1>4
<1>8. Parts(p) = path
  BY <1>3, <1>6, <1>7, PartsBack
<1>9. ReadPath(p) = [k \in 1 .. n |-> Unescaped(path[k])]
  BY <1>4, <1>8 DEF ReadPath
<1>10. \A k \in 1 .. n : Unescaped(path[k]) = segs[k]
  BY <1>2, <1>4
<1>11. segs = [k \in 1 .. n |-> segs[k]]
  BY LenProperties
<1> HIDE DEF n, p
<1> QED  BY <1>5, <1>9, <1>10, <1>11 DEF p
=============================================================================
