--------------------------- MODULE RowStreamProofs ---------------------------
(***************************************************************************)
(* Proofs about RowStream.  What an export looks like, byte by byte, is    *)
(* proved by induction over the bytes of a text and the rows of a file,    *)
(* each induction being about the set of the numbers that have a property. *)
(* From there the scanner is followed with an invariant that says where in *)
(* the export it stands.                                                   *)
(***************************************************************************)
EXTENDS RowStream, SequenceTheorems, WellFoundedInduction, NaturalsInduction, TLAPS

-----------------------------------------------------------------------------
(* Concatenations.                                                         *)

(* A set that holds 0, and n + 1 whenever it holds n, holds every number.  *)
LEMMA SetInduction ==
  ASSUME NEW S, 0 \in S, \A n \in Nat : n \in S => n + 1 \in S
  PROVE  \A n \in Nat : n \in S
<1> SUFFICES ASSUME NEW n \in Nat, n \notin S PROVE FALSE OBVIOUS
<1> DEFINE T == {i \in Nat : i \notin S}
<1>1. T \subseteq Nat /\ T # {} OBVIOUS
<1>2. PICK x \in T : \A y \in T : ~(<<y, x>> \in OpToRel(<, Nat))
  BY <1>1, NatLessThanWellFounded, WFMin
<1>3. \A y \in T : ~(y < x) BY <1>2 DEF OpToRel
<1>4. x # 0 /\ x \in Nat OBVIOUS
<1>5. x - 1 \in Nat /\ x - 1 < x /\ (x - 1) + 1 = x BY <1>4
<1>6. x - 1 \in S BY <1>3, <1>5
<1> QED BY <1>5, <1>6

Cat(front, back) == front \o back

(* The step of FlattenSeq: partial[i] is the first i sequences in a row.   *)
Flattens(partial, seqs) ==
  partial = [i \in 1..Len(seqs) |-> IF i = 1 THEN seqs[i] ELSE Cat(partial[i - 1], seqs[i])]

LEMMA CatType ==
  ASSUME NEW T, NEW front \in Seq(T), NEW back \in Seq(T)
  PROVE  Cat(front, back) \in Seq(T)
BY ConcatProperties DEF Cat

FlattensTo(g, n, seqs) ==
  \A i \in 1..n : g[i] = IF i = 1 THEN seqs[i] ELSE Cat(g[i - 1], seqs[i])

FlattensUpTo(n, seqs, T) == \E g \in [1..n -> Seq(T)] : FlattensTo(g, n, seqs)

LEMMA FlattensExists ==
  ASSUME NEW T, NEW seqs \in Seq(Seq(T))
  PROVE  \E partial \in [1..Len(seqs) -> Seq(T)] : Flattens(partial, seqs)
<1> DEFINE S == {n \in Nat : n <= Len(seqs) => FlattensUpTo(n, seqs, T)}
<1>1. 0 \in S
  <2>1. [i \in 1..0 |-> <<>>] \in [1..0 -> Seq(T)] OBVIOUS
  <2>2. FlattensTo([i \in 1..0 |-> <<>>], 0, seqs) BY DEF FlattensTo
  <2>3. FlattensUpTo(0, seqs, T) BY <2>1, <2>2 DEF FlattensUpTo
  <2> QED BY <2>3
<1>2. ASSUME NEW n \in Nat, n \in S PROVE n + 1 \in S
  <2> SUFFICES ASSUME n + 1 <= Len(seqs) PROVE FlattensUpTo(n + 1, seqs, T)
    OBVIOUS
  <2>0. FlattensUpTo(n, seqs, T) BY <1>2
  <2>1. PICK g \in [1..n -> Seq(T)] : FlattensTo(g, n, seqs) BY <2>0 DEF FlattensUpTo
  <2> DEFINE last == IF n = 0 THEN seqs[1] ELSE Cat(g[n], seqs[n + 1])
             h == [i \in 1..(n + 1) |-> IF i <= n THEN g[i] ELSE last]
  <2>2. seqs[n + 1] \in Seq(T) /\ (n # 0 => g[n] \in Seq(T)) OBVIOUS
  <2>3. last \in Seq(T) BY <2>2, CatType
  <2>4. h \in [1..(n + 1) -> Seq(T)] BY <2>3
  <2>5. FlattensTo(h, n + 1, seqs) BY <2>1 DEF FlattensTo
  <2> HIDE DEF h
  <2> QED BY <2>4, <2>5 DEF FlattensUpTo
<1> HIDE DEF S
<1>3. Len(seqs) \in S BY <1>1, <1>2, SetInduction
<1> USE DEF S
<1>4. PICK g \in [1..Len(seqs) -> Seq(T)] : FlattensTo(g, Len(seqs), seqs)
  BY <1>3 DEF FlattensUpTo
<1>5. Flattens(g, seqs) BY <1>4 DEF Flattens, FlattensTo
<1> QED BY <1>5

Extends(more, seqs) ==
  Len(seqs) <= Len(more) /\ \A i \in 1..Len(seqs) : seqs[i] = more[i]

Agree(f, g, n) == \A i \in 1..n : f[i] = g[i]

(* Two such functions agree as far as their sequences do.                  *)
LEMMA FlattensAgree ==
  ASSUME NEW T, NEW seqs \in Seq(Seq(T)), NEW more \in Seq(Seq(T)),
         Extends(more, seqs),
         NEW f, Flattens(f, seqs), NEW g, Flattens(g, more)
  PROVE  Agree(f, g, Len(seqs))
<1> DEFINE S == {n \in Nat : n \in 1..Len(seqs) => f[n] = g[n]}
<1>1. 0 \in S OBVIOUS
<1>2. ASSUME NEW n \in Nat, n \in S PROVE n + 1 \in S
  <2> SUFFICES ASSUME n + 1 <= Len(seqs) PROVE f[n + 1] = g[n + 1] OBVIOUS
  <2>0. /\ n + 1 \in 1..Len(seqs) /\ (n + 1) - 1 = n /\ (n + 1 = 1 <=> n = 0)
        /\ 1 \in 1..Len(seqs) /\ (n # 0 => n \in 1..Len(seqs))
    OBVIOUS
  <2>1. f[n + 1] = IF n = 0 THEN seqs[1] ELSE Cat(f[n], seqs[n + 1]) BY <2>0 DEF Flattens
  <2>2. n + 1 \in 1..Len(more) BY <2>0 DEF Extends
  <2>3. g[n + 1] = IF n = 0 THEN more[1] ELSE Cat(g[n], more[n + 1]) BY <2>0, <2>2 DEF Flattens
  <2>4. seqs[1] = more[1] /\ seqs[n + 1] = more[n + 1] BY <2>0, Zenon DEF Extends
  <2>5. n # 0 => f[n] = g[n] BY <1>2, <2>0
  <2> QED BY <2>1, <2>3, <2>4, <2>5, Zenon
<1> HIDE DEF S
<1>3. \A n \in Nat : n \in S BY <1>1, <1>2, SetInduction
<1> QED BY <1>3 DEF S, Agree

LEMMA FlattenEmpty == FlattenSeq(<<>>) = <<>>
BY DEF FlattenSeq

LEMMA FlattenLast ==
  ASSUME NEW T, NEW seqs \in Seq(Seq(T)), Len(seqs) > 0
  PROVE  \E f \in [1..Len(seqs) -> Seq(T)] : Flattens(f, seqs) /\ FlattenSeq(seqs) = f[Len(seqs)]
<1> DEFINE G(g) == g = [i \in 1..Len(seqs) |-> IF i = 1 THEN seqs[i] ELSE g[i - 1] \o seqs[i]]
           f == CHOOSE g : G(g)
<1>1. PICK p \in [1..Len(seqs) -> Seq(T)] : Flattens(p, seqs) BY FlattensExists
<1>2. G(p) BY <1>1 DEF Flattens, Cat
<1>3. G(f) BY <1>2
<1>4. FlattenSeq(seqs) = f[Len(seqs)] BY DEF FlattenSeq
<1> HIDE DEF f
<1>5. Flattens(f, seqs) BY <1>3 DEF Flattens, Cat
<1> HIDE DEF G
<1>6. \A i \in 1..Len(seqs) : f[i] = p[i]
  <2>1. Extends(seqs, seqs) BY DEF Extends
  <2>2. Agree(f, p, Len(seqs)) BY <1>1, <1>5, <2>1, FlattensAgree
  <2> QED BY <2>2 DEF Agree
<1>7. f \in [1..Len(seqs) -> Seq(T)]
  <2>1. f = [i \in 1..Len(seqs) |-> f[i]] BY <1>5 DEF Flattens
  <2>2. \A i \in 1..Len(seqs) : f[i] \in Seq(T) BY <1>6
  <2> QED BY <2>1, <2>2
<1> QED BY <1>4, <1>5, <1>7

(* FlattenSeq is the concatenation, defined from the left.                 *)
LEMMA FlattenType ==
  ASSUME NEW T, NEW seqs \in Seq(Seq(T))
  PROVE  FlattenSeq(seqs) \in Seq(T)
<1>1. CASE Len(seqs) = 0
  <2>1. seqs = <<>> BY <1>1
  <2>2. FlattenSeq(seqs) = <<>> BY <2>1, FlattenEmpty, Zenon
  <2> QED BY <2>2
<1>2. CASE Len(seqs) > 0
  <2>1. PICK f \in [1..Len(seqs) -> Seq(T)] : FlattenSeq(seqs) = f[Len(seqs)]
    BY <1>2, FlattenLast
  <2>2. Len(seqs) \in 1..Len(seqs) BY <1>2
  <2>3. f[Len(seqs)] \in Seq(T) BY <2>2
  <2> QED BY <2>1, <2>3
<1> QED BY <1>1, <1>2

LEMMA FlattenAppend ==
  ASSUME NEW T, NEW seqs \in Seq(Seq(T)), NEW more \in Seq(Seq(T)),
         Len(more) = Len(seqs) + 1, \A i \in 1..Len(seqs) : more[i] = seqs[i]
  PROVE  FlattenSeq(more) = FlattenSeq(seqs) \o more[Len(more)]
<1>1. PICK g \in [1..Len(more) -> Seq(T)] : Flattens(g, more) /\ FlattenSeq(more) = g[Len(more)]
  BY FlattenLast
<1>2. CASE Len(seqs) = 0
  <2>1. seqs = <<>> BY <1>2
  <2>2. g[1] = more[1] BY <1>1, <1>2 DEF Flattens
  <2>3. more[1] \in Seq(T) BY <1>2
  <2>4. <<>> \o more[1] = more[1] BY <2>3
  <2> QED BY <1>1, <1>2, <2>1, <2>2, <2>4, FlattenEmpty
<1>3. CASE Len(seqs) > 0
  <2>1. PICK f \in [1..Len(seqs) -> Seq(T)] : Flattens(f, seqs) /\ FlattenSeq(seqs) = f[Len(seqs)]
    BY <1>3, FlattenLast
  <2>2. \A i \in 1..Len(seqs) : f[i] = g[i]
    <3>1. Flattens(f, seqs) /\ Flattens(g, more) BY <1>1, <2>1
    <3>2. Extends(more, seqs) BY DEF Extends
    <3>3. Agree(f, g, Len(seqs)) BY <3>1, <3>2, FlattensAgree
    <3> QED BY <3>3 DEF Agree
  <2>3. g[Len(more)] = Cat(g[Len(seqs)], more[Len(more)])
    <3>1. \A i \in 1..Len(more) : g[i] = IF i = 1 THEN more[i] ELSE Cat(g[i - 1], more[i])
      BY <1>1 DEF Flattens
    <3>2. Len(more) \in 1..Len(more) /\ Len(more) # 1 /\ Len(more) - 1 = Len(seqs) BY <1>3
    <3> QED BY <3>1, <3>2
  <2>4. f[Len(seqs)] = g[Len(seqs)] BY <1>3, <2>2
  <2>5. FlattenSeq(more) = Cat(FlattenSeq(seqs), more[Len(more)]) BY <1>1, <2>1, <2>3, <2>4
  <2> QED BY <2>5 DEF Cat
<1> QED BY <1>2, <1>3

(* The first n sequences in a row, and where they end.                     *)
Flat(seqs, n) == FlattenSeq(SubSeq(seqs, 1, n))
EndOf(seqs, n) == Len(Flat(seqs, n))

LEMMA SubSeqFrom1 ==
  ASSUME NEW T, NEW s \in Seq(T), NEW n \in 0..Len(s)
  PROVE  /\ SubSeq(s, 1, n) \in Seq(T) /\ Len(SubSeq(s, 1, n)) = n
         /\ \A i \in 1..n : SubSeq(s, 1, n)[i] = s[i]
<1>1. \A i \in 1..n : s[i] \in T OBVIOUS
<1>2. 1 \in Int /\ n \in Int OBVIOUS
<1>3. /\ SubSeq(s, 1, n) \in Seq(T)
      /\ Len(SubSeq(s, 1, n)) = IF 1 <= n THEN n - 1 + 1 ELSE 0
      /\ \A i \in 1..(n - 1 + 1) : SubSeq(s, 1, n)[i] = s[1 + i - 1]
  BY <1>1, <1>2, SubSeqProperties
<1> QED BY <1>3

LEMMA FlatStep ==
  ASSUME NEW T, NEW seqs \in Seq(Seq(T))
  PROVE  /\ Flat(seqs, 0) = <<>>
         /\ Flat(seqs, Len(seqs)) = FlattenSeq(seqs)
         /\ \A n \in 0..Len(seqs) : Flat(seqs, n) \in Seq(T)
         /\ \A n \in 0..(Len(seqs) - 1) : Flat(seqs, n + 1) = Flat(seqs, n) \o seqs[n + 1]
<1>1. Flat(seqs, 0) = <<>>
  <2>1. SubSeq(seqs, 1, 0) = <<>>
    <3>1. SubSeq(seqs, 1, 0) \in Seq(Seq(T)) /\ Len(SubSeq(seqs, 1, 0)) = 0 BY SubSeqFrom1
    <3> QED BY <3>1
  <2> QED BY <2>1, FlattenEmpty, Zenon DEF Flat
<1>2. SubSeq(seqs, 1, Len(seqs)) = seqs
  <2>1. /\ SubSeq(seqs, 1, Len(seqs)) \in Seq(Seq(T)) /\ Len(SubSeq(seqs, 1, Len(seqs))) = Len(seqs)
        /\ \A i \in 1..Len(seqs) : SubSeq(seqs, 1, Len(seqs))[i] = seqs[i]
    BY SubSeqFrom1
  <2> QED BY <2>1, SeqEqual
<1>3. ASSUME NEW n \in 0..Len(seqs) PROVE Flat(seqs, n) \in Seq(T)
  BY SubSeqFrom1, FlattenType DEF Flat
<1>4. ASSUME NEW n \in 0..(Len(seqs) - 1)
      PROVE Flat(seqs, n + 1) = Flat(seqs, n) \o seqs[n + 1]
  <2> DEFINE a == SubSeq(seqs, 1, n)
             b == SubSeq(seqs, 1, n + 1)
  <2>1. a \in Seq(Seq(T)) /\ Len(a) = n /\ \A i \in 1..n : a[i] = seqs[i] BY SubSeqFrom1
  <2>2. b \in Seq(Seq(T)) /\ Len(b) = n + 1 /\ \A i \in 1..(n + 1) : b[i] = seqs[i]
    <3>1. n + 1 \in 0..Len(seqs) OBVIOUS
    <3> QED BY <3>1, SubSeqFrom1
  <2>3. Flat(seqs, n) = FlattenSeq(a) /\ Flat(seqs, n + 1) = FlattenSeq(b) BY DEF Flat
  <2> HIDE DEF a, b
  <2>4. Len(b) = Len(a) + 1 /\ \A i \in 1..Len(a) : b[i] = a[i]
    <3>1. Len(b) = Len(a) + 1 BY <2>1, <2>2
    <3>2. ASSUME NEW i \in 1..Len(a) PROVE b[i] = a[i]
      <4>1. i \in 1..n /\ i \in 1..(n + 1) BY <2>1
      <4> QED BY <2>1, <2>2, <4>1
    <3> QED BY <3>1, <3>2
  <2>5. FlattenSeq(b) = FlattenSeq(a) \o b[Len(b)] BY <2>1, <2>2, <2>4, FlattenAppend
  <2>6. b[Len(b)] = seqs[n + 1] BY <2>2
  <2> QED BY <2>3, <2>5, <2>6
<1> QED BY <1>1, <1>2, <1>3, <1>4, Zenon DEF Flat

(* The first n sequences in a row are a prefix of all of them in a row.    *)
LEMMA FlatPrefix ==
  ASSUME NEW T, NEW seqs \in Seq(Seq(T)), NEW n \in 0..Len(seqs)
  PROVE  Extends(FlattenSeq(seqs), Flat(seqs, n))
<1> DEFINE S == {d \in Nat : n + d <= Len(seqs) => Extends(Flat(seqs, n + d), Flat(seqs, n))}
<1>1. 0 \in S BY DEF Extends
<1>2. ASSUME NEW d \in Nat, d \in S PROVE d + 1 \in S
  <2> SUFFICES ASSUME n + (d + 1) <= Len(seqs)
               PROVE Extends(Flat(seqs, n + (d + 1)), Flat(seqs, n)) OBVIOUS
  <2> DEFINE m == n + d
  <2>1. m \in 0..(Len(seqs) - 1) /\ m + 1 = n + (d + 1) OBVIOUS
  <2>2. Extends(Flat(seqs, m), Flat(seqs, n)) BY <1>2
  <2> HIDE DEF m
  <2>3. Flat(seqs, m + 1) = Flat(seqs, m) \o seqs[m + 1] BY <2>1, FlatStep
  <2>4. Flat(seqs, m) \in Seq(T) /\ Flat(seqs, n) \in Seq(T) /\ seqs[m + 1] \in Seq(T)
    BY <2>1, FlatStep
  <2>5. Extends(Flat(seqs, m + 1), Flat(seqs, n)) BY <2>2, <2>3, <2>4, ConcatProperties DEF Extends
  <2> QED BY <2>1, <2>5
<1> HIDE DEF S
<1>3. Len(seqs) - n \in S
  <2>1. Len(seqs) - n \in Nat OBVIOUS
  <2> QED BY <1>1, <1>2, <2>1, SetInduction
<1>4. Extends(Flat(seqs, Len(seqs)), Flat(seqs, n))
  <2>1. n + (Len(seqs) - n) = Len(seqs) OBVIOUS
  <2> QED BY <1>3, <2>1 DEF S
<1> QED BY <1>4, FlatStep

(* Where the sequences end, and their items in the result.                 *)
LEMMA FlatItems ==
  ASSUME NEW T, NEW seqs \in Seq(Seq(T)), NEW n \in 0..(Len(seqs) - 1)
  PROVE  /\ EndOf(seqs, n) \in Nat /\ EndOf(seqs, n + 1) = EndOf(seqs, n) + Len(seqs[n + 1])
         /\ EndOf(seqs, n + 1) <= Len(FlattenSeq(seqs))
         /\ \A i \in 1..Len(seqs[n + 1]) : FlattenSeq(seqs)[EndOf(seqs, n) + i] = seqs[n + 1][i]
<1> DEFINE a == Flat(seqs, n)
           c == seqs[n + 1]
           b == a \o c
<1>1. n \in 0..Len(seqs) /\ n + 1 \in 0..Len(seqs) /\ n + 1 \in 1..Len(seqs) OBVIOUS
<1>2. a \in Seq(T) BY <1>1, FlatStep
<1>3. c \in Seq(T) BY <1>1
<1>4. Flat(seqs, n + 1) = b BY FlatStep
<1>5. Extends(FlattenSeq(seqs), b) BY <1>1, <1>4, FlatPrefix
<1> HIDE DEF a, c
<1>6. Len(b) = Len(a) + Len(c) /\ \A i \in 1..Len(c) : b[Len(a) + i] = c[i]
  BY <1>2, <1>3, ConcatProperties
<1>7. EndOf(seqs, n) = Len(a) /\ EndOf(seqs, n + 1) = Len(b) BY <1>4 DEF EndOf, a
<1> HIDE DEF b
<1>8. Len(a) \in Nat /\ Len(c) \in Nat BY <1>2, <1>3
<1>9. ASSUME NEW i \in 1..Len(c) PROVE FlattenSeq(seqs)[Len(a) + i] = c[i]
  <2>1. Len(a) + i \in 1..Len(b) BY <1>6, <1>8
  <2> QED BY <1>5, <1>6, <2>1 DEF Extends
<1>10. Len(b) <= Len(FlattenSeq(seqs)) BY <1>5 DEF Extends
<1> QED BY <1>6, <1>7, <1>8, <1>9, <1>10 DEF c

-----------------------------------------------------------------------------
(* Encoded rows.                                                           *)

Special(byte) == byte \in {"q", "b"}

Escapes(row) == [i \in DOMAIN row |-> IF Special(row[i]) THEN <<"b", row[i]>> ELSE <<row[i]>>]

(* The bytes of a row's first n escapes, and of its text.                  *)
Escaped(row, n) == EndOf(Escapes(row), n)

LEMMA EscapesType ==
  ASSUME NEW row \in Seq(Bytes)
  PROVE  /\ Escapes(row) \in Seq(Seq(Bytes)) /\ Len(Escapes(row)) = Len(row)
         /\ \A i \in 1..Len(row) :
              /\ Special(row[i]) => /\ Escapes(row)[i] = <<"b", row[i]>>
                                    /\ Len(Escapes(row)[i]) = 2
              /\ ~Special(row[i]) => /\ Escapes(row)[i] = <<row[i]>>
                                     /\ Len(Escapes(row)[i]) = 1
<1>1. DOMAIN row = 1..Len(row) /\ Len(row) \in Nat OBVIOUS
<1>2. ASSUME NEW i \in 1..Len(row)
      PROVE (IF Special(row[i]) THEN <<"b", row[i]>> ELSE <<row[i]>>) \in Seq(Bytes)
  <2>1. row[i] \in Bytes /\ "b" \in Bytes
    <3>1. row[i] \in Bytes OBVIOUS
    <3>2. "b" \in Bytes BY DEF Bytes
    <3> QED BY <3>1, <3>2
  <2>2. <<"b", row[i]>> \in Seq(Bytes) /\ <<row[i]>> \in Seq(Bytes) BY <2>1
  <2> QED BY <2>2
<1>3. Escapes(row) \in [1..Len(row) -> Seq(Bytes)] BY <1>1, <1>2 DEF Escapes
<1>4. Escapes(row) \in Seq(Seq(Bytes)) /\ Len(Escapes(row)) = Len(row) BY <1>1, <1>3
<1>5. ASSUME NEW i \in 1..Len(row)
      PROVE /\ Special(row[i]) => Escapes(row)[i] = <<"b", row[i]>>
            /\ ~Special(row[i]) => Escapes(row)[i] = <<row[i]>>
  BY <1>1 DEF Escapes
<1>6. \A byte : Len(<<"b", byte>>) = 2 /\ Len(<<byte>>) = 1 OBVIOUS
<1> QED BY <1>4, <1>5, <1>6

LEMMA ConcatItems ==
  ASSUME NEW T, NEW front \in Seq(T), NEW back \in Seq(T)
  PROVE  /\ front \o back \in Seq(T) /\ Len(front \o back) = Len(front) + Len(back)
         /\ \A i \in 1..Len(front) : (front \o back)[i] = front[i]
         /\ \A i \in 1..Len(back) : (front \o back)[Len(front) + i] = back[i]
<1>1. /\ front \o back \in Seq(T) /\ Len(front \o back) = Len(front) + Len(back)
      /\ \A i \in 1..(Len(front) + Len(back)) :
            (front \o back)[i] = IF i <= Len(front) THEN front[i] ELSE back[i - Len(front)]
  BY ConcatProperties
<1>2. Len(front) \in Nat /\ Len(back) \in Nat OBVIOUS
<1>3. ASSUME NEW i \in 1..Len(front) PROVE (front \o back)[i] = front[i] BY <1>1, <1>2
<1>4. ASSUME NEW i \in 1..Len(back) PROVE (front \o back)[Len(front) + i] = back[i]
  <2> DEFINE j == Len(front) + i
  <2>1. j \in 1..(Len(front) + Len(back)) /\ ~(j <= Len(front)) /\ j - Len(front) = i BY <1>2
  <2> HIDE DEF j
  <2>2. (front \o back)[j] = back[i] BY <1>1, <2>1
  <2> QED BY <2>2 DEF j
<1> QED BY <1>1, <1>3, <1>4

Between(front, text, back) == front \o text \o back

IsBetween(all, front, text, back) ==
  /\ Len(all) = Len(front) + Len(text) + Len(back)
  /\ \A i \in 1..Len(front) : all[i] = front[i]
  /\ \A i \in 1..Len(text) : all[Len(front) + i] = text[i]
  /\ \A i \in 1..Len(back) : all[Len(front) + Len(text) + i] = back[i]

(* What is between two others.                                             *)
LEMMA Sandwich ==
  ASSUME NEW T, NEW front \in Seq(T), NEW text \in Seq(T), NEW back \in Seq(T)
  PROVE  /\ Between(front, text, back) \in Seq(T)
         /\ IsBetween(Between(front, text, back), front, text, back)
<1>0. PICK all : all = Between(front, text, back) OBVIOUS
<1>1. PICK both : both = front \o text OBVIOUS
<1>2. /\ both \in Seq(T) /\ Len(both) = Len(front) + Len(text)
      /\ \A i \in 1..Len(front) : both[i] = front[i]
      /\ \A i \in 1..Len(text) : both[Len(front) + i] = text[i]
  BY <1>1, ConcatItems
<1>3. all = both \o back BY <1>0, <1>1 DEF Between
<1>4. /\ all \in Seq(T) /\ Len(all) = Len(both) + Len(back)
      /\ \A i \in 1..Len(both) : all[i] = both[i]
      /\ \A i \in 1..Len(back) : all[Len(both) + i] = back[i]
  <2>1. both \in Seq(T) BY <1>2
  <2>2. /\ both \o back \in Seq(T) /\ Len(both \o back) = Len(both) + Len(back)
        /\ \A i \in 1..Len(both) : (both \o back)[i] = both[i]
        /\ \A i \in 1..Len(back) : (both \o back)[Len(both) + i] = back[i]
    BY ONLY <2>1, back \in Seq(T), ConcatItems
  <2> QED BY <1>3, <2>2, Zenon
<1>5. Len(front) \in Nat /\ Len(text) \in Nat /\ Len(back) \in Nat OBVIOUS
<1>6. ASSUME NEW i \in 1..Len(front) PROVE all[i] = front[i]
  <2>1. i \in 1..Len(both) BY <1>2, <1>5
  <2> QED BY <1>2, <1>4, <2>1
<1>7. ASSUME NEW i \in 1..Len(text) PROVE all[Len(front) + i] = text[i]
  <2>1. Len(front) + i \in 1..Len(both) BY <1>2, <1>5
  <2> QED BY <1>2, <1>4, <2>1
<1>8. ASSUME NEW i \in 1..Len(back) PROVE all[Len(front) + Len(text) + i] = back[i]
  BY <1>2, <1>4
<1>9. Len(all) = Len(front) + Len(text) + Len(back) BY <1>2, <1>4
<1> QED BY <1>0, <1>4, <1>6, <1>7, <1>8, <1>9 DEF IsBetween

Quoted == <<"{", "q">>
Unquoted == <<"q", "}">>

LEMMA PairItems ==
  ASSUME NEW T, NEW a \in T, NEW b \in T
  PROVE  <<a, b>> \in Seq(T) /\ Len(<<a, b>>) = 2 /\ <<a, b>>[1] = a /\ <<a, b>>[2] = b
OBVIOUS

LEMMA Quotes ==
  /\ Quoted \in Seq(Bytes) /\ Unquoted \in Seq(Bytes) /\ Len(Quoted) = 2 /\ Len(Unquoted) = 2
  /\ Quoted[1] = "{" /\ Quoted[2] = "q" /\ Unquoted[1] = "q" /\ Unquoted[2] = "}"
<1>1. "{" \in Bytes /\ "q" \in Bytes /\ "}" \in Bytes BY DEF Bytes
<1>2. /\ <<"{", "q">> \in Seq(Bytes) /\ Len(<<"{", "q">>) = 2
      /\ <<"{", "q">>[1] = "{" /\ <<"{", "q">>[2] = "q"
  BY ONLY <1>1, PairItems, Zenon
<1>3. /\ <<"q", "}">> \in Seq(Bytes) /\ Len(<<"q", "}">>) = 2
      /\ <<"q", "}">>[1] = "q" /\ <<"q", "}">>[2] = "}"
  BY ONLY <1>1, PairItems, Zenon
<1> QED BY <1>2, <1>3, Zenon DEF Quoted, Unquoted

(* The encoding is in between "{q" and "q}": byte by byte, the escapes.    *)
LEMMA EncodeShape ==
  ASSUME NEW row \in Seq(Bytes)
  PROVE  /\ Encode(row) \in Seq(Bytes)
         /\ Len(Encode(row)) = Escaped(row, Len(row)) + 4
         /\ Encode(row)[1] = "{" /\ Encode(row)[2] = "q"
         /\ Encode(row)[Escaped(row, Len(row)) + 3] = "q"
         /\ Encode(row)[Escaped(row, Len(row)) + 4] = "}"
         /\ Escaped(row, 0) = 0
         /\ \A n \in 0..Len(row) : /\ Escaped(row, n) \in Nat
                                   /\ Escaped(row, n) <= Escaped(row, Len(row))
         /\ \A i \in 1..Escaped(row, Len(row)) :
              Encode(row)[2 + i] = FlattenSeq(Escapes(row))[i]
<1>1. PICK text : text = FlattenSeq(Escapes(row)) OBVIOUS
<1>2. Encode(row) = Between(Quoted, text, Unquoted)
  <2>1. Escapes(row) = [i \in DOMAIN row |-> IF row[i] \in {"q", "b"} THEN <<"b", row[i]>> ELSE <<row[i]>>]
    BY DEF Escapes, Special
  <2> QED BY <1>1, <2>1 DEF Encode, Quoted, Unquoted, Between
<1>3. Escapes(row) \in Seq(Seq(Bytes)) /\ Len(Escapes(row)) = Len(row) BY EscapesType
<1>4. text \in Seq(Bytes) /\ Len(text) \in Nat BY <1>1, <1>3, FlattenType
<1>5. Escaped(row, Len(row)) = Len(text) BY <1>1, <1>3, FlatStep DEF Escaped, EndOf
<1>6. Escaped(row, 0) = 0 BY <1>3, FlatStep DEF Escaped, EndOf
<1>7. ASSUME NEW n \in 0..Len(row)
      PROVE Escaped(row, n) \in Nat /\ Escaped(row, n) <= Len(text)
  <2>1. Flat(Escapes(row), n) \in Seq(Bytes) BY <1>3, FlatStep
  <2>2. Extends(text, Flat(Escapes(row), n)) BY <1>1, <1>3, FlatPrefix
  <2> QED BY <2>1, <2>2 DEF Extends, Escaped, EndOf
<1>8. PICK e : e = Encode(row) OBVIOUS
<1>9. /\ e \in Seq(Bytes) /\ Len(e) = 2 + Len(text) + 2
      /\ \A i \in 1..2 : e[i] = Quoted[i]
      /\ \A i \in 1..Len(text) : e[2 + i] = text[i]
      /\ \A i \in 1..2 : e[2 + Len(text) + i] = Unquoted[i]
  <2>1. e = Between(Quoted, text, Unquoted) BY <1>2, <1>8
  <2>2. Quoted \in Seq(Bytes) /\ Unquoted \in Seq(Bytes) /\ Len(Quoted) = 2 /\ Len(Unquoted) = 2
    BY Quotes
  <2>3. text \in Seq(Bytes) BY <1>4
  <2>4. /\ e \in Seq(Bytes) /\ Len(e) = Len(Quoted) + Len(text) + Len(Unquoted)
        /\ \A i \in 1..Len(Quoted) : e[i] = Quoted[i]
        /\ \A i \in 1..Len(text) : e[Len(Quoted) + i] = text[i]
        /\ \A i \in 1..Len(Unquoted) : e[Len(Quoted) + Len(text) + i] = Unquoted[i]
    <3>1. e \in Seq(Bytes) /\ IsBetween(e, Quoted, text, Unquoted)
      BY ONLY <2>1, <2>2, <2>3, Sandwich
    <3> QED BY <3>1 DEF IsBetween
  <2> QED BY ONLY <2>2, <2>4
<1>10. e[1] = "{" /\ e[2] = "q"
  <2>1. 1 \in 1..2 /\ 2 \in 1..2 OBVIOUS
  <2>2. e[1] = Quoted[1] /\ e[2] = Quoted[2] BY <1>9, <2>1
  <2> QED BY <2>2, Quotes, Zenon
<1>11. e[2 + Len(text) + 1] = "q" /\ e[2 + Len(text) + 2] = "}"
  <2>1. 1 \in 1..2 /\ 2 \in 1..2 OBVIOUS
  <2>2. e[2 + Len(text) + 1] = Unquoted[1] /\ e[2 + Len(text) + 2] = Unquoted[2] BY <1>9, <2>1
  <2> QED BY <2>2, Quotes, Zenon
<1>12. /\ 2 + Len(text) + 1 = Len(text) + 3 /\ 2 + Len(text) + 2 = Len(text) + 4 BY <1>4
<1>13. e[Len(text) + 3] = "q" /\ e[Len(text) + 4] = "}" BY <1>11, <1>12
<1> QED BY <1>1, <1>5, <1>6, <1>7, <1>8, <1>9, <1>10, <1>12, <1>13

(* A quote or a backslash takes two bytes, the first a backslash.          *)
LEMMA EncodeItems ==
  ASSUME NEW row \in Seq(Bytes), NEW n \in 0..(Len(row) - 1)
  PROVE  /\ row[n + 1] \in Bytes
         /\ Escaped(row, n) \in Nat /\ Escaped(row, n + 1) <= Escaped(row, Len(row))
         /\ Special(row[n + 1]) =>
              /\ Escaped(row, n + 1) = Escaped(row, n) + 2
              /\ Encode(row)[Escaped(row, n) + 3] = "b"
              /\ Encode(row)[Escaped(row, n) + 4] = row[n + 1]
         /\ ~Special(row[n + 1]) =>
              /\ Escaped(row, n + 1) = Escaped(row, n) + 1
              /\ Encode(row)[Escaped(row, n) + 3] = row[n + 1]
<1>1. PICK text : text = FlattenSeq(Escapes(row)) OBVIOUS
<1>2. PICK e : e = Encode(row) OBVIOUS
<1>3. PICK p : p = Escaped(row, n) OBVIOUS
<1>4. PICK part : part = Escapes(row)[n + 1] OBVIOUS
<1>5. Escapes(row) \in Seq(Seq(Bytes)) /\ Len(Escapes(row)) = Len(row) BY EscapesType
<1>6. n + 1 \in 1..Len(row) /\ n + 1 \in 0..Len(row) /\ n \in 0..Len(row) /\ Len(row) \in 0..Len(row)
  OBVIOUS
<1>7. n \in 0..(Len(Escapes(row)) - 1) BY <1>5
<1>8. /\ p \in Nat /\ Escaped(row, n + 1) = p + Len(part)
      /\ \A i \in 1..Len(part) : text[p + i] = part[i]
  BY <1>1, <1>3, <1>4, <1>5, <1>7, FlatItems DEF Escaped
<1>9. /\ Escaped(row, n + 1) <= Escaped(row, Len(row)) /\ Escaped(row, Len(row)) \in Nat
      /\ \A i \in 1..Escaped(row, Len(row)) : e[2 + i] = text[i]
  BY <1>1, <1>2, <1>6, EncodeShape
<1>10. Len(part) \in Nat BY <1>4, <1>5, <1>6
<1>11. \A i \in 1..Len(part) : e[2 + (p + i)] = part[i]
  <2>1. SUFFICES ASSUME NEW i \in 1..Len(part) PROVE e[2 + (p + i)] = part[i] OBVIOUS
  <2>2. p + i \in 1..Escaped(row, Len(row)) BY <1>8, <1>9, <1>10
  <2> QED BY <1>8, <1>9, <2>2
<1>12. 2 + (p + 1) = p + 3 /\ 2 + (p + 2) = p + 4 BY <1>8
<1>13. ASSUME Special(row[n + 1])
       PROVE Escaped(row, n + 1) = p + 2 /\ e[p + 3] = "b" /\ e[p + 4] = row[n + 1]
  <2>1. part = <<"b", row[n + 1]>> /\ Len(part) = 2 BY <1>4, <1>6, <1>13, EscapesType
  <2>2. part[1] = "b" /\ part[2] = row[n + 1] BY <2>1
  <2>3. 1 \in 1..Len(part) /\ 2 \in 1..Len(part) BY <2>1
  <2>4. e[p + 3] = part[1] /\ e[p + 4] = part[2] BY <1>11, <1>12, <2>3
  <2>5. Escaped(row, n + 1) = p + 2 BY <1>8, <2>1
  <2> QED BY <2>2, <2>4, <2>5, Zenon
<1>14. ASSUME ~Special(row[n + 1])
       PROVE Escaped(row, n + 1) = p + 1 /\ e[p + 3] = row[n + 1]
  <2>1. part = <<row[n + 1]>> /\ Len(part) = 1 BY <1>4, <1>6, <1>14, EscapesType
  <2>2. part[1] = row[n + 1] BY <2>1
  <2>3. 1 \in 1..Len(part) BY <2>1
  <2>4. e[p + 3] = part[1] BY <1>11, <1>12, <2>3
  <2>5. Escaped(row, n + 1) = p + 1 BY <1>8, <2>1
  <2> QED BY <2>2, <2>4, <2>5, Zenon
<1>15. row[n + 1] \in Bytes BY <1>6
<1> QED BY <1>2, <1>3, <1>8, <1>9, <1>13, <1>14, <1>15, Zenon

(* json.loads: the text can be read back from its encoding.                *)
LEMMA EncodeInjective ==
  ASSUME NEW row \in Seq(Bytes), NEW text \in Seq(Bytes), Encode(row) = Encode(text)
  PROVE  row = text
<1> DEFINE Same(n) == /\ n <= Len(text) /\ Escaped(text, n) = Escaped(row, n)
                      /\ \A i \in 1..n : row[i] = text[i]
           S == {n \in Nat : n <= Len(row) => Same(n)}
<1>1. Len(row) \in Nat /\ Len(text) \in Nat OBVIOUS
<1>2. PICK e : e = Encode(row) /\ e = Encode(text) OBVIOUS
<1>3. PICK ends : ends = Escaped(row, Len(row)) OBVIOUS
<1>4. /\ ends \in Nat /\ Len(e) = ends + 4 /\ ends = Escaped(text, Len(text))
      /\ e[ends + 3] = "q"
  <2>0. Len(row) \in 0..Len(row) /\ Len(text) \in 0..Len(text) BY <1>1
  <2>1. Escaped(row, Len(row)) \in Nat /\ Escaped(text, Len(text)) \in Nat BY <2>0, EncodeShape
  <2>2. Len(e) = Escaped(row, Len(row)) + 4 /\ Len(e) = Escaped(text, Len(text)) + 4
    BY <1>2, EncodeShape
  <2>3. e[Escaped(row, Len(row)) + 3] = "q" BY <1>2, EncodeShape
  <2> QED BY <1>3, <2>1, <2>2, <2>3
<1>5. 0 \in S
  <2>1. Escaped(row, 0) = 0 /\ Escaped(text, 0) = 0 BY EncodeShape
  <2> QED BY <1>1, <2>1
<1>6. ASSUME NEW n \in Nat, n \in S PROVE n + 1 \in S
  <2> SUFFICES ASSUME n + 1 <= Len(row) PROVE Same(n + 1) OBVIOUS
  <2>1. Same(n) BY <1>1, <1>6
  <2>2. n \in 0..(Len(row) - 1) BY <1>1
  <2>3. PICK p : p = Escaped(row, n) OBVIOUS
  <2>4. PICK byte : byte = row[n + 1] OBVIOUS
  <2>5. /\ p \in Nat /\ Escaped(row, n + 1) <= ends
        /\ Special(byte) => /\ Escaped(row, n + 1) = p + 2
                            /\ e[p + 3] = "b" /\ e[p + 4] = byte
        /\ ~Special(byte) => Escaped(row, n + 1) = p + 1 /\ e[p + 3] = byte
    BY <1>2, <1>3, <2>2, <2>3, <2>4, EncodeItems, Zenon
  <2>6. n # Len(text)
    <3> SUFFICES ASSUME n = Len(text) PROVE FALSE OBVIOUS
    <3>1. ends = p BY <1>4, <2>1, <2>3
    <3>2. p < Escaped(row, n + 1) BY <2>5
    <3> QED BY <1>4, <2>5, <3>1, <3>2
  <2>7. n \in 0..(Len(text) - 1) /\ n + 1 <= Len(text) BY <1>1, <2>1, <2>6
  <2>8. PICK other : other = text[n + 1] OBVIOUS
  <2>9. p = Escaped(text, n) BY <2>1, <2>3
  <2>10. /\ Special(other) => /\ Escaped(text, n + 1) = p + 2
                              /\ e[p + 3] = "b" /\ e[p + 4] = other
         /\ ~Special(other) => Escaped(text, n + 1) = p + 1 /\ e[p + 3] = other
    BY <1>2, <2>7, <2>8, <2>9, EncodeItems, Zenon
  <2>11. byte = other
    <3>1. Special("b") BY DEF Special
    <3> QED BY <2>5, <2>10, <3>1, Zenon
  <2>12. Escaped(text, n + 1) = Escaped(row, n + 1) BY <2>5, <2>10, <2>11, Zenon
  <2>13. ASSUME NEW i \in 1..(n + 1) PROVE row[i] = text[i]
    <3>1. CASE i = n + 1 BY <2>4, <2>8, <2>11, <3>1
    <3>2. CASE i \in 1..n BY <2>1, <3>2
    <3> QED BY <3>1, <3>2
  <2> QED BY <2>7, <2>12, <2>13
<1> HIDE DEF S
<1>7. Len(row) \in S BY <1>1, <1>5, <1>6, SetInduction
<1>8. Same(Len(row)) BY <1>1, <1>7 DEF S
<1>9. Len(text) = Len(row)
  <2> SUFFICES ASSUME Len(row) < Len(text) PROVE FALSE BY <1>1, <1>8
  <2> DEFINE n == Len(row)
  <2>1. n \in 0..(Len(text) - 1) BY <1>1
  <2>2. /\ Escaped(text, n) \in Nat /\ Escaped(text, n + 1) <= ends
        /\ Special(text[n + 1]) => Escaped(text, n + 1) = Escaped(text, n) + 2
        /\ ~Special(text[n + 1]) => Escaped(text, n + 1) = Escaped(text, n) + 1
    BY <1>4, <2>1, EncodeItems, Zenon
  <2>3. Escaped(text, n) < Escaped(text, n + 1) BY <2>2
  <2>4. Escaped(text, n) = ends BY <1>3, <1>8
  <2> QED BY <1>4, <2>2, <2>3, <2>4
<1> QED BY <1>8, <1>9, SeqEqual

-----------------------------------------------------------------------------
(* read_json_object on the encoding of a row.                              *)

(* Where the scanner is after n bytes of it: before the object, in it, in  *)
(* the text, behind a backslash in the text, behind the text.              *)
BeforeObject(n, d, s, x) == n = 0 /\ d = 0 /\ s = FALSE /\ x = FALSE
BeforeText(n, d, s, x) == n = 1 /\ d = 1 /\ s = FALSE /\ x = FALSE
InText(row, n, d, s, x) ==
  /\ \E j \in 0..Len(row) : n = Escaped(row, j) + 2
  /\ d = 1 /\ s = TRUE /\ x = FALSE
InEscape(row, n, d, s, x) ==
  /\ \E j \in 0..(Len(row) - 1) : Special(row[j + 1]) /\ n = Escaped(row, j) + 3
  /\ d = 1 /\ s = TRUE /\ x = TRUE
AfterText(row, n, d, s, x) ==
  n = Escaped(row, Len(row)) + 3 /\ d = 1 /\ s = FALSE /\ x = FALSE

ScanAt(row, n, d, s, x) ==
  \/ BeforeObject(n, d, s, x) \/ BeforeText(n, d, s, x) \/ InText(row, n, d, s, x)
  \/ InEscape(row, n, d, s, x) \/ AfterText(row, n, d, s, x)

DepthAfter(byte, d) == CASE byte = "{" -> d + 1 [] byte = "}" -> d - 1 [] OTHER -> d
StringAfter(byte, x) == x \/ byte # "q"
EscapeAfter(byte, x) == ~x /\ byte = "b"

ScanBounds(row, n, d, s, x) ==
  /\ n < Len(Encode(row)) /\ d \in 0..1 /\ s \in BOOLEAN /\ x \in BOOLEAN
  /\ x = TRUE => s = TRUE
  /\ n # 0 => d = 1

LEMMA ScanRange ==
  ASSUME NEW row \in Seq(Bytes), NEW n \in Nat, NEW d, NEW s, NEW x, ScanAt(row, n, d, s, x)
  PROVE  ScanBounds(row, n, d, s, x)
<1>1. Len(row) \in Nat /\ Len(row) \in 0..Len(row) OBVIOUS
<1>2. PICK ends : ends = Escaped(row, Len(row)) OBVIOUS
<1>3. ends \in Nat /\ Len(Encode(row)) = ends + 4 BY <1>1, <1>2, EncodeShape
<1>9. 1 \in 0..1 OBVIOUS
<1>4. CASE BeforeObject(n, d, s, x)
  <2>1. n = 0 BY <1>4 DEF BeforeObject
  <2>2. n < Len(Encode(row)) /\ n = 0 BY <1>3, <2>1
  <2>3. 0 \in 0..1 OBVIOUS
  <2> QED BY <1>4, <2>2, <2>3, Zenon DEF BeforeObject, ScanBounds
<1>5. CASE BeforeText(n, d, s, x)
  <2>1. n = 1 BY <1>5 DEF BeforeText
  <2>2. n < Len(Encode(row)) BY <1>3, <2>1
  <2> QED BY <1>5, <1>9, <2>2, Zenon DEF BeforeText, ScanBounds
<1>6. CASE InText(row, n, d, s, x)
  <2>1. PICK j \in 0..Len(row) : n = Escaped(row, j) + 2 BY <1>6 DEF InText
  <2>2. Escaped(row, j) \in Nat /\ Escaped(row, j) <= ends BY <1>2, EncodeShape
  <2>3. n < Len(Encode(row)) BY <1>3, <2>1, <2>2
  <2> QED BY <1>6, <1>9, <2>3, Zenon DEF InText, ScanBounds
<1>7. CASE InEscape(row, n, d, s, x)
  <2>1. PICK j \in 0..(Len(row) - 1) : n = Escaped(row, j) + 3 BY <1>7 DEF InEscape
  <2>2. j \in 0..Len(row) BY <1>1
  <2>3. Escaped(row, j) \in Nat /\ Escaped(row, j) <= ends BY <1>2, <2>2, EncodeShape
  <2>4. n < Len(Encode(row)) BY <1>3, <2>1, <2>3
  <2> QED BY <1>7, <1>9, <2>4, Zenon DEF InEscape, ScanBounds
<1>8. CASE AfterText(row, n, d, s, x)
  <2>1. n = ends + 3 BY <1>2, <1>8 DEF AfterText
  <2>2. n < Len(Encode(row)) BY <1>3, <2>1
  <2> QED BY <1>8, <1>9, <2>2, Zenon DEF AfterText, ScanBounds
<1> QED BY <1>4, <1>5, <1>6, <1>7, <1>8 DEF ScanAt

(* In a string a byte moves the scanner to the place after it: a quote     *)
(* that ends the text is one that no backslash escapes.                    *)
LEMMA ScanInString ==
  ASSUME NEW row \in Seq(Bytes), NEW n \in Nat, NEW d, NEW s, NEW x, ScanAt(row, n, d, s, x),
         NEW byte, byte = Encode(row)[n + 1], s = TRUE
  PROVE  ScanAt(row, n + 1, d, StringAfter(byte, x), EscapeAfter(byte, x))
<1>1. Len(row) \in Nat /\ Len(row) \in 0..Len(row) OBVIOUS
<1>2. PICK ends : ends = Escaped(row, Len(row)) OBVIOUS
<1>3. ends \in Nat /\ Encode(row)[ends + 3] = "q" BY <1>1, <1>2, EncodeShape
<1>4. InText(row, n, d, s, x) \/ InEscape(row, n, d, s, x)
  BY DEF ScanAt, BeforeObject, BeforeText, AfterText
<1>5. CASE InText(row, n, d, s, x)
  <2>1. PICK j \in 0..Len(row) : n = Escaped(row, j) + 2 BY <1>5 DEF InText
  <2>2. Escaped(row, j) \in Nat BY <2>1, EncodeShape
  <2>3. n + 1 = Escaped(row, j) + 3 BY <2>1, <2>2
  <2>4. d = 1 /\ x = FALSE BY <1>5 DEF InText
  <2>5. CASE j = Len(row)
    <3>1. byte = "q" BY <1>2, <1>3, <2>3, <2>5
    <3>2. AfterText(row, n + 1, d, StringAfter(byte, x), EscapeAfter(byte, x))
      BY <2>3, <2>4, <2>5, <3>1, Zenon DEF AfterText, StringAfter, EscapeAfter
    <3> QED BY <3>2 DEF ScanAt
  <2>6. CASE j \in 0..(Len(row) - 1)
    <3>1. PICK text : text = row[j + 1] OBVIOUS
    <3>2. /\ Special(text) => Escaped(row, j + 1) = Escaped(row, j) + 2 /\ byte = "b"
          /\ ~Special(text) => Escaped(row, j + 1) = Escaped(row, j) + 1 /\ byte = text
      <4>1. byte = Encode(row)[Escaped(row, j) + 3] BY <2>3
      <4> QED BY <2>6, <3>1, <4>1, EncodeItems, Zenon
    <3>3. CASE Special(text)
      <4>1. byte # "q" BY <3>2, <3>3
      <4>2. InEscape(row, n + 1, d, StringAfter(byte, x), EscapeAfter(byte, x))
        BY <2>3, <2>4, <2>6, <3>1, <3>2, <3>3, <4>1, Zenon DEF InEscape, StringAfter, EscapeAfter
      <4> QED BY <4>2 DEF ScanAt
    <3>4. CASE ~Special(text)
      <4>1. byte # "q" /\ byte # "b" BY <3>2, <3>4 DEF Special
      <4>2. n + 1 = Escaped(row, j + 1) + 2 BY <2>3, <2>2, <3>2, <3>4
      <4>3. j + 1 \in 0..Len(row) BY <2>6
      <4>4. InText(row, n + 1, d, StringAfter(byte, x), EscapeAfter(byte, x))
        BY <2>4, <4>1, <4>2, <4>3, Zenon DEF InText, StringAfter, EscapeAfter
      <4> QED BY <4>4 DEF ScanAt
    <3> QED BY <3>3, <3>4
  <2> QED BY <1>1, <2>1, <2>5, <2>6
<1>6. CASE InEscape(row, n, d, s, x)
  <2>1. PICK j \in 0..(Len(row) - 1) : Special(row[j + 1]) /\ n = Escaped(row, j) + 3
    BY <1>6 DEF InEscape
  <2>2. d = 1 /\ x = TRUE BY <1>6 DEF InEscape
  <2>3. j \in 0..Len(row) /\ j + 1 \in 0..Len(row) BY <1>1
  <2>4. Escaped(row, j) \in Nat BY <2>3, EncodeShape
  <2>5. Escaped(row, j + 1) = Escaped(row, j) + 2 BY <2>1, EncodeItems, Zenon
  <2>6. n + 1 = Escaped(row, j + 1) + 2 BY <2>1, <2>4, <2>5
  <2>7. InText(row, n + 1, d, StringAfter(byte, x), EscapeAfter(byte, x))
    BY <2>2, <2>3, <2>6, Zenon DEF InText, StringAfter, EscapeAfter
  <2> QED BY <2>7 DEF ScanAt
<1> QED BY <1>4, <1>5, <1>6

(* Outside of the text there are the two braces and the text's quotes; the *)
(* "}" is the object's last byte.                                          *)
LEMMA ScanOutside ==
  ASSUME NEW row \in Seq(Bytes), NEW n \in Nat, NEW d, NEW s, NEW x, ScanAt(row, n, d, s, x),
         NEW byte, byte = Encode(row)[n + 1], s = FALSE
  PROVE  /\ ~(byte = "}" /\ d = 1) => ScanAt(row, n + 1, DepthAfter(byte, d), byte = "q", x)
         /\ byte = "}" /\ d = 1 => n + 1 = Len(Encode(row))
<1>1. Len(row) \in Nat /\ Len(row) \in 0..Len(row) /\ 0 \in 0..Len(row) OBVIOUS
<1>2. PICK ends : ends = Escaped(row, Len(row)) OBVIOUS
<1>3. /\ ends \in Nat /\ Len(Encode(row)) = ends + 4 /\ Escaped(row, 0) = 0
      /\ Encode(row)[1] = "{" /\ Encode(row)[2] = "q"
      /\ Encode(row)[ends + 3] = "q" /\ Encode(row)[ends + 4] = "}"
  BY <1>1, <1>2, EncodeShape
<1>4. BeforeObject(n, d, s, x) \/ BeforeText(n, d, s, x) \/ AfterText(row, n, d, s, x)
  BY DEF ScanAt, InText, InEscape
<1>5. CASE BeforeObject(n, d, s, x)
  <2>1. n = 0 /\ d = 0 /\ x = FALSE BY <1>5 DEF BeforeObject
  <2>4. n + 1 = 1 BY <2>1
  <2>2. byte = "{" BY <1>3, <2>4, Zenon
  <2>3. DepthAfter(byte, d) = 1
    <3>1. DepthAfter("{", 0) = 1 BY DEF DepthAfter
    <3> QED BY <2>1, <2>2, <3>1, Zenon
  <2>5. byte # "q" /\ byte # "}" BY <2>2
  <2>6. BeforeText(n + 1, DepthAfter(byte, d), byte = "q", x)
    BY <2>1, <2>3, <2>4, <2>5, Zenon DEF BeforeText
  <2> QED BY <2>5, <2>6 DEF ScanAt
<1>6. CASE BeforeText(n, d, s, x)
  <2>1. n = 1 /\ d = 1 /\ x = FALSE BY <1>6 DEF BeforeText
  <2>7. n + 1 = 2 /\ 0 + 2 = 2 BY <2>1
  <2>2. byte = "q" BY <1>3, <2>7, Zenon
  <2>3. DepthAfter(byte, d) = 1
    <3>1. DepthAfter("q", 1) = 1 BY DEF DepthAfter
    <3> QED BY <2>1, <2>2, <3>1, Zenon
  <2>4. n + 1 = Escaped(row, 0) + 2 BY <1>3, <2>7, Zenon
  <2>5. byte # "}" BY <2>2
  <2>6. InText(row, n + 1, DepthAfter(byte, d), byte = "q", x)
    BY <1>1, <2>1, <2>2, <2>3, <2>4, Zenon DEF InText
  <2> QED BY <2>5, <2>6 DEF ScanAt
<1>7. CASE AfterText(row, n, d, s, x)
  <2>1. n = ends + 3 /\ d = 1 BY <1>2, <1>7 DEF AfterText
  <2>4. ends \in Nat BY <1>3
  <2>2. n + 1 = ends + 4 BY <2>1, <2>4
  <2>3. byte = "}" BY <1>3, <2>2, Zenon
  <2> QED BY <1>3, <2>1, <2>2, <2>3, Zenon
<1> QED BY <1>4, <1>5, <1>6, <1>7

-----------------------------------------------------------------------------
(* Joined rows.                                                            *)

Comma == <<",", "_">>

Pieces(list) ==
  [i \in DOMAIN list |-> IF i = 1 THEN Encode(list[i]) ELSE Comma \o Encode(list[i])]

(* The bytes of a file's first n rows, joined, and of the separator that   *)
(* another row would have.                                                 *)
RowsEnd(list, n) == EndOf(Pieces(list), n)
Separator(n) == IF n = 0 THEN 0 ELSE 2

LEMMA CommaItems ==
  /\ Comma \in Seq(Bytes) /\ Len(Comma) = 2 /\ Comma[1] = "," /\ Comma[2] = "_"
<1>1. "," \in Bytes /\ "_" \in Bytes BY DEF Bytes
<1>2. /\ <<",", "_">> \in Seq(Bytes) /\ Len(<<",", "_">>) = 2
      /\ <<",", "_">>[1] = "," /\ <<",", "_">>[2] = "_"
  BY ONLY <1>1, PairItems, Zenon
<1> QED BY <1>2, Zenon DEF Comma

LEMMA PiecesType ==
  ASSUME NEW list \in Seq(Seq(Bytes))
  PROVE  /\ Pieces(list) \in Seq(Seq(Bytes)) /\ Len(Pieces(list)) = Len(list)
         /\ \A i \in 1..Len(list) :
              Pieces(list)[i] = IF i = 1 THEN Encode(list[i]) ELSE Comma \o Encode(list[i])
<1>1. DOMAIN list = 1..Len(list) /\ Len(list) \in Nat OBVIOUS
<1>2. ASSUME NEW i \in 1..Len(list)
      PROVE (IF i = 1 THEN Encode(list[i]) ELSE Comma \o Encode(list[i])) \in Seq(Bytes)
  <2>1. list[i] \in Seq(Bytes) OBVIOUS
  <2>2. Encode(list[i]) \in Seq(Bytes) BY <2>1, EncodeShape
  <2>3. Comma \o Encode(list[i]) \in Seq(Bytes) BY <2>2, CommaItems, ConcatProperties
  <2> QED BY <2>2, <2>3, Zenon
<1>3. Pieces(list) \in [1..Len(list) -> Seq(Bytes)] BY <1>1, <1>2, Zenon DEF Pieces
<1>4. Pieces(list) \in Seq(Seq(Bytes)) /\ Len(Pieces(list)) = Len(list) BY <1>1, <1>3
<1>5. \A i \in 1..Len(list) :
         Pieces(list)[i] = IF i = 1 THEN Encode(list[i]) ELSE Comma \o Encode(list[i])
  BY <1>1, Zenon DEF Pieces
<1> QED BY <1>4, <1>5

LEMMA JoinedIsFlat ==
  ASSUME NEW list \in Seq(Seq(Bytes))
  PROVE  Joined(list) = FlattenSeq(Pieces(list))
BY DEF Joined, Pieces, Comma

LEMMA JoinedShape ==
  ASSUME NEW list \in Seq(Seq(Bytes))
  PROVE  /\ Joined(list) \in Seq(Bytes)
         /\ RowsEnd(list, 0) = 0 /\ RowsEnd(list, Len(list)) = Len(Joined(list))
         /\ \A n \in 0..Len(list) : /\ RowsEnd(list, n) \in Nat
                                    /\ RowsEnd(list, n) <= Len(Joined(list))
                                    /\ Len(Joined(SubSeq(list, 1, n))) = RowsEnd(list, n)
<1>1. Pieces(list) \in Seq(Seq(Bytes)) /\ Len(Pieces(list)) = Len(list) BY PiecesType
<1>2. Joined(list) = FlattenSeq(Pieces(list)) BY JoinedIsFlat
<1>3. Joined(list) \in Seq(Bytes) BY <1>1, <1>2, FlattenType
<1>4. RowsEnd(list, 0) = 0 BY <1>1, FlatStep DEF RowsEnd, EndOf
<1>5. RowsEnd(list, Len(list)) = Len(Joined(list)) BY <1>1, <1>2, FlatStep DEF RowsEnd, EndOf
<1>6. ASSUME NEW n \in 0..Len(list)
      PROVE /\ RowsEnd(list, n) \in Nat
            /\ RowsEnd(list, n) <= Len(Joined(list))
            /\ Len(Joined(SubSeq(list, 1, n))) = RowsEnd(list, n)
  <2>1. Flat(Pieces(list), n) \in Seq(Bytes) BY <1>1, FlatStep
  <2>2. Extends(Joined(list), Flat(Pieces(list), n)) BY <1>1, <1>2, FlatPrefix
  <2>3. PICK part : part = SubSeq(list, 1, n) OBVIOUS
  <2>4. part \in Seq(Seq(Bytes)) /\ Len(part) = n /\ \A i \in 1..n : part[i] = list[i]
    BY <2>3, SubSeqFrom1
  <2>5. PICK pieces : pieces = SubSeq(Pieces(list), 1, n) OBVIOUS
  <2>6. /\ pieces \in Seq(Seq(Bytes)) /\ Len(pieces) = n
        /\ \A i \in 1..n : pieces[i] = Pieces(list)[i]
    BY <1>1, <2>5, SubSeqFrom1
  <2>7. Pieces(part) = pieces
    <3>1. Pieces(part) \in Seq(Seq(Bytes)) /\ Len(Pieces(part)) = n BY <2>4, PiecesType
    <3>2. ASSUME NEW i \in 1..n PROVE Pieces(part)[i] = pieces[i]
      <4>1. i \in 1..Len(part) /\ i \in 1..Len(list) BY <2>4
      <4>2. Pieces(part)[i] = IF i = 1 THEN Encode(part[i]) ELSE Comma \o Encode(part[i])
        BY <2>4, <4>1, PiecesType, Zenon
      <4>3. Pieces(list)[i] = IF i = 1 THEN Encode(list[i]) ELSE Comma \o Encode(list[i])
        BY <4>1, PiecesType, Zenon
      <4>4. part[i] = list[i] /\ pieces[i] = Pieces(list)[i] BY <2>4, <2>6
      <4> QED BY <4>2, <4>3, <4>4, Zenon
    <3> QED BY <2>6, <3>1, <3>2, SeqEqual
  <2>8. Joined(part) = Flat(Pieces(list), n) BY <2>4, <2>5, <2>7, JoinedIsFlat, Zenon DEF Flat
  <2> QED BY <2>1, <2>2, <2>3, <2>8 DEF Extends, RowsEnd, EndOf
<1> QED BY <1>3, <1>4, <1>5, <1>6

(* What follows the first n rows: a comma and white space if n > 0, and    *)
(* the next row.                                                           *)
Follows(all, list, n, e) ==
  /\ RowsEnd(list, n) \in Nat
  /\ RowsEnd(list, n + 1) = RowsEnd(list, n) + Separator(n) + Len(e)
  /\ RowsEnd(list, n + 1) <= Len(all)
  /\ n > 0 => all[RowsEnd(list, n) + 1] = "," /\ all[RowsEnd(list, n) + 2] = "_"
  /\ \A i \in 1..Len(e) : all[RowsEnd(list, n) + Separator(n) + i] = e[i]

LEMMA JoinedItems ==
  ASSUME NEW list \in Seq(Seq(Bytes)), NEW n \in 0..(Len(list) - 1)
  PROVE  Follows(Joined(list), list, n, Encode(list[n + 1]))
<1>0. PICK e : e = Encode(list[n + 1]) OBVIOUS
<1>1. Pieces(list) \in Seq(Seq(Bytes)) /\ Len(Pieces(list)) = Len(list) BY PiecesType
<1>2. PICK all : all = Joined(list) OBVIOUS
<1>3. all = FlattenSeq(Pieces(list)) BY <1>2, JoinedIsFlat
<1>4. PICK at0 : at0 = RowsEnd(list, n) OBVIOUS
<1>5. PICK part : part = Pieces(list)[n + 1] OBVIOUS
<1>6. n + 1 \in 1..Len(list) /\ n \in 0..(Len(Pieces(list)) - 1) BY <1>1
<1>7. /\ at0 \in Nat /\ RowsEnd(list, n + 1) = at0 + Len(part) /\ RowsEnd(list, n + 1) <= Len(all)
      /\ \A i \in 1..Len(part) : all[at0 + i] = part[i]
  BY <1>1, <1>3, <1>4, <1>5, <1>6, FlatItems DEF RowsEnd
<1>8. part = IF n + 1 = 1 THEN e ELSE Comma \o e BY <1>0, <1>5, <1>6, PiecesType, Zenon
<1>9. list[n + 1] \in Seq(Bytes) BY <1>6
<1>10. e \in Seq(Bytes) BY <1>0, <1>9, EncodeShape
<1>11. Len(e) \in Nat BY <1>10
<1>12. ASSUME n = 0 PROVE Follows(all, list, n, e)
  <2>1. part = e BY <1>8, <1>12
  <2>2. Separator(n) = 0 BY <1>12 DEF Separator
  <2>3. at0 + 0 = at0 BY <1>7
  <2>4. \A i \in 1..Len(e) : all[at0 + i] = e[i] BY <1>7, <2>1
  <2>5. ~(n > 0) BY <1>12
  <2>6. RowsEnd(list, n + 1) = at0 + Separator(n) + Len(e) BY <1>7, <2>1, <2>2, <2>3, Zenon
  <2>7. \A i \in 1..Len(e) : all[at0 + Separator(n) + i] = e[i] BY <2>2, <2>3, <2>4, Zenon
  <2> QED BY <1>2, <1>4, <1>7, <2>5, <2>6, <2>7, Zenon DEF Follows
<1>13. ASSUME n > 0 PROVE Follows(all, list, n, e)
  <2>1. part = Comma \o e BY <1>8, <1>13
  <2>2. Separator(n) = 2 BY <1>13 DEF Separator
  <2>3. Comma \in Seq(Bytes) /\ Len(Comma) = 2 BY CommaItems
  <2>4. /\ Len(part) = Len(Comma) + Len(e)
        /\ \A i \in 1..Len(Comma) : part[i] = Comma[i]
        /\ \A i \in 1..Len(e) : part[Len(Comma) + i] = e[i]
    <3>1. /\ Len(Comma \o e) = Len(Comma) + Len(e)
          /\ \A i \in 1..Len(Comma) : (Comma \o e)[i] = Comma[i]
          /\ \A i \in 1..Len(e) : (Comma \o e)[Len(Comma) + i] = e[i]
      <4>1. PICK c : c = Comma OBVIOUS
      <4>2. c \in Seq(Bytes) BY <2>3, <4>1
      <4>3. /\ Len(c \o e) = Len(c) + Len(e)
            /\ \A i \in 1..Len(c) : (c \o e)[i] = c[i]
            /\ \A i \in 1..Len(e) : (c \o e)[Len(c) + i] = e[i]
        BY ONLY <1>10, <4>2, ConcatItems
      <4> QED BY <4>1, <4>3, Zenon
    <3> QED BY <2>1, <3>1, Zenon
  <2>5. Len(part) = 2 + Len(e) /\ 1 \in 1..Len(Comma) /\ 2 \in 1..Len(Comma)
        /\ 1 \in 1..Len(part) /\ 2 \in 1..Len(part)
    BY <1>11, <2>3, <2>4
  <2>6. all[at0 + 1] = "," /\ all[at0 + 2] = "_"
    <3>1. all[at0 + 1] = Comma[1] /\ all[at0 + 2] = Comma[2] BY <1>7, <2>4, <2>5
    <3> QED BY <3>1, CommaItems, Zenon
  <2>7. ASSUME NEW i \in 1..Len(e) PROVE all[at0 + 2 + i] = e[i]
    <3>1. 2 + i \in 1..Len(part) /\ at0 + (2 + i) = at0 + 2 + i BY <1>7, <1>11, <2>5
    <3>2. all[at0 + (2 + i)] = part[2 + i] BY <1>7, <3>1
    <3>3. part[2 + i] = e[i] BY <2>3, <2>4
    <3> QED BY <3>1, <3>2, <3>3
  <2>8. RowsEnd(list, n + 1) = at0 + 2 + Len(e) BY <1>7, <1>11, <2>5
  <2> QED BY <1>2, <1>4, <1>7, <2>2, <2>6, <2>7, <2>8, Zenon DEF Follows
<1>14. n = 0 \/ n > 0 OBVIOUS
<1> QED BY <1>0, <1>2, <1>12, <1>13, <1>14, Zenon

-----------------------------------------------------------------------------
(* The export.                                                             *)

Opening == <<"[", "_">>
Closing == <<"_", "]">>
Nothing == <<"[", "]">>

(* The rows' bytes, and how many of them the size limit lets through.      *)
Middle(list, mult) == Joined(Requested(list, mult))
Kept(list, mult) ==
  IF mult /\ ~(Len(Middle(list, mult)) < SizeLimit - 2) THEN SizeLimit - 2
  ELSE Len(Middle(list, mult))

LEMMA Brackets ==
  /\ Opening \in Seq(Bytes) /\ Len(Opening) = 2 /\ Opening[1] = "[" /\ Opening[2] = "_"
  /\ Closing \in Seq(Bytes) /\ Len(Closing) = 2 /\ Closing[1] = "_" /\ Closing[2] = "]"
  /\ Nothing \in Seq(Bytes) /\ Len(Nothing) = 2 /\ Nothing[1] = "[" /\ Nothing[2] = "]"
<1>1. "[" \in Bytes /\ "_" \in Bytes /\ "]" \in Bytes BY DEF Bytes
<1>2. /\ <<"[", "_">> \in Seq(Bytes) /\ Len(<<"[", "_">>) = 2
      /\ <<"[", "_">>[1] = "[" /\ <<"[", "_">>[2] = "_"
  BY ONLY <1>1, PairItems, Zenon
<1>3. /\ <<"_", "]">> \in Seq(Bytes) /\ Len(<<"_", "]">>) = 2
      /\ <<"_", "]">>[1] = "_" /\ <<"_", "]">>[2] = "]"
  BY ONLY <1>1, PairItems, Zenon
<1>4. /\ <<"[", "]">> \in Seq(Bytes) /\ Len(<<"[", "]">>) = 2
      /\ <<"[", "]">>[1] = "[" /\ <<"[", "]">>[2] = "]"
  BY ONLY <1>1, PairItems, Zenon
<1> QED BY <1>2, <1>3, <1>4, Zenon DEF Opening, Closing, Nothing

(* A file repeated consists of its rows; an empty one stays empty.         *)
LEMMA RepeatedType ==
  ASSUME NEW T, NEW list \in Seq(T)
  PROVE  Repeated(list) \in Seq(T)
<1>1. [n \in 1..Multiplier |-> list] \in [1..Multiplier -> Seq(T)] OBVIOUS
<1>2. Multiplier \in Nat BY LimitAssumption
<1>3. [n \in 1..Multiplier |-> list] \in Seq(Seq(T)) BY <1>1, <1>2, SeqDef
<1> QED BY <1>3, FlattenType DEF Repeated

LEMMA RepeatedNothing == Repeated(<<>>) = <<>>
<1>1. <<>> \in Seq({}) OBVIOUS
<1>2. PICK all : all = Repeated(<<>>) OBVIOUS
<1>3. all \in Seq({}) BY <1>1, <1>2, RepeatedType, Zenon
<1>4. Len(all) = 0
  <2> SUFFICES ASSUME Len(all) # 0 PROVE FALSE OBVIOUS
  <2>1. 1 \in 1..Len(all) BY <1>3
  <2>2. all[1] \in {} BY <1>3, <2>1
  <2> QED BY <2>2
<1>5. all = <<>> BY <1>3, <1>4
<1> QED BY <1>2, <1>5, Zenon

LEMMA RequestedType ==
  ASSUME NEW list \in Seq(Texts), NEW mult \in BOOLEAN
  PROVE  /\ Requested(list, mult) \in Seq(Texts)
         /\ Requested(list, mult) \in Seq(Seq(Bytes))
<1>1. Requested(list, mult) \in Seq(Texts) BY RepeatedType DEF Requested
<1>2. Texts \subseteq Seq(Bytes) BY BytesAssumption
<1>3. Requested(list, mult) \in Seq(Seq(Bytes)) BY ONLY <1>1, <1>2, SeqMonotonic
<1> QED BY <1>1, <1>3

LEMMA LimitedShape ==
  ASSUME NEW mid \in Seq(Bytes), NEW c,
         c = IF Len(mid) < SizeLimit - 2 THEN Len(mid) ELSE SizeLimit - 2
  PROVE  /\ Limited(mid) \in Seq(Bytes) /\ Len(Limited(mid)) = c /\ c \in 0..Len(mid)
         /\ \A i \in 1..c : Limited(mid)[i] = mid[i]
<1>1. c \in 0..Len(mid) BY LimitAssumption
<1>2. Limited(mid) = SubSeq(mid, 1, c) BY Zenon DEF Limited
<1>3. /\ SubSeq(mid, 1, c) \in Seq(Bytes) /\ Len(SubSeq(mid, 1, c)) = c
      /\ \A i \in 1..c : SubSeq(mid, 1, c)[i] = mid[i]
  BY <1>1, SubSeqFrom1
<1> QED BY <1>1, <1>2, <1>3, Zenon

(* An export is "[", white space, the rows' bytes that are kept, white     *)
(* space and "]"; or "[]".                                                 *)
WireIs(w, mid, c) ==
  /\ w \in Seq(Bytes) /\ mid \in Seq(Bytes)
  /\ c \in 0..Len(mid) /\ 2 + c <= Len(w)
  /\ w[1] = "[" /\ w[2] \in {"_", "]"}
  /\ \A i \in 1..c : w[2 + i] = mid[i]
  /\ \A i \in 1..Len(w) : i > 2 + c => w[i] \in {"_", "]"}
  /\ w[2] = "_" \/ Len(mid) = 0

LEMMA WireShape ==
  ASSUME NEW list \in Seq(Texts), NEW mult \in BOOLEAN
  PROVE  WireIs(Export(list, mult), Middle(list, mult), Kept(list, mult))
<1>1. PICK w : w = Export(list, mult) OBVIOUS
<1>2. PICK mid : mid = Middle(list, mult) OBVIOUS
<1>3. PICK c : c = Kept(list, mult) OBVIOUS
<1>4. mid \in Seq(Bytes) BY <1>2, RequestedType, JoinedShape DEF Middle
<1>5. Len(mid) \in Nat BY <1>4
<1>6. CASE mult /\ list = <<>>
  <2>1. w = Nothing BY <1>1, <1>6, Zenon DEF Export, Nothing
  <2>2. Requested(list, mult) = <<>> BY <1>6, RepeatedNothing, Zenon DEF Requested
  <2>3. <<>> \in Seq(Seq(Bytes)) /\ Len(<<>>) = 0 OBVIOUS
  <2>4. RowsEnd(<<>>, 0) = 0 /\ RowsEnd(<<>>, Len(<<>>)) = Len(Joined(<<>>))
    BY <2>3, JoinedShape
  <2>5. Len(Joined(<<>>)) = 0 BY <2>3, <2>4, Zenon
  <2>6. Len(mid) = 0 BY <1>2, <2>2, <2>5, Zenon DEF Middle
  <2>7. c = 0
    <3>1. SizeLimit - 2 \in Nat BY LimitAssumption
    <3>2. c = IF mult /\ ~(Len(mid) < SizeLimit - 2) THEN SizeLimit - 2 ELSE Len(mid)
      BY <1>2, <1>3 DEF Kept
    <3>3. CASE Len(mid) < SizeLimit - 2 BY <2>6, <3>2, <3>3, Zenon
    <3>4. CASE ~(Len(mid) < SizeLimit - 2)
      <4>0. SizeLimit \in Nat BY LimitAssumption
      <4>1. SizeLimit - 2 = 0 BY ONLY <2>6, <3>1, <3>4, <4>0
      <4> QED BY <2>6, <3>2, <4>1, Zenon
    <3> QED BY <3>3, <3>4
  <2>8. w \in Seq(Bytes) /\ Len(w) = 2 /\ w[1] = "[" /\ w[2] = "]" BY <2>1, Brackets, Zenon
  <2>9. c \in 0..Len(mid) /\ 2 + c <= Len(w) /\ \A i \in 1..c : w[2 + i] = mid[i]
    BY <2>6, <2>7, <2>8
  <2>10. \A i \in 1..Len(w) : i > 2 + c => w[i] \in {"_", "]"}
    <3>1. Len(w) = 2 BY <2>8
    <3>2. ASSUME NEW i \in 1..Len(w), i > 2 + c PROVE FALSE
      <4>1. i \in 1..2 /\ i > 2 + 0 BY <2>7, <3>1, <3>2, Zenon
      <4> QED BY ONLY <4>1
    <3> QED BY <3>2
  <2>11. w[2] \in {"_", "]"} BY <2>8
  <2>12. WireIs(w, mid, c) BY <1>4, <2>6, <2>8, <2>9, <2>10, <2>11, Zenon DEF WireIs
  <2> QED BY <1>1, <1>2, <1>3, <2>12
<1>7. CASE ~(mult /\ list = <<>>)
  <2>1. PICK kept : kept = IF mult THEN Limited(mid) ELSE mid OBVIOUS
  <2>2. w = Between(Opening, kept, Closing)
    <3>1. mult => mid = Joined(Repeated(list)) BY <1>2, Zenon DEF Middle, Requested
    <3>2. ~mult => mid = Joined(list) BY <1>2, Zenon DEF Middle, Requested
    <3>3. CASE mult
      <4>1. kept = Limited(Joined(Repeated(list))) BY <2>1, <3>1, <3>3, Zenon
      <4>2. list # <<>> BY <1>7, <3>3
      <4> QED BY <1>1, <3>3, <4>1, <4>2, Zenon DEF Export, Between, Opening, Closing
    <3>4. CASE ~mult
      <4>1. kept = Joined(list) BY <2>1, <3>2, <3>4, Zenon
      <4> QED BY <1>1, <3>4, <4>1, Zenon DEF Export, Between, Opening, Closing
    <3> QED BY <3>3, <3>4
  <2>3. /\ kept \in Seq(Bytes) /\ Len(kept) = c /\ c \in 0..Len(mid)
        /\ \A i \in 1..c : kept[i] = mid[i]
    <3>1. CASE mult
      <4>1. c = IF Len(mid) < SizeLimit - 2 THEN Len(mid) ELSE SizeLimit - 2
        BY <1>2, <1>3, <3>1, Zenon DEF Kept
      <4>2. kept = Limited(mid) BY <2>1, <3>1, Zenon
      <4> QED BY <1>4, <4>1, <4>2, LimitedShape, Zenon
    <3>2. CASE ~mult
      <4>1. c = Len(mid) BY <1>2, <1>3, <3>2, Zenon DEF Kept
      <4>2. kept = mid BY <2>1, <3>2, Zenon
      <4> QED BY <1>4, <1>5, <4>1, <4>2
    <3> QED BY <3>1, <3>2
  <2>4. w \in Seq(Bytes) /\ IsBetween(w, Opening, kept, Closing)
    <3>1. Opening \in Seq(Bytes) /\ Closing \in Seq(Bytes) BY Brackets
    <3> QED BY ONLY <2>2, <2>3, <3>1, Sandwich
  <2>5. Len(Opening) = 2 /\ Len(Closing) = 2 BY Brackets
  <2>6. /\ Len(w) = 2 + c + 2
        /\ \A i \in 1..2 : w[i] = Opening[i]
        /\ \A i \in 1..c : w[2 + i] = kept[i]
        /\ \A i \in 1..2 : w[2 + c + i] = Closing[i]
    BY <2>3, <2>4, <2>5, Zenon DEF IsBetween
  <2>7. c \in Nat BY <2>3
  <2>8. 1 \in 1..2 /\ 2 \in 1..2 OBVIOUS
  <2>9. w[1] = "[" /\ w[2] = "_" BY <2>6, <2>8, Brackets, Zenon
  <2>10. w[2 + c + 1] = "_" /\ w[2 + c + 2] = "]" BY <2>6, <2>8, Brackets, Zenon
  <2>11. ASSUME NEW i \in 1..Len(w), i > 2 + c PROVE w[i] \in {"_", "]"}
    <3>1. i = 2 + c + 1 \/ i = 2 + c + 2 BY <2>6, <2>7, <2>11
    <3> QED BY <2>10, <3>1, Zenon
  <2>12. \A i \in 1..c : w[2 + i] = mid[i] BY <2>3, <2>6, Zenon
  <2>13. 2 + c <= Len(w) BY <2>6, <2>7
  <2>14. w[2] \in {"_", "]"} BY <2>9
  <2>15. WireIs(w, mid, c)
    BY <1>4, <2>3, <2>4, <2>9, <2>11, <2>12, <2>13, <2>14, Zenon DEF WireIs
  <2> QED BY <1>1, <1>2, <1>3, <2>15
<1> QED BY <1>6, <1>7

-----------------------------------------------------------------------------
(* Reading an export w, of the rows in list, of whose bytes mid the first  *)
(* c are kept.                                                             *)

Wired(list, w, mid, c) == list \in Seq(Seq(Bytes)) /\ mid = Joined(list) /\ WireIs(w, mid, c)

(* The bytes before row n + 1.                                             *)
From(list, n) == 2 + RowsEnd(list, n) + Separator(n)

(* Between rows, n of them returned: since the last one, only white space  *)
(* and commas.                                                             *)
BetweenAt(list, w, c, n, here) ==
  /\ n \in 0..Len(list) /\ here \in Nat /\ here >= 1 /\ RowsEnd(list, n) <= c
  /\ n > 0 => RowsEnd(list, n) + 2 <= here
  /\ \A i \in 3..here : i > RowsEnd(list, n) + 2 => w[i] \in {"_", ","}

(* In an object: as long as the bytes are those of a row, the scanner is   *)
(* where they say.  Behind the size limit only the depth is known, and     *)
(* that the limit has cut the row.                                         *)
ObjectAt(list, mid, c, n, here, taken, d, s, x) ==
  /\ n \in 0..(Len(list) - 1) /\ taken \in Seq(Bytes)
  /\ RowsEnd(list, n) <= c /\ From(list, n) < 2 + c
  /\ here = From(list, n) + Len(taken)
  /\ here <= 2 + c =>
       /\ ScanAt(list[n + 1], Len(taken), d, s, x)
       /\ \A i \in 1..Len(taken) : taken[i] = Encode(list[n + 1])[i]
  /\ here > 2 + c => /\ d = 1 /\ s \in BOOLEAN /\ x \in BOOLEAN /\ (x = TRUE => s = TRUE)
                     /\ c < Len(mid)

(* What lies ahead of n rows.                                              *)
AheadOf(list, w, mid, c, n) ==
  /\ RowsEnd(list, n) \in Nat
  /\ n = Len(list) => RowsEnd(list, n) = c /\ c = Len(mid)
  /\ n < Len(list) =>
       /\ \A p \in 3..(2 + c) :
            p > RowsEnd(list, n) + 2 /\ p <= From(list, n) => w[p] \in {"_", ","}
       /\ From(list, n) < 2 + c => w[From(list, n) + 1] = "{"
       /\ c = Len(mid) => From(list, n) < 2 + c

LEMMA Ahead ==
  ASSUME NEW list, NEW w, NEW mid, NEW c, Wired(list, w, mid, c),
         NEW n \in 0..Len(list), RowsEnd(list, n) <= c
  PROVE  AheadOf(list, w, mid, c, n)
<1>1. /\ list \in Seq(Seq(Bytes)) /\ mid = Joined(list)
      /\ c \in 0..Len(mid) /\ \A i \in 1..c : w[2 + i] = mid[i]
  BY DEF Wired, WireIs
<1>2. PICK read : read = RowsEnd(list, n) OBVIOUS
<1>3. PICK sep : sep = Separator(n) OBVIOUS
<1>4. /\ read \in Nat /\ read <= Len(mid) /\ RowsEnd(list, Len(list)) = Len(mid) /\ mid \in Seq(Bytes)
  BY <1>1, <1>2, JoinedShape
<1>5. Len(mid) \in Nat /\ c \in Nat /\ Len(list) \in Nat /\ read <= c BY <1>1, <1>2, <1>4
<1>6. sep \in {0, 2} /\ (n = 0 => sep = 0) /\ (n > 0 => sep = 2) BY <1>3 DEF Separator
<1>7. From(list, n) = 2 + read + sep BY <1>2, <1>3 DEF From
<1>8. ASSUME n = Len(list) PROVE read = c /\ c = Len(mid)
  <2>1. read = Len(mid) BY <1>2, <1>4, <1>8
  <2> QED BY <1>1, <1>5, <2>1
<1>9. ASSUME n < Len(list)
      PROVE /\ \A p \in 3..(2 + c) : p > read + 2 /\ p <= 2 + read + sep => w[p] \in {"_", ","}
            /\ 2 + read + sep < 2 + c => w[2 + read + sep + 1] = "{"
            /\ c = Len(mid) => 2 + read + sep < 2 + c
  <2>1. n \in 0..(Len(list) - 1) /\ n + 1 \in 1..Len(list) BY <1>5, <1>9
  <2>2. PICK e : e = Encode(list[n + 1]) OBVIOUS
  <2>3. /\ RowsEnd(list, n + 1) = read + sep + Len(e)
        /\ RowsEnd(list, n + 1) <= Len(mid)
        /\ n > 0 => mid[read + 1] = "," /\ mid[read + 2] = "_"
        /\ \A i \in 1..Len(e) : mid[read + sep + i] = e[i]
    <3>1. list \in Seq(Seq(Bytes)) /\ mid = Joined(list) BY <1>1
    <3>2. Follows(Joined(list), list, n, Encode(list[n + 1])) BY <2>1, <3>1, JoinedItems
    <3>3. Follows(mid, list, n, e) BY <2>2, <3>1, <3>2, Zenon
    <3> QED BY <1>2, <1>3, <3>3, Zenon DEF Follows
  <2>4. list[n + 1] \in Seq(Bytes) BY <1>1, <2>1
  <2>5. e \in Seq(Bytes) /\ Len(e) \in Nat /\ e[1] = "{" /\ Len(e) >= 1
    <3>1. Len(list[n + 1]) \in 0..Len(list[n + 1]) BY <2>4
    <3>2. e \in Seq(Bytes) /\ e[1] = "{" BY <2>2, <2>4, EncodeShape, Zenon
    <3>3. Escaped(list[n + 1], Len(list[n + 1])) \in Nat BY <2>4, <3>1, EncodeShape
    <3>4. Len(e) = Escaped(list[n + 1], Len(list[n + 1])) + 4 BY <2>2, <2>4, EncodeShape, Zenon
    <3>5. Len(e) \in Nat /\ Len(e) >= 1 BY <3>3, <3>4
    <3> QED BY <3>2, <3>5, Zenon
  <2>9. Len(e) \in Nat /\ Len(e) >= 1 BY <2>5, Zenon
  <2>6. ASSUME NEW p \in 3..(2 + c), p > read + 2, p <= 2 + read + sep
        PROVE w[p] \in {"_", ","}
    <3>1. n > 0 /\ sep = 2 BY <1>4, <1>6, <2>6
    <3>2. p - 2 \in 1..c /\ 2 + (p - 2) = p /\ (p - 2 = read + 1 \/ p - 2 = read + 2)
      BY <1>4, <1>5, <2>6, <3>1
    <3>3. w[p] = mid[p - 2]
      <4>1. w[2 + (p - 2)] = mid[p - 2] BY <1>1, <3>2, Zenon
      <4> QED BY <3>2, <4>1, Zenon
    <3>4. mid[p - 2] \in {"_", ","} BY <2>3, <3>1, <3>2, Zenon
    <3> QED BY <3>3, <3>4, Zenon
  <2>7. ASSUME 2 + read + sep < 2 + c PROVE w[2 + read + sep + 1] = "{"
    <3>1. read + sep + 1 \in 1..c /\ 2 + (read + sep + 1) = 2 + read + sep + 1
      BY <1>4, <1>5, <1>6, <2>7
    <3>2. 1 \in 1..Len(e) BY <2>9
    <3>3. mid[read + sep + 1] = "{" BY <2>3, <2>5, <3>2, Zenon
    <3>4. w[2 + (read + sep + 1)] = mid[read + sep + 1] BY <1>1, <3>1, Zenon
    <3> QED BY <3>1, <3>3, <3>4, Zenon
  <2>8. ASSUME c = Len(mid) PROVE 2 + read + sep < 2 + c
    <3>1. read + sep + Len(e) <= c BY <2>3, <2>8
    <3>2. sep \in Nat BY <1>6
    <3> QED BY <1>4, <1>5, <2>9, <3>1, <3>2
  <2> QED BY <2>6, <2>7, <2>8
<1> QED BY <1>2, <1>4, <1>7, <1>8, <1>9, Zenon DEF AheadOf

(* The next byte between rows.                                             *)
BetweenNext(list, w, mid, c, n, here) ==
  /\ w[here + 1] \in {"_", ",", "]", "{"}
  /\ w[here + 1] = "]" =>
       /\ \A i \in 3..Len(w) : i > RowsEnd(list, n) + 2 => w[i] \in {"_", ",", "]"}
       /\ c = Len(mid) => n = Len(list)
  /\ w[here + 1] = "{" =>
       n \in 0..(Len(list) - 1) /\ here = From(list, n) /\ From(list, n) < 2 + c

LEMMA BetweenByte ==
  ASSUME NEW list, NEW w, NEW mid, NEW c, Wired(list, w, mid, c),
         NEW n, NEW here, BetweenAt(list, w, c, n, here), here < Len(w)
  PROVE  BetweenNext(list, w, mid, c, n, here)
<1>1. /\ list \in Seq(Seq(Bytes)) /\ w \in Seq(Bytes) /\ mid \in Seq(Bytes)
      /\ c \in 0..Len(mid) /\ 2 + c <= Len(w)
      /\ w[2] \in {"_", "]"} /\ (w[2] = "_" \/ Len(mid) = 0)
      /\ \A i \in 1..Len(w) : i > 2 + c => w[i] \in {"_", "]"}
  BY Zenon DEF Wired, WireIs
<1>2. Len(list) \in Nat /\ Len(w) \in Nat /\ Len(mid) \in Nat
  <2>1. list \in Seq(Seq(Bytes)) /\ w \in Seq(Bytes) /\ mid \in Seq(Bytes) BY <1>1, Zenon
  <2> QED BY ONLY <2>1
<1>3. c \in Nat /\ c <= Len(mid) /\ 2 + c <= Len(w)
  <2>1. c \in 0..Len(mid) /\ 2 + c <= Len(w) BY <1>1, Zenon
  <2> QED BY ONLY <1>2, <2>1
<1>4. PICK read : read = RowsEnd(list, n) OBVIOUS
<1>5. PICK from : from = From(list, n) OBVIOUS
<1>6. PICK p : p = here + 1 OBVIOUS
<1>7. /\ n \in 0..Len(list) /\ here \in Nat /\ here >= 1 /\ read <= c
      /\ n > 0 => read + 2 <= here
      /\ \A i \in 3..here : i > read + 2 => w[i] \in {"_", ","}
  BY <1>4, Zenon DEF BetweenAt
<1>16. /\ n \in 0..Len(list) /\ here \in Nat /\ here >= 1 /\ read <= c
       /\ n > 0 => read + 2 <= here
  BY <1>7, Zenon
<1>8. /\ read \in Nat
      /\ n = Len(list) => read = c /\ c = Len(mid)
      /\ n < Len(list) =>
           /\ \A i \in 3..(2 + c) : i > read + 2 /\ i <= from => w[i] \in {"_", ","}
           /\ from < 2 + c => w[from + 1] = "{"
           /\ c = Len(mid) => from < 2 + c
  <2>1. n \in 0..Len(list) /\ RowsEnd(list, n) <= c BY <1>4, <1>16, Zenon
  <2>2. AheadOf(list, w, mid, c, n) BY <2>1, Ahead
  <2> QED BY <1>4, <1>5, <2>2, Zenon DEF AheadOf
<1>17. /\ read \in Nat /\ (n = Len(list) => read = c /\ c = Len(mid))
       /\ n < Len(list) /\ c = Len(mid) => from < 2 + c
  BY <1>8, Zenon
<1>9. RowsEnd(list, 0) = 0
  <2>1. list \in Seq(Seq(Bytes)) BY <1>1, Zenon
  <2> QED BY <2>1, JoinedShape
<1>10. p \in Nat /\ p >= 2 /\ p \in 1..Len(w) /\ here = p - 1 BY <1>2, <1>6, <1>16
<1>11. p >= 3 => p > read + 2
  <2> SUFFICES ASSUME p >= 3 PROVE p > read + 2 OBVIOUS
  <2>1. CASE n = 0
    <3>1. read = 0 BY <1>4, <1>9, <2>1, Zenon
    <3> QED BY <1>10, <3>1
  <2>2. CASE n > 0 BY <1>16, <1>17, <1>10, <2>2
  <2> QED BY <1>2, <1>16, <2>1, <2>2
<1>12. from \in Nat /\ from >= read + 2 /\ (n > 0 => from = read + 4) /\ (n = 0 => from = 2)
  <2>1. from = 2 + read + Separator(n) BY <1>4, <1>5, Zenon DEF From
  <2>2. n = 0 => Separator(n) = 0 /\ read = 0 BY <1>4, <1>9, Zenon DEF Separator
  <2>3. n > 0 => Separator(n) = 2 BY <1>16 DEF Separator
  <2>4. n = 0 \/ n > 0 BY <1>2, <1>16
  <2> QED BY <1>17, <2>1, <2>2, <2>3, <2>4
<1>13. n < Len(list) /\ from < 2 + c => here <= from
  <2> SUFFICES ASSUME n < Len(list), from < 2 + c, ~(here <= from) PROVE FALSE OBVIOUS
  <2>1. from + 1 \in 3..here /\ from + 1 > read + 2 BY <1>16, <1>17, <1>12
  <2>2. w[from + 1] \in {"_", ","} BY <1>7, <2>1, Zenon
  <2>3. w[from + 1] = "{" BY <1>8, Zenon
  <2> QED BY <2>2, <2>3
<1>14. CASE p <= 2 + c /\ p >= 3
  <2>1. p \in 3..(2 + c) /\ p > read + 2 BY <1>3, <1>10, <1>11, <1>14
  <2>2. n < Len(list)
    <3>1. n # Len(list) BY <1>3, <1>17, <2>1
    <3> QED BY <1>2, <1>16, <3>1
  <2>3. CASE p <= from
    <3>1. w[p] \in {"_", ","} BY <1>8, <2>1, <2>2, <2>3, Zenon
    <3>2. w[p] # "]" /\ w[p] # "{" BY <3>1
    <3>3. w[p] \in {"_", ",", "]", "{"} BY <3>1
    <3> QED BY <1>6, <3>2, <3>3, Zenon DEF BetweenNext
  <2>4. CASE p > from
    <3>1. from < 2 + c BY <1>12, <1>14, <1>10, <1>3, <2>4
    <3>2. here = from BY <1>10, <1>12, <1>13, <2>2, <2>4, <3>1
    <3>3. w[p] = "{" BY <1>6, <1>8, <2>2, <3>1, <3>2, Zenon
    <3>4. n \in 0..(Len(list) - 1) BY <1>2, <1>16, <2>2
    <3>5. w[p] \in {"_", ",", "]", "{"} /\ w[p] # "]" BY <3>3
    <3> QED BY <1>5, <1>6, <3>1, <3>2, <3>4, <3>5, Zenon DEF BetweenNext
  <2>5. p <= from \/ p > from BY <1>10, <1>12
  <2> QED BY <2>3, <2>4, <2>5, Zenon
<1>15. CASE ~(p <= 2 + c /\ p >= 3)
  <2>1. w[p] \in {"_", "]"}
    <3>1. CASE p = 2 BY <1>1, <3>1
    <3>2. CASE p > 2 + c BY <1>1, <1>10, <3>2
    <3>3. p = 2 \/ p > 2 + c BY ONLY <1>3, <1>10, <1>15
    <3> QED BY <3>1, <3>2, <3>3, Zenon
  <2>2. ASSUME w[p] = "]"
        PROVE /\ \A i \in 3..Len(w) : i > read + 2 => w[i] \in {"_", ",", "]"}
              /\ c = Len(mid) => n = Len(list)
    <3>1. p > 2 + c \/ (p = 2 /\ c = 0)
      <4>1. CASE p = 2
        <5>1. w[2] # "_" BY <2>2, <4>1
        <5>2. Len(mid) = 0 BY <1>1, <5>1, Zenon
        <5> QED BY <1>3, <4>1, <5>2
      <4> QED BY <1>3, <1>10, <1>15, <4>1
    <3>2. ASSUME NEW i \in 3..Len(w), i > read + 2 PROVE w[i] \in {"_", ",", "]"}
      <4>1. CASE i <= here
        <5>1. i \in 3..here BY <1>16, <4>1
        <5>2. w[i] \in {"_", ","} BY <1>7, <3>2, <5>1, Zenon
        <5> QED BY <5>2
      <4>2. CASE ~(i <= here)
        <5>1. i \in 1..Len(w) /\ i > 2 + c BY <1>2, <1>3, <1>10, <3>1, <4>2
        <5>2. w[i] \in {"_", "]"} BY <1>1, <5>1, Zenon
        <5> QED BY <5>2
      <4> QED BY <4>1, <4>2
    <3>3. ASSUME c = Len(mid), n # Len(list) PROVE FALSE
      <4>1. n < Len(list) BY <1>2, <1>16, <3>3
      <4>2. from < 2 + c BY <1>17, <3>3, <4>1
      <4>3. here <= from BY <1>13, <4>1, <4>2
      <4> QED BY ONLY <1>3, <1>10, <1>12, <1>17, <3>1, <4>2, <4>3
    <3> QED BY <3>2, <3>3
  <2>3. w[p] # "{" /\ w[p] \in {"_", ",", "]", "{"} BY <2>1
  <2> QED BY <1>4, <1>6, <2>2, <2>3, Zenon DEF BetweenNext
<1> QED BY <1>14, <1>15

(* White space and commas leave the scanner between rows.                  *)
LEMMA BetweenSkip ==
  ASSUME NEW list, NEW w, NEW mid, NEW c, Wired(list, w, mid, c),
         NEW n, NEW here, BetweenAt(list, w, c, n, here), w[here + 1] \in {"_", ","}
  PROVE  BetweenAt(list, w, c, n, here + 1)
<1>1. list \in Seq(Seq(Bytes)) BY DEF Wired
<1>2. Len(list) \in Nat BY ONLY <1>1
<1>3. PICK read : read = RowsEnd(list, n) OBVIOUS
<1>4. /\ n \in 0..Len(list) /\ here \in Nat /\ here >= 1 /\ read <= c
      /\ n > 0 => read + 2 <= here
      /\ \A i \in 3..here : i > read + 2 => w[i] \in {"_", ","}
  BY <1>3, Zenon DEF BetweenAt
<1>8. n \in 0..Len(list) /\ here \in Nat /\ here >= 1 /\ (n > 0 => read + 2 <= here)
  BY <1>4, Zenon
<1>5. read \in Nat BY <1>1, <1>3, <1>8, JoinedShape
<1>6. here + 1 \in Nat /\ here + 1 >= 1 /\ (n > 0 => read + 2 <= here + 1) BY ONLY <1>5, <1>8
<1>7. ASSUME NEW i \in 3..(here + 1), i > read + 2 PROVE w[i] \in {"_", ","}
  <2>1. i = here + 1 \/ i \in 3..here
    <3>1. i \in 3..(here + 1) OBVIOUS
    <3> QED BY ONLY <1>8, <3>1
  <2> QED BY <1>4, <1>7, <2>1, Zenon
<1> QED BY <1>3, <1>4, <1>6, <1>7, Zenon DEF BetweenAt

(* The bytes end between rows: if these are all of an export, the rows are *)
(* all of the file.                                                        *)
LEMMA BetweenEnd ==
  ASSUME NEW list, NEW w, NEW mid, NEW c, Wired(list, w, mid, c),
         NEW n, BetweenAt(list, w, c, n, Len(w)), c = Len(mid)
  PROVE  n = Len(list)
<1>1. /\ list \in Seq(Seq(Bytes)) /\ w \in Seq(Bytes) /\ mid \in Seq(Bytes)
      /\ c \in 0..Len(mid) /\ 2 + c <= Len(w)
  BY Zenon DEF Wired, WireIs
<1>2. Len(list) \in Nat /\ Len(w) \in Nat /\ c \in Nat BY <1>1
<1>3. /\ n \in 0..Len(list) /\ RowsEnd(list, n) <= c
      /\ \A i \in 3..Len(w) : i > RowsEnd(list, n) + 2 => w[i] \in {"_", ","}
  BY Zenon DEF BetweenAt
<1>9. n \in 0..Len(list) /\ RowsEnd(list, n) <= c BY <1>3, Zenon
<1> SUFFICES ASSUME n < Len(list) PROVE FALSE BY <1>2, <1>9
<1>4. PICK from : from = From(list, n) OBVIOUS
<1>10. AheadOf(list, w, mid, c, n) BY <1>9, Ahead
<1>5. from < 2 + c /\ w[from + 1] = "{" /\ RowsEnd(list, n) \in Nat
  BY <1>4, <1>10, Zenon DEF AheadOf
<1>11. from < 2 + c /\ RowsEnd(list, n) \in Nat BY <1>5, Zenon
<1>6. from \in Nat /\ from >= RowsEnd(list, n) + 2 BY <1>4, <1>11 DEF From, Separator
<1>7. from + 1 \in 3..Len(w) /\ from + 1 > RowsEnd(list, n) + 2 BY <1>1, <1>2, <1>11, <1>6
<1>8. w[from + 1] \in {"_", ","} BY <1>3, <1>7, Zenon
<1> QED BY <1>5, <1>8

(* The numbers of a scanner in an object.                                  *)
LEMMA ObjectFacts ==
  ASSUME NEW list, NEW w, NEW mid, NEW c, Wired(list, w, mid, c),
         NEW n, NEW here, NEW taken, NEW d, NEW s, NEW x,
         ObjectAt(list, mid, c, n, here, taken, d, s, x)
  PROVE  /\ list[n + 1] \in Seq(Bytes) /\ Encode(list[n + 1]) \in Seq(Bytes)
         /\ From(list, n) \in Nat /\ Len(taken) \in Nat /\ c \in Nat /\ 2 + c <= Len(w)
         /\ here \in Nat /\ Len(mid) \in Nat /\ Len(w) \in Nat
         /\ n \in 0..Len(list) /\ n + 1 \in 0..Len(list)
         /\ RowsEnd(list, n + 1) + 2 = From(list, n) + Len(Encode(list[n + 1]))
         /\ RowsEnd(list, n + 1) \in Nat /\ RowsEnd(list, n + 1) <= Len(mid)
         /\ d \in 0..1 /\ s \in BOOLEAN /\ x \in BOOLEAN /\ (x = TRUE => s = TRUE)
         /\ here <= 2 + c => Len(taken) < Len(Encode(list[n + 1]))
<1>1. /\ list \in Seq(Seq(Bytes)) /\ w \in Seq(Bytes) /\ mid \in Seq(Bytes) /\ mid = Joined(list)
      /\ c \in 0..Len(mid) /\ 2 + c <= Len(w)
  BY Zenon DEF Wired, WireIs
<1>2. /\ n \in 0..(Len(list) - 1) /\ taken \in Seq(Bytes)
      /\ here = From(list, n) + Len(taken)
      /\ here <= 2 + c => ScanAt(list[n + 1], Len(taken), d, s, x)
      /\ here > 2 + c => d = 1 /\ s \in BOOLEAN /\ x \in BOOLEAN /\ (x = TRUE => s = TRUE)
  BY Zenon DEF ObjectAt
<1>3. /\ Len(list) \in Nat /\ Len(w) \in Nat /\ Len(mid) \in Nat /\ Len(taken) \in Nat
      /\ c \in Nat /\ n \in 0..Len(list) /\ n + 1 \in 0..Len(list) /\ n + 1 \in 1..Len(list)
  <2>1. n \in 0..(Len(list) - 1) /\ taken \in Seq(Bytes) BY <1>2, Zenon
  <2> QED BY ONLY <1>1, <2>1
<1>4. PICK row : row = list[n + 1] OBVIOUS
<1>5. PICK e : e = Encode(row) OBVIOUS
<1>6. row \in Seq(Bytes) BY ONLY <1>1, <1>3, <1>4
<1>7. e \in Seq(Bytes) BY ONLY <1>5, <1>6, EncodeShape
<1>8. Len(e) \in Nat BY ONLY <1>7
<1>9. /\ RowsEnd(list, n) \in Nat
      /\ RowsEnd(list, n + 1) = RowsEnd(list, n) + Separator(n) + Len(e)
      /\ RowsEnd(list, n + 1) <= Len(mid)
  <2>1. n \in 0..(Len(list) - 1) BY <1>2, Zenon
  <2>2. Follows(Joined(list), list, n, Encode(list[n + 1])) BY ONLY <1>1, <2>1, JoinedItems
  <2>3. Follows(mid, list, n, e) BY <1>1, <1>4, <1>5, <2>2, Zenon
  <2> QED BY <2>3, Zenon DEF Follows
<1>10. Separator(n) \in Nat BY DEF Separator
<1>11. From(list, n) = 2 + RowsEnd(list, n) + Separator(n) BY Zenon DEF From
<1>12. From(list, n) \in Nat BY ONLY <1>9, <1>10, <1>11
<1>13. RowsEnd(list, n + 1) + 2 = From(list, n) + Len(e) /\ RowsEnd(list, n + 1) \in Nat
  BY ONLY <1>8, <1>9, <1>10, <1>11
<1>14. here = From(list, n) + Len(taken) BY <1>2, Zenon
<1>15. here \in Nat BY ONLY <1>3, <1>12, <1>14
<1>16. here <= 2 + c \/ here > 2 + c BY ONLY <1>3, <1>15
<1>17. CASE here <= 2 + c
  <2>1. ScanAt(row, Len(taken), d, s, x) BY <1>2, <1>4, <1>17, Zenon
  <2>3. Len(taken) \in Nat BY <1>3, Zenon
  <2>4. ScanBounds(row, Len(taken), d, s, x) BY ONLY <1>6, <2>1, <2>3, ScanRange
  <2>2. /\ Len(taken) < Len(Encode(row)) /\ d \in 0..1 /\ s \in BOOLEAN /\ x \in BOOLEAN
        /\ x = TRUE => s = TRUE
    BY <2>4, Zenon DEF ScanBounds
  <2> QED BY <1>1, <1>3, <1>4, <1>5, <1>6, <1>7, <1>9, <1>12, <1>13, <1>15, <2>2, Zenon
<1>18. CASE here > 2 + c
  <2>1. ~(here <= 2 + c) BY ONLY <1>3, <1>15, <1>18
  <2>2. 1 \in 0..1 OBVIOUS
  <2> QED BY <1>1, <1>2, <1>3, <1>4, <1>5, <1>6, <1>7, <1>9, <1>12, <1>13, <1>15, <1>18, <2>1, <2>2, Zenon
<1> QED BY <1>16, <1>17, <1>18, Zenon

(* The bytes end in an object: not if they are all of an export that the   *)
(* size limit has not cut.                                                 *)
LEMMA ObjectEnd ==
  ASSUME NEW list, NEW w, NEW mid, NEW c, Wired(list, w, mid, c),
         NEW n, NEW here, NEW taken, NEW d, NEW s, NEW x,
         ObjectAt(list, mid, c, n, here, taken, d, s, x), here = Len(w)
  PROVE  c < Len(mid)
<1>1. /\ From(list, n) \in Nat /\ Len(taken) \in Nat /\ c \in Nat /\ 2 + c <= Len(w)
      /\ here \in Nat /\ Len(mid) \in Nat /\ Len(w) \in Nat
      /\ RowsEnd(list, n + 1) + 2 = From(list, n) + Len(Encode(list[n + 1]))
      /\ RowsEnd(list, n + 1) \in Nat /\ RowsEnd(list, n + 1) <= Len(mid)
      /\ here <= 2 + c => Len(taken) < Len(Encode(list[n + 1]))
  BY ObjectFacts, Zenon
<1>2. here = From(list, n) + Len(taken) /\ (here > 2 + c => c < Len(mid))
  BY Zenon DEF ObjectAt
<1>3. PICK size : size = Len(Encode(list[n + 1])) OBVIOUS
<1>4. Encode(list[n + 1]) \in Seq(Bytes) BY ObjectFacts, Zenon
<1>5. size \in Nat BY <1>3, <1>4
<1>6. CASE here <= 2 + c
  <2>1. Len(taken) < size /\ RowsEnd(list, n + 1) + 2 = From(list, n) + size
    BY <1>1, <1>3, <1>6, Zenon
  <2>2. here = Len(w) OBVIOUS
  <2> QED BY ONLY <1>1, <1>2, <1>5, <1>6, <2>1, <2>2
<1>7. CASE here > 2 + c BY <1>2, <1>7, Zenon
<1> QED BY <1>1, <1>6, <1>7

LEMMA EmptyBytes == <<>> \in Seq(Bytes) /\ Len(<<>>) = 0
OBVIOUS

(* "{" begins the object of the next row.                                  *)
LEMMA ObjectOpen ==
  ASSUME NEW list, NEW w, NEW mid, NEW c, Wired(list, w, mid, c),
         NEW n, NEW here, BetweenAt(list, w, c, n, here), here < Len(w), w[here + 1] = "{"
  PROVE  ObjectAt(list, mid, c, n, here, <<>>, 0, FALSE, FALSE)
<1>1. n \in 0..(Len(list) - 1) /\ here = From(list, n) /\ From(list, n) < 2 + c
  BY BetweenByte, Zenon DEF BetweenNext
<1>2. RowsEnd(list, n) <= c /\ here \in Nat BY Zenon DEF BetweenAt
<1>3. <<>> \in Seq(Bytes) /\ Len(<<>>) = 0 BY EmptyBytes, Zenon
<1>4. here = From(list, n) + Len(<<>>)
  <2>1. here = From(list, n) BY <1>1, Zenon
  <2> QED BY ONLY <1>2, <1>3, <2>1
<1>5. ScanAt(list[n + 1], Len(<<>>), 0, FALSE, FALSE)
  BY <1>3, Zenon DEF ScanAt, BeforeObject
<1>6. \A i \in 1..Len(<<>>) : <<>>[i] = Encode(list[n + 1])[i]
  <2>1. \A i : i \notin 1..0 BY ONLY TRUE
  <2> QED BY <1>3, <2>1, Zenon
<1>7. c \in Nat
  <2>1. c \in 0..Len(mid) /\ mid \in Seq(Bytes) BY Zenon DEF Wired, WireIs
  <2> QED BY ONLY <2>1
<1>8. ~(here > 2 + c)
  <2>1. here < 2 + c BY <1>1, Zenon
  <2> QED BY ONLY <1>2, <1>7, <2>1
<1> QED BY <1>1, <1>2, <1>3, <1>4, <1>5, <1>6, <1>8, Zenon DEF ObjectAt

(* A byte read in an object: the scanner moves on as ScanAt says, or is    *)
(* behind the size limit, where nothing can complete the object.           *)
ObjectNext(list, w, mid, c, n, here, taken, d, s, x) ==
  LET byte == w[here + 1] IN
  /\ s = TRUE =>
       ObjectAt(list, mid, c, n, here + 1, Append(taken, byte), d, StringAfter(byte, x), EscapeAfter(byte, x))
  /\ s = FALSE /\ ~(byte = "}" /\ d = 1) =>
       ObjectAt(list, mid, c, n, here + 1, Append(taken, byte), DepthAfter(byte, d), byte = "q", x)
  /\ s = FALSE /\ byte = "}" /\ d = 1 =>
       /\ Append(taken, byte) = Encode(list[n + 1])
       /\ BetweenAt(list, w, c, n + 1, here + 1)

LEMMA ObjectKept ==
  ASSUME NEW list, NEW w, NEW mid, NEW c, Wired(list, w, mid, c),
         NEW n, NEW here, NEW taken, NEW d, NEW s, NEW x,
         ObjectAt(list, mid, c, n, here, taken, d, s, x), here < 2 + c
  PROVE  ObjectNext(list, w, mid, c, n, here, taken, d, s, x)
<1>1. /\ list \in Seq(Seq(Bytes)) /\ w \in Seq(Bytes) /\ mid = Joined(list)
      /\ \A i \in 1..c : w[2 + i] = mid[i]
  BY Zenon DEF Wired, WireIs
<1>2. PICK row : row = list[n + 1] OBVIOUS
<1>3. PICK e : e = Encode(row) OBVIOUS
<1>4. PICK byte : byte = w[here + 1] OBVIOUS
<1>5. PICK more : more = Append(taken, byte) OBVIOUS
<1>6. PICK size : size = Len(taken) OBVIOUS
<1>7. /\ row \in Seq(Bytes) /\ e \in Seq(Bytes)
      /\ From(list, n) \in Nat /\ size \in Nat /\ c \in Nat /\ 2 + c <= Len(w)
      /\ here \in Nat /\ Len(mid) \in Nat /\ Len(w) \in Nat
      /\ n \in 0..Len(list) /\ n + 1 \in 0..Len(list)
      /\ RowsEnd(list, n + 1) + 2 = From(list, n) + Len(e)
      /\ RowsEnd(list, n + 1) \in Nat /\ RowsEnd(list, n + 1) <= Len(mid)
      /\ here <= 2 + c => size < Len(e)
  BY <1>2, <1>3, <1>6, ObjectFacts, Zenon
<1>8. /\ n \in 0..(Len(list) - 1) /\ taken \in Seq(Bytes)
      /\ RowsEnd(list, n) <= c /\ From(list, n) < 2 + c
      /\ here = From(list, n) + size
      /\ here <= 2 + c => /\ ScanAt(row, size, d, s, x)
                          /\ \A i \in 1..size : taken[i] = e[i]
  BY <1>2, <1>3, <1>6, Zenon DEF ObjectAt
<1>9. /\ here < 2 + c /\ here <= 2 + c /\ here + 1 <= 2 + c /\ ~(here + 1 > 2 + c)
  <2>1. here < 2 + c OBVIOUS
  <2> QED BY ONLY <1>7, <2>1
<1>10. ScanAt(row, size, d, s, x) /\ (\A i \in 1..size : taken[i] = e[i]) /\ size < Len(e)
  BY <1>7, <1>8, <1>9, Zenon
<1>11. byte = e[size + 1]
  <2>1. Follows(Joined(list), list, n, Encode(list[n + 1]))
    <3>1. n \in 0..(Len(list) - 1) BY <1>8, Zenon
    <3> QED BY ONLY <1>1, <3>1, JoinedItems
  <2>2. \A i \in 1..Len(e) : mid[RowsEnd(list, n) + Separator(n) + i] = e[i]
    BY <1>1, <1>2, <1>3, <2>1, Zenon DEF Follows
  <2>3. From(list, n) = 2 + RowsEnd(list, n) + Separator(n) BY Zenon DEF From
  <2>4. RowsEnd(list, n) \in Nat /\ Separator(n) \in Nat
    <3>1. n \in 0..Len(list) BY <1>7, Zenon
    <3>2. RowsEnd(list, n) \in Nat BY ONLY <1>1, <3>1, JoinedShape
    <3>3. Separator(n) \in Nat BY ONLY TRUE DEF Separator
    <3> QED BY <3>2, <3>3, Zenon
  <2>5. PICK k : k = RowsEnd(list, n) + Separator(n) + (size + 1) OBVIOUS
  <2>6. here = From(list, n) + size BY <1>8, Zenon
  <2>7. k \in 1..c /\ 2 + k = here + 1 /\ size + 1 \in 1..Len(e)
    <3>1. Len(e) \in Nat BY <1>7
    <3>2. size < Len(e) BY <1>10, Zenon
    <3>3. size \in Nat /\ c \in Nat /\ here \in Nat BY <1>7, Zenon
    <3>4. k = (here - 2) + 1 BY ONLY <2>3, <2>4, <2>5, <2>6, <3>3
    <3>5. k >= 1 BY ONLY <2>4, <2>5, <3>3
    <3> QED BY ONLY <1>9, <3>1, <3>2, <3>3, <3>4, <3>5
  <2>8. mid[k] = e[size + 1] BY <2>2, <2>5, <2>7, Zenon
  <2>9. w[2 + k] = mid[k] BY <1>1, <2>7, Zenon
  <2> QED BY <1>4, <2>7, <2>8, <2>9, Zenon
<1>12. /\ more \in Seq(Bytes) /\ Len(more) = size + 1
       /\ \A i \in 1..(size + 1) : more[i] = e[i]
  <2>1. here + 1 \in 1..Len(w) BY ONLY <1>7, <1>9
  <2>2. byte \in Bytes BY ONLY <1>1, <1>4, <2>1
  <2>3. taken \in Seq(Bytes) BY <1>8, Zenon
  <2>4. /\ more \in Seq(Bytes) /\ Len(more) = size + 1 /\ more[size + 1] = byte
        /\ \A i \in 1..size : more[i] = taken[i]
    BY ONLY <1>5, <1>6, <2>2, <2>3, AppendProperties
  <2>5. ASSUME NEW i \in 1..(size + 1) PROVE more[i] = e[i]
    <3>1. i \in 1..size \/ i = size + 1 BY ONLY <1>7, i \in 1..(size + 1)
    <3> QED BY <1>10, <1>11, <2>4, <3>1, Zenon
  <2> QED BY <2>4, <2>5, Zenon
<1>13. here + 1 = From(list, n) + Len(more)
  <2>1. here = From(list, n) + size BY <1>8, Zenon
  <2>2. Len(more) = size + 1 BY <1>12, Zenon
  <2> QED BY ONLY <1>7, <2>1, <2>2
<1>14. ASSUME NEW d1, NEW s1, NEW x1, ScanAt(row, size + 1, d1, s1, x1)
       PROVE ObjectAt(list, mid, c, n, here + 1, more, d1, s1, x1)
  BY <1>2, <1>3, <1>8, <1>9, <1>12, <1>13, <1>14, Zenon DEF ObjectAt
<1>15. s = TRUE =>
         ObjectAt(list, mid, c, n, here + 1, more, d, StringAfter(byte, x), EscapeAfter(byte, x))
  <2> SUFFICES ASSUME s = TRUE
               PROVE ObjectAt(list, mid, c, n, here + 1, more, d, StringAfter(byte, x), EscapeAfter(byte, x))
    OBVIOUS
  <2>1. ScanAt(row, size + 1, d, StringAfter(byte, x), EscapeAfter(byte, x))
    <3>1. byte = Encode(row)[size + 1] /\ row \in Seq(Bytes) /\ size \in Nat
          /\ ScanAt(row, size, d, s, x) /\ s = TRUE
      BY <1>3, <1>7, <1>10, <1>11, Zenon
    <3> QED BY ONLY <3>1, ScanInString
  <2> QED BY <1>14, <2>1, Zenon
<1>16. s = FALSE /\ ~(byte = "}" /\ d = 1) =>
         ObjectAt(list, mid, c, n, here + 1, more, DepthAfter(byte, d), byte = "q", x)
  <2> SUFFICES ASSUME s = FALSE, ~(byte = "}" /\ d = 1)
               PROVE ObjectAt(list, mid, c, n, here + 1, more, DepthAfter(byte, d), byte = "q", x)
    BY Zenon
  <2>1. ScanAt(row, size + 1, DepthAfter(byte, d), byte = "q", x)
    BY <1>3, <1>7, <1>10, <1>11, ScanOutside, Zenon
  <2> QED BY <1>14, <2>1, Zenon
<1>17. s = FALSE /\ byte = "}" /\ d = 1 => more = e /\ BetweenAt(list, w, c, n + 1, here + 1)
  <2> SUFFICES ASSUME s = FALSE, byte = "}", d = 1
               PROVE more = e /\ BetweenAt(list, w, c, n + 1, here + 1)
    BY Zenon
  <2>1. size + 1 = Len(e) BY <1>3, <1>7, <1>10, <1>11, ScanOutside, Zenon
  <2>2. more \in Seq(Bytes) /\ e \in Seq(Bytes) /\ Len(more) = Len(e)
        /\ \A i \in 1..Len(more) : more[i] = e[i]
    BY <1>7, <1>12, <2>1, Zenon
  <2>3. more = e BY ONLY <2>2, SeqEqual
  <2>4. here + 1 = RowsEnd(list, n + 1) + 2
    <3>1. here = From(list, n) + size BY <1>8, Zenon
    <3>2. RowsEnd(list, n + 1) + 2 = From(list, n) + (size + 1) BY <1>7, <2>1, Zenon
    <3> QED BY ONLY <1>7, <3>1, <3>2
  <2>5. /\ here + 1 \in Nat /\ here + 1 >= 1 /\ RowsEnd(list, n + 1) <= c
        /\ RowsEnd(list, n + 1) + 2 <= here + 1
    BY ONLY <1>7, <1>9, <2>4
  <2>6. ASSUME NEW i \in 3..(here + 1), i > RowsEnd(list, n + 1) + 2 PROVE FALSE
    BY ONLY <1>7, <2>4, <2>6
  <2> QED BY <1>7, <2>3, <2>5, <2>6, Zenon DEF BetweenAt
<1> QED BY <1>2, <1>3, <1>4, <1>5, <1>15, <1>16, <1>17, Zenon DEF ObjectNext

(* Behind the size limit there are only white space and "]".               *)
LEMMA ObjectBeyond ==
  ASSUME NEW list, NEW w, NEW mid, NEW c, Wired(list, w, mid, c),
         NEW n, NEW here, NEW taken, NEW d, NEW s, NEW x,
         ObjectAt(list, mid, c, n, here, taken, d, s, x), 2 + c <= here, here < Len(w)
  PROVE  ObjectNext(list, w, mid, c, n, here, taken, d, s, x)
<1>1. /\ w \in Seq(Bytes)
      /\ \A i \in 1..Len(w) : i > 2 + c => w[i] \in {"_", "]"}
  BY Zenon DEF Wired, WireIs
<1>2. PICK size : size = Len(taken) OBVIOUS
<1>3. PICK byte : byte = w[here + 1] OBVIOUS
<1>4. PICK more : more = Append(taken, byte) OBVIOUS
<1>5. /\ From(list, n) \in Nat /\ size \in Nat /\ c \in Nat /\ here \in Nat
      /\ Len(mid) \in Nat /\ Len(w) \in Nat
      /\ RowsEnd(list, n + 1) + 2 = From(list, n) + Len(Encode(list[n + 1]))
      /\ RowsEnd(list, n + 1) \in Nat /\ RowsEnd(list, n + 1) <= Len(mid)
      /\ Encode(list[n + 1]) \in Seq(Bytes) /\ list[n + 1] \in Seq(Bytes)
      /\ d \in 0..1 /\ s \in BOOLEAN /\ x \in BOOLEAN /\ (x = TRUE => s = TRUE)
      /\ here <= 2 + c => size < Len(Encode(list[n + 1]))
  BY <1>2, ObjectFacts, Zenon
<1>6. /\ n \in 0..(Len(list) - 1) /\ taken \in Seq(Bytes)
      /\ RowsEnd(list, n) <= c /\ From(list, n) < 2 + c
      /\ here = From(list, n) + size
      /\ here <= 2 + c => ScanAt(list[n + 1], size, d, s, x)
      /\ here > 2 + c => d = 1 /\ c < Len(mid)
  BY <1>2, Zenon DEF ObjectAt
<1>7. here >= 2 + c /\ here < Len(w) /\ here = From(list, n) + size /\ From(list, n) < 2 + c
  BY <1>6, Zenon
<1>8. d = 1 /\ c < Len(mid)
  <2>1. CASE here <= 2 + c
    <3>1. ScanAt(list[n + 1], size, d, s, x) BY <1>6, <2>1, Zenon
    <3>2. size # 0 BY ONLY <1>5, <1>7
    <3>8. list[n + 1] \in Seq(Bytes) /\ size \in Nat BY <1>5, Zenon
    <3>9. size # 0 => d = 1
      <4>1. PICK row : row = list[n + 1] OBVIOUS
      <4>2. row \in Seq(Bytes) /\ ScanAt(row, size, d, s, x) BY <3>1, <3>8, <4>1, Zenon
      <4>3. size \in Nat BY <3>8, Zenon
      <4>4. ScanBounds(row, size, d, s, x) BY ONLY <4>2, <4>3, ScanRange
      <4> QED BY <4>4, Zenon DEF ScanBounds
    <3>3. d = 1 BY <3>2, <3>9, Zenon
    <3>4. PICK full : full = Len(Encode(list[n + 1])) OBVIOUS
    <3>5. full \in Nat BY ONLY <1>5, <3>4
    <3>6. size < full /\ RowsEnd(list, n + 1) + 2 = From(list, n) + full
      BY <1>5, <2>1, <3>4, Zenon
    <3>7. c < Len(mid) BY ONLY <1>5, <1>7, <2>1, <3>5, <3>6
    <3> QED BY <3>3, <3>7
  <2>2. CASE here > 2 + c BY <1>6, <2>2, Zenon
  <2>3. here <= 2 + c \/ here > 2 + c BY ONLY <1>5
  <2> QED BY <2>1, <2>2, <2>3, Zenon
<1>9. here + 1 \in 1..Len(w) /\ here + 1 > 2 + c /\ ~(here + 1 <= 2 + c)
  BY ONLY <1>5, <1>7
<1>10. byte \in {"_", "]"} BY <1>1, <1>3, <1>9, Zenon
<1>11. byte # "q" /\ byte # "b" /\ byte # "{" /\ byte # "}" BY ONLY <1>10
<1>12. more \in Seq(Bytes) /\ Len(more) = size + 1
  <2>3. w \in Seq(Bytes) BY <1>1, Zenon
  <2>1. byte \in Bytes BY ONLY <1>3, <1>9, <2>3
  <2>2. taken \in Seq(Bytes) BY <1>6, Zenon
  <2> QED BY ONLY <1>2, <1>4, <2>1, <2>2, AppendProperties
<1>13. here + 1 = From(list, n) + Len(more)
  <2>1. Len(more) = size + 1 BY <1>12, Zenon
  <2> QED BY ONLY <1>5, <1>7, <2>1
<1>14. ASSUME NEW d1, NEW s1, NEW x1, d1 = 1, s1 \in BOOLEAN, x1 \in BOOLEAN, x1 = TRUE => s1 = TRUE
       PROVE ObjectAt(list, mid, c, n, here + 1, more, d1, s1, x1)
  BY <1>6, <1>8, <1>9, <1>12, <1>13, <1>14, Zenon DEF ObjectAt
<1>15. s = TRUE =>
         ObjectAt(list, mid, c, n, here + 1, more, d, StringAfter(byte, x), EscapeAfter(byte, x))
  <2>1. StringAfter(byte, x) = TRUE BY <1>11, Zenon DEF StringAfter
  <2>2. StringAfter(byte, x) \in BOOLEAN /\ EscapeAfter(byte, x) \in BOOLEAN
    BY Zenon DEF StringAfter, EscapeAfter
  <2> QED BY <1>8, <1>14, <2>1, <2>2, Zenon
<1>16. s = FALSE =>
         ObjectAt(list, mid, c, n, here + 1, more, DepthAfter(byte, d), byte = "q", x)
  <2>1. DepthAfter(byte, d) = 1 BY <1>8, <1>11, Zenon DEF DepthAfter
  <2>2. (byte = "q") \in BOOLEAN OBVIOUS
  <2>3. s = FALSE => x \in BOOLEAN /\ ~(x = TRUE) BY <1>5, Zenon
  <2> QED BY <1>14, <2>1, <2>2, <2>3, Zenon
<1> QED BY <1>3, <1>4, <1>11, <1>15, <1>16, Zenon DEF ObjectNext

LEMMA ObjectByte ==
  ASSUME NEW list, NEW w, NEW mid, NEW c, Wired(list, w, mid, c),
         NEW n, NEW here, NEW taken, NEW d, NEW s, NEW x,
         ObjectAt(list, mid, c, n, here, taken, d, s, x), here < Len(w)
  PROVE  ObjectNext(list, w, mid, c, n, here, taken, d, s, x)
<1>1. here \in Nat /\ c \in Nat BY ObjectFacts, Zenon
<1>2. here < 2 + c \/ 2 + c <= here BY ONLY <1>1
<1>3. CASE here < 2 + c BY <1>3, ObjectKept, Zenon
<1>4. CASE 2 + c <= here BY <1>4, ObjectBeyond, Zenon
<1> QED BY <1>2, <1>3, <1>4, Zenon

-----------------------------------------------------------------------------
(* The invariant.                                                          *)

List == Requested(file, multiply)
Wire == Export(file, multiply)
Mid == Middle(file, multiply)
Cut == Kept(file, multiply)

Types ==
  /\ file \in Seq(Texts) /\ multiply \in BOOLEAN /\ body \in Seq(Bytes) /\ broken \in BOOLEAN
  /\ buffer \in Seq(Bytes)

(* The bytes are those of an export, or a first part of them.              *)
FromBank == Extends(Wire, body)

(* Whatever may have become of the export, next_row has returned its first *)
(* rows and is where ScanAt says.                                          *)
BankInv ==
  /\ Len(rows) \in 0..Len(List) /\ rows = SubSeq(List, 1, Len(rows))
  /\ mode = "start" => at = 0 /\ rows = <<>>
  /\ mode = "between" => BetweenAt(List, Wire, Cut, Len(rows), at)
  /\ mode = "object" =>
       ObjectAt(List, Mid, Cut, Len(rows), at, buffer, depth, inString, escape)
  /\ outcome = "error" => broken \/ Len(body) < Len(Wire) \/ Cut < Len(Mid)
  /\ outcome = "ok" =>
       /\ \A i \in 3..Len(body) :
            i > RowsEnd(List, Len(rows)) + 2 => body[i] \in {"_", ",", "]"}
       /\ Cut = Len(Mid) /\ Len(body) = Len(Wire) => Len(rows) = Len(List)

(* In another server's answer no object is found.                          *)
OtherInv ==
  /\ rows = <<>> /\ mode # "object" /\ outcome # "ok"
  /\ mode = "start" => \A i \in 1..at : body[i] # "["
  /\ mode = "between" =>
       \E i \in 1..at : /\ body[i] = "[" /\ \A k \in 1..(i - 1) : body[k] # "["
                        /\ \A k \in (i + 1)..at : body[k] \in {"_", ","}

IInv ==
  /\ Types /\ TypeOK
  /\ FromBank \/ body \in OtherBodies
  /\ FromBank => BankInv
  /\ body \in OtherBodies => OtherInv

LEMMA Constants ==
  ASSUME UNCHANGED wireVars
  PROVE  /\ List' = List /\ Wire' = Wire /\ Mid' = Mid /\ Cut' = Cut
         /\ FromBank' = FromBank /\ body' = body /\ broken' = broken
         /\ file' = file /\ multiply' = multiply
<1>1. file' = file /\ multiply' = multiply /\ body' = body /\ broken' = broken BY DEF wireVars
<1> QED BY <1>1, Zenon DEF List, Wire, Mid, Cut, FromBank

LEMMA WireIsWired ==
  ASSUME Types
  PROVE  Wired(List, Wire, Mid, Cut) /\ List \in Seq(Texts) /\ List \in Seq(Seq(Bytes))
<1>1. file \in Seq(Texts) /\ multiply \in BOOLEAN BY DEF Types
<1>2. List \in Seq(Texts) /\ List \in Seq(Seq(Bytes)) BY <1>1, RequestedType DEF List
<1>3. Mid = Joined(List) BY Zenon DEF Mid, List, Middle
<1>4. WireIs(Wire, Mid, Cut) BY <1>1, WireShape DEF Wire, Mid, Cut
<1> QED BY <1>2, <1>3, <1>4, Zenon DEF Wired

(* The next byte is the export's next one.                                 *)
LEMMA NextByte ==
  ASSUME Types, TypeOK, FromBank, More
  PROVE  /\ Byte = Wire[at + 1] /\ at < Len(Wire) /\ at + 1 \in 0..Len(body)
<1>1. body \in Seq(Bytes) /\ at \in 0..Len(body) BY DEF Types, TypeOK
<1>2. at < Len(body) BY DEF More
<1>3. Len(body) <= Len(Wire) /\ \A i \in 1..Len(body) : body[i] = Wire[i]
  BY DEF FromBank, Extends
<1>4. Wire \in Seq(Bytes) BY WireIsWired, Zenon DEF Wired, WireIs
<1>5. Len(body) \in Nat /\ Len(Wire) \in Nat BY <1>1, <1>4
<1>6. at + 1 \in 1..Len(body) /\ at < Len(Wire) /\ at + 1 \in 0..Len(body) BY <1>1, <1>2, <1>3, <1>5
<1> QED BY <1>3, <1>6, Zenon DEF Byte

LEMMA InitIInv == Init => IInv
<1> SUFFICES ASSUME Init PROVE IInv OBVIOUS
<1>1. file \in Seq(Texts)
  <2>1. file \in UNION {[1..m -> Texts] : m \in 0..MaxRows} BY DEF Init, BoundedSeq, SeqOf
  <2>2. PICK m \in 0..MaxRows : file \in [1..m -> Texts] BY <2>1
  <2>3. m \in Nat BY LimitAssumption
  <2> QED BY <2>2, <2>3, SeqDef
<1>2. multiply \in BOOLEAN /\ broken \in BOOLEAN BY DEF Init
<1>3. /\ at = 0 /\ mode = "start" /\ outcome = "reading"
      /\ depth = 0 /\ inString = FALSE /\ escape = FALSE /\ buffer = <<>> /\ rows = <<>>
  BY DEF Init
<1>4. Wire \in Seq(Bytes) BY <1>1, <1>2, WireShape, Zenon DEF Wire, WireIs
<1>5. \/ \E n \in 0..Len(Wire) : body = SubSeq(Wire, 1, n)
      \/ body \in OtherBodies
  BY DEF Init, Wire
<1>6. body \in Seq(Bytes) /\ (FromBank \/ body \in OtherBodies)
  <2>1. ASSUME NEW n \in 0..Len(Wire), body = SubSeq(Wire, 1, n)
        PROVE body \in Seq(Bytes) /\ FromBank
    <3>1. body \in Seq(Bytes) /\ Len(body) = n /\ \A i \in 1..n : body[i] = Wire[i]
      BY <1>4, <2>1, SubSeqFrom1
    <3>2. Len(body) <= Len(Wire) BY <1>4, <3>1
    <3> QED BY <3>1, <3>2 DEF FromBank, Extends
  <2>2. body \in OtherBodies => body \in Seq(Bytes) BY BytesAssumption
  <2> QED BY <1>5, <2>1, <2>2
<1>7. Types BY <1>1, <1>2, <1>3, <1>6, EmptyBytes, Zenon DEF Types
<1>8. Len(body) \in Nat /\ Len(buffer) = 0 BY <1>3, <1>6, EmptyBytes
<1>9. TypeOK
  <2>1. 0 \in 0..Len(body) /\ 0 \in 0..1 /\ 0 <= 0 BY <1>8
  <2>2. "start" # "ended" /\ "start" \in {"start", "between", "object", "ended"}
        /\ "reading" \in {"reading", "ok", "error"}
    OBVIOUS
  <2> QED BY <1>3, <1>8, <2>1, <2>2, Zenon DEF TypeOK
<1>10. BankInv
  <2>1. List \in Seq(Texts) BY <1>7, WireIsWired
  <2>2. Len(rows) = 0 BY <1>3, EmptyBytes, Zenon
  <2>3. Len(rows) \in 0..Len(List) BY <2>1, <2>2
  <2>4. SubSeq(List, 1, 0) = <<>>
    <3>1. SubSeq(List, 1, 0) \in Seq(Texts) /\ Len(SubSeq(List, 1, 0)) = 0 BY <2>1, SubSeqFrom1
    <3> QED BY <3>1
  <2>5. "start" # "between" /\ "start" # "object" /\ "reading" # "error" /\ "reading" # "ok" OBVIOUS
  <2> QED BY <1>3, <2>2, <2>3, <2>4, <2>5, Zenon DEF BankInv
<1>11. OtherInv
  <2>1. "start" # "between" /\ "start" # "object" /\ "reading" # "ok" OBVIOUS
  <2>2. \A i : i \notin 1..0 BY ONLY TRUE
  <2> QED BY <1>3, <2>1, <2>2, Zenon DEF OtherInv
<1> QED BY <1>6, <1>7, <1>9, <1>10, <1>11, Zenon DEF IInv

(* Behind the "[" of another server's answer is an item that is no object. *)
LEMMA OtherAhead ==
  ASSUME Types, TypeOK, body \in OtherBodies, OtherInv, mode = "between"
  PROVE  More /\ Byte # "]" /\ Byte # "{"
<1>1. body \in Seq(Bytes) /\ at \in 0..Len(body) BY DEF Types, TypeOK
<1>2. Len(body) \in Nat /\ DOMAIN body = 1..Len(body) /\ at \in Nat BY ONLY <1>1
<1>3. PICK i \in 1..at : /\ body[i] = "[" /\ \A k \in 1..(i - 1) : body[k] # "["
                         /\ \A k \in (i + 1)..at : body[k] \in {"_", ","}
  BY Zenon DEF OtherInv
<1>4. NoRowsIn(body) BY BytesAssumption
<1>5. i \in 1..Len(body) BY ONLY <1>1, <1>2, i \in 1..at
<1>6. PICK j \in DOMAIN body : /\ j > i /\ body[j] \notin {"_", ",", "]", "{"}
                               /\ \A k \in (i + 1)..(j - 1) : body[k] \in {"_", ","}
  BY <1>2, <1>3, <1>4, <1>5, Zenon DEF NoRowsIn
<1>7. j \in 1..Len(body) /\ j > i BY <1>2, <1>6, Zenon
<1>8. i \in 1..at OBVIOUS
<1>9. j > at
  <2> SUFFICES ASSUME ~(j > at) PROVE FALSE OBVIOUS
  <2>1. j \in (i + 1)..at BY ONLY <1>2, <1>7, <1>8, ~(j > at)
  <2>2. body[j] \in {"_", ","} BY <1>3, <2>1, Zenon
  <2>3. body[j] \in {"_", ",", "]", "{"} BY ONLY <2>2
  <2> QED BY <1>6, <2>3, Zenon
<1>10. at < Len(body) BY ONLY <1>2, <1>7, <1>9
<1>11. body[at + 1] # "]" /\ body[at + 1] # "{"
  <2>1. j = at + 1 \/ at + 1 \in (i + 1)..(j - 1) BY ONLY <1>2, <1>7, <1>8, <1>9
  <2>2. CASE j = at + 1
    <3>1. body[at + 1] \notin {"_", ",", "]", "{"} BY <1>6, <2>2, Zenon
    <3> QED BY ONLY <3>1
  <2>3. CASE at + 1 \in (i + 1)..(j - 1)
    <3>1. body[at + 1] \in {"_", ","} BY <1>6, <2>3, Zenon
    <3> QED BY ONLY <3>1
  <2> QED BY <2>1, <2>2, <2>3, Zenon
<1> QED BY <1>10, <1>11, Zenon DEF More, Byte

LEMMA EndOfBodyIInv == IInv /\ EndOfBody => IInv'
<1> SUFFICES ASSUME IInv, EndOfBody PROVE IInv' OBVIOUS
<1>1. Types /\ TypeOK /\ (FromBank \/ body \in OtherBodies) BY Zenon DEF IInv
<1>2. /\ mode # "ended" /\ ~More /\ mode' = "ended"
      /\ outcome' = IF broken \/ mode \in {"start", "object"} THEN "error" ELSE "ok"
      /\ UNCHANGED wireVars /\ UNCHANGED scanVars /\ rows' = rows /\ at' = at
  BY Zenon DEF EndOfBody, End
<1>3. /\ List' = List /\ Wire' = Wire /\ Mid' = Mid /\ Cut' = Cut /\ FromBank' = FromBank
      /\ body' = body /\ broken' = broken /\ file' = file /\ multiply' = multiply
  BY <1>2, Constants, Zenon
<1>4. depth' = depth /\ inString' = inString /\ escape' = escape /\ buffer' = buffer
  BY <1>2 DEF scanVars
<1>5. body \in Seq(Bytes) /\ at \in 0..Len(body) BY <1>1 DEF Types, TypeOK
<1>6. at = Len(body) /\ Len(body) \in Nat
  <2>1. ~(at < Len(body)) BY <1>2 DEF More
  <2> QED BY ONLY <1>5, <2>1
<1>7. Types' BY <1>1, <1>3, <1>4, Zenon DEF Types
<1>8. outcome' \in {"ok", "error"} /\ outcome' # "reading" BY <1>2
<1>9. TypeOK'
  <2>1. "ended" \in {"start", "between", "object", "ended"} OBVIOUS
  <2>2. outcome' \in {"reading", "ok", "error"} BY <1>8
  <2> QED BY <1>1, <1>2, <1>3, <1>4, <1>8, <2>1, <2>2, Zenon DEF TypeOK
<1>10. "ended" # "start" /\ "ended" # "between" /\ "ended" # "object" /\ "error" # "ok"
  OBVIOUS
<1>11. ASSUME FromBank PROVE BankInv'
  <2>1. BankInv BY <1>11, Zenon DEF IInv
  <2>2. Wired(List, Wire, Mid, Cut) BY <1>1, WireIsWired
  <2>3. Wire \in Seq(Bytes) /\ 2 + Cut <= Len(Wire) /\ Cut \in 0..Len(Mid) /\ Mid \in Seq(Bytes)
    BY <2>2, Zenon DEF Wired, WireIs
  <2>4. Len(Wire) \in Nat /\ Cut \in Nat /\ Len(Wire) >= 2 BY ONLY <2>3
  <2>5. Len(body) <= Len(Wire) /\ \A i \in 1..Len(body) : body[i] = Wire[i]
    BY <1>11 DEF FromBank, Extends
  <2>6. outcome' = "error" => broken \/ mode = "start" \/ mode = "object" BY <1>2
  <2>7. outcome' = "ok" => mode = "between"
    <3>1. mode \in {"start", "between", "object", "ended"} BY <1>1, Zenon DEF TypeOK
    <3> QED BY <1>2, <3>1
  <2>8. mode = "start" => Len(body) < Len(Wire)
    <3> SUFFICES ASSUME mode = "start" PROVE Len(body) < Len(Wire) OBVIOUS
    <3>1. at = 0 BY <2>1, Zenon DEF BankInv
    <3> QED BY ONLY <1>6, <2>4, <3>1
  <2>9. mode = "object" => Len(body) < Len(Wire) \/ Cut < Len(Mid)
    <3> SUFFICES ASSUME mode = "object", ~(Len(body) < Len(Wire)) PROVE Cut < Len(Mid) OBVIOUS
    <3>1. ObjectAt(List, Mid, Cut, Len(rows), at, buffer, depth, inString, escape)
      BY <2>1, Zenon DEF BankInv
    <3>2. Len(body) <= Len(Wire) BY <2>5, Zenon
    <3>3. at = Len(Wire) BY ONLY <1>6, <2>4, <3>2, ~(Len(body) < Len(Wire))
    <3> QED BY ONLY <2>2, <3>1, <3>3, ObjectEnd, Zenon
  <2>10. ASSUME mode = "between"
         PROVE /\ \A i \in 3..Len(body) :
                    i > RowsEnd(List, Len(rows)) + 2 => body[i] \in {"_", ",", "]"}
               /\ Cut = Len(Mid) /\ Len(body) = Len(Wire) => Len(rows) = Len(List)
    <3>1. BetweenAt(List, Wire, Cut, Len(rows), Len(body))
      BY <1>6, <2>1, <2>10, Zenon DEF BankInv
    <3>2. ASSUME NEW i \in 3..Len(body), i > RowsEnd(List, Len(rows)) + 2
          PROVE body[i] \in {"_", ",", "]"}
      <4>1. Wire[i] \in {"_", ","} BY <3>1, <3>2, Zenon DEF BetweenAt
      <4>2. i \in 1..Len(body) BY ONLY <1>6, i \in 3..Len(body)
      <4>3. body[i] \in {"_", ","} BY <2>5, <4>1, <4>2, Zenon
      <4> QED BY ONLY <4>3
    <3>3. ASSUME Cut = Len(Mid), Len(body) = Len(Wire) PROVE Len(rows) = Len(List)
      <4>1. BetweenAt(List, Wire, Cut, Len(rows), Len(Wire)) BY <3>1, <3>3, Zenon
      <4> QED BY ONLY <2>2, <3>3, <4>1, BetweenEnd, Zenon
    <3> QED BY <3>2, <3>3, Zenon
  <2> QED BY <1>2, <1>3, <1>10, <2>1, <2>6, <2>7, <2>8, <2>9, <2>10, Zenon DEF BankInv
<1>12. ASSUME body \in OtherBodies PROVE OtherInv'
  <2>1. OtherInv BY <1>12, Zenon DEF IInv
  <2>2. mode # "between" BY <1>1, <1>2, <1>12, <2>1, OtherAhead, Zenon
  <2>3. mode \in {"start", "between", "object", "ended"} BY <1>1, Zenon DEF TypeOK
  <2>4. outcome' = "error" BY <1>2, <2>2, <2>3
  <2> QED BY <1>2, <1>3, <1>10, <2>1, <2>4, Zenon DEF OtherInv
<1> QED BY <1>1, <1>3, <1>7, <1>9, <1>11, <1>12, Zenon DEF IInv

LEMMA OneByteOn ==
  ASSUME Types, TypeOK, More
  PROVE  at + 1 \in 0..Len(body) /\ at + 1 \in 1..Len(body) /\ at \in Nat /\ Len(body) \in Nat
<1>1. body \in Seq(Bytes) /\ at \in 0..Len(body) /\ at < Len(body) BY DEF Types, TypeOK, More
<1> QED BY ONLY <1>1

LEMMA StartIInv == IInv /\ Start => IInv'
<1> SUFFICES ASSUME IInv, Start PROVE IInv' OBVIOUS
<1>1. Types /\ TypeOK /\ (FromBank \/ body \in OtherBodies) BY Zenon DEF IInv
<1>2. /\ mode = "start" /\ More /\ at' = at + 1
      /\ mode' = IF Byte = "[" THEN "between" ELSE "start"
      /\ outcome' = outcome /\ UNCHANGED wireVars /\ UNCHANGED scanVars /\ rows' = rows
  BY Zenon DEF Start
<1>3. /\ List' = List /\ Wire' = Wire /\ Mid' = Mid /\ Cut' = Cut /\ FromBank' = FromBank
      /\ body' = body /\ broken' = broken /\ file' = file /\ multiply' = multiply
  BY <1>2, Constants, Zenon
<1>4. depth' = depth /\ inString' = inString /\ escape' = escape /\ buffer' = buffer
  BY <1>2 DEF scanVars
<1>5. at + 1 \in 0..Len(body) /\ at + 1 \in 1..Len(body) /\ at \in Nat /\ Len(body) \in Nat
  BY <1>1, <1>2, OneByteOn
<1>6. Len(buffer) <= at + 1
  <2>1. Len(buffer) <= at /\ buffer \in Seq(Bytes) BY <1>1, Zenon DEF TypeOK, Types
  <2> QED BY ONLY <1>5, <2>1
<1>7. Types' BY <1>1, <1>3, <1>4, Zenon DEF Types
<1>8. mode' \in {"start", "between"} /\ mode' # "ended" /\ mode' # "object" BY <1>2
<1>9. outcome = "reading"
  <2>1. mode # "ended" BY <1>2
  <2> QED BY <1>1, <2>1, Zenon DEF TypeOK
<1>10. TypeOK'
  <2>1. mode' \in {"start", "between", "object", "ended"} BY <1>8
  <2> QED BY <1>1, <1>2, <1>3, <1>4, <1>5, <1>6, <1>8, <1>9, <2>1, Zenon DEF TypeOK
<1>11. "reading" # "error" /\ "reading" # "ok" /\ "between" # "start" OBVIOUS
<1>12. Byte = body[at + 1] BY DEF Byte
<1>13. ASSUME FromBank PROVE BankInv'
  <2>1. BankInv BY <1>13, Zenon DEF IInv
  <2>2. Wired(List, Wire, Mid, Cut) /\ List \in Seq(Seq(Bytes)) BY <1>1, WireIsWired
  <2>3. at = 0 /\ rows = <<>> BY <1>2, <2>1, Zenon DEF BankInv
  <2>4. Byte = Wire[at + 1] BY <1>1, <1>2, <1>13, NextByte
  <2>5. at + 1 = 1 BY ONLY <2>3
  <2>6. Byte = "[" BY <2>2, <2>4, <2>5, Zenon DEF Wired, WireIs
  <2>7. mode' = "between" BY <1>2, <2>6, Zenon
  <2>8. Len(rows) = 0 BY <2>3, EmptyBytes, Zenon
  <2>9. RowsEnd(List, 0) = 0 BY <2>2, JoinedShape
  <2>10. 0 \in 0..Len(List) /\ 0 <= Cut
    <3>1. Cut \in 0..Len(Mid) /\ Mid \in Seq(Bytes) BY <2>2, Zenon DEF Wired, WireIs
    <3> QED BY ONLY <2>2, <3>1
  <2>11. 1 \in Nat /\ 1 >= 1 /\ ~(0 > 0) BY ONLY TRUE
  <2>12. \A i : i \notin 3..1 BY ONLY TRUE
  <2>13. BetweenAt(List, Wire, Cut, 0, 1)
    BY <2>9, <2>10, <2>11, <2>12, Zenon DEF BetweenAt
  <2> QED BY <1>2, <1>3, <1>8, <1>9, <1>11, <2>1, <2>5, <2>7, <2>8, <2>13, Zenon DEF BankInv
<1>14. ASSUME body \in OtherBodies PROVE OtherInv'
  <2>1. OtherInv BY <1>14, Zenon DEF IInv
  <2>2. \A i \in 1..at : body[i] # "[" BY <1>2, <2>1, Zenon DEF OtherInv
  <2>3. mode' = "start" => \A i \in 1..(at + 1) : body[i] # "["
    <3> SUFFICES ASSUME mode' = "start", NEW i \in 1..(at + 1) PROVE body[i] # "[" BY Zenon
    <3>1. i = at + 1 \/ i \in 1..at BY ONLY <1>5, i \in 1..(at + 1)
    <3>2. body[at + 1] # "[" BY <1>2, <1>11, <1>12, Zenon
    <3> QED BY <2>2, <3>1, <3>2, Zenon
  <2>4. mode' = "between" =>
          /\ body[at + 1] = "[" /\ (at + 1) - 1 = at /\ at + 1 \in 1..(at + 1)
          /\ \A k : k \notin (at + 1 + 1)..(at + 1)
    <3>1. (at + 1) - 1 = at /\ at + 1 \in 1..(at + 1) BY ONLY <1>5
    <3>2. \A k : k \notin (at + 1 + 1)..(at + 1) BY ONLY <1>5
    <3> QED BY <1>2, <1>11, <1>12, <3>1, <3>2, Zenon
  <2>5. mode' = "between" =>
          \E i \in 1..(at + 1) : /\ body[i] = "[" /\ \A k \in 1..(i - 1) : body[k] # "["
                                 /\ \A k \in (i + 1)..(at + 1) : body[k] \in {"_", ","}
    BY <2>2, <2>4, Zenon
  <2> QED BY <1>2, <1>3, <1>8, <1>9, <1>11, <2>1, <2>3, <2>5, Zenon DEF OtherInv
<1> QED BY <1>1, <1>3, <1>7, <1>10, <1>13, <1>14, Zenon DEF IInv

LEMMA SkipIInv == IInv /\ Skip => IInv'
<1> SUFFICES ASSUME IInv, Skip PROVE IInv' OBVIOUS
<1>1. Types /\ TypeOK /\ (FromBank \/ body \in OtherBodies) BY Zenon DEF IInv
<1>2. /\ mode = "between" /\ More /\ Byte \in {"_", ","} /\ at' = at + 1
      /\ mode' = mode /\ outcome' = outcome
      /\ UNCHANGED wireVars /\ UNCHANGED scanVars /\ rows' = rows
  BY Zenon DEF Skip
<1>3. /\ List' = List /\ Wire' = Wire /\ Mid' = Mid /\ Cut' = Cut /\ FromBank' = FromBank
      /\ body' = body /\ broken' = broken /\ file' = file /\ multiply' = multiply
  BY <1>2, Constants, Zenon
<1>4. depth' = depth /\ inString' = inString /\ escape' = escape /\ buffer' = buffer
  BY <1>2 DEF scanVars
<1>5. at + 1 \in 0..Len(body) /\ at + 1 \in 1..Len(body) /\ at \in Nat /\ Len(body) \in Nat
  BY <1>1, <1>2, OneByteOn
<1>6. Len(buffer) <= at + 1
  <2>1. Len(buffer) <= at /\ buffer \in Seq(Bytes) BY <1>1, Zenon DEF TypeOK, Types
  <2> QED BY ONLY <1>5, <2>1
<1>7. Types' BY <1>1, <1>3, <1>4, Zenon DEF Types
<1>8. TypeOK' BY <1>1, <1>2, <1>3, <1>4, <1>5, <1>6, Zenon DEF TypeOK
<1>9. "between" # "start" /\ "between" # "object" /\ "reading" # "error" /\ "reading" # "ok"
      /\ "between" # "ended"
  OBVIOUS
<1>10. outcome = "reading" BY <1>1, <1>2, <1>9, Zenon DEF TypeOK
<1>11. ASSUME FromBank PROVE BankInv'
  <2>1. BankInv BY <1>11, Zenon DEF IInv
  <2>2. Wired(List, Wire, Mid, Cut) BY <1>1, WireIsWired
  <2>3. Byte = Wire[at + 1] BY <1>1, <1>2, <1>11, NextByte
  <2>4. BetweenAt(List, Wire, Cut, Len(rows), at) BY <1>2, <2>1, Zenon DEF BankInv
  <2>5. Wire[at + 1] \in {"_", ","} BY <1>2, <2>3, Zenon
  <2>6. BetweenAt(List, Wire, Cut, Len(rows), at + 1)
    BY ONLY <2>2, <2>4, <2>5, BetweenSkip, Zenon
  <2> QED BY <1>2, <1>3, <1>9, <1>10, <2>1, <2>6, Zenon DEF BankInv
<1>12. ASSUME body \in OtherBodies PROVE OtherInv'
  <2>1. OtherInv BY <1>12, Zenon DEF IInv
  <2>2. PICK i \in 1..at : /\ body[i] = "[" /\ \A k \in 1..(i - 1) : body[k] # "["
                           /\ \A k \in (i + 1)..at : body[k] \in {"_", ","}
    BY <1>2, <2>1, Zenon DEF OtherInv
  <2>3. i \in 1..(at + 1) BY ONLY <1>5, i \in 1..at
  <2>4. ASSUME NEW k \in (i + 1)..(at + 1) PROVE body[k] \in {"_", ","}
    <3>1. k = at + 1 \/ k \in (i + 1)..at BY ONLY <1>5, i \in 1..at, k \in (i + 1)..(at + 1)
    <3> QED BY <1>2, <2>2, <3>1, Zenon DEF Byte
  <2> QED BY <1>2, <1>3, <1>9, <1>10, <2>1, <2>2, <2>3, <2>4, Zenon DEF OtherInv
<1> QED BY <1>1, <1>3, <1>7, <1>8, <1>11, <1>12, Zenon DEF IInv

LEMMA CloseArrayIInv == IInv /\ CloseArray => IInv'
<1> SUFFICES ASSUME IInv, CloseArray PROVE IInv' OBVIOUS
<1>1. Types /\ TypeOK /\ (FromBank \/ body \in OtherBodies) BY Zenon DEF IInv
<1>2. /\ mode = "between" /\ More /\ Byte = "]" /\ at' = at + 1
      /\ mode' = "ended" /\ outcome' = "ok"
      /\ UNCHANGED wireVars /\ UNCHANGED scanVars /\ rows' = rows
  BY Zenon DEF CloseArray, End
<1>3. /\ List' = List /\ Wire' = Wire /\ Mid' = Mid /\ Cut' = Cut /\ FromBank' = FromBank
      /\ body' = body /\ broken' = broken /\ file' = file /\ multiply' = multiply
  BY <1>2, Constants, Zenon
<1>4. depth' = depth /\ inString' = inString /\ escape' = escape /\ buffer' = buffer
  BY <1>2 DEF scanVars
<1>5. at + 1 \in 0..Len(body) /\ at + 1 \in 1..Len(body) /\ at \in Nat /\ Len(body) \in Nat
  BY <1>1, <1>2, OneByteOn
<1>6. Len(buffer) <= at + 1
  <2>1. Len(buffer) <= at /\ buffer \in Seq(Bytes) BY <1>1, Zenon DEF TypeOK, Types
  <2> QED BY ONLY <1>5, <2>1
<1>7. Types' BY <1>1, <1>3, <1>4, Zenon DEF Types
<1>8. /\ "ended" # "start" /\ "ended" # "object" /\ "ended" # "between"
      /\ "ok" # "error" /\ "ok" # "reading"
  OBVIOUS
<1>9. TypeOK'
  <2>1. "ended" \in {"start", "between", "object", "ended"} /\ "ok" \in {"reading", "ok", "error"}
    OBVIOUS
  <2> QED BY <1>1, <1>2, <1>3, <1>4, <1>5, <1>6, <1>8, <2>1, Zenon DEF TypeOK
<1>10. ASSUME FromBank PROVE BankInv'
  <2>1. BankInv BY <1>10, Zenon DEF IInv
  <2>2. Wired(List, Wire, Mid, Cut) BY <1>1, WireIsWired
  <2>3. Byte = Wire[at + 1] /\ at < Len(Wire) BY <1>1, <1>2, <1>10, NextByte
  <2>4. BetweenAt(List, Wire, Cut, Len(rows), at) BY <1>2, <2>1, Zenon DEF BankInv
  <2>5. Wire[at + 1] = "]" BY <1>2, <2>3, Zenon
  <2>6. /\ \A i \in 3..Len(Wire) :
             i > RowsEnd(List, Len(rows)) + 2 => Wire[i] \in {"_", ",", "]"}
        /\ Cut = Len(Mid) => Len(rows) = Len(List)
    <3>1. BetweenNext(List, Wire, Mid, Cut, Len(rows), at)
      BY ONLY <2>2, <2>3, <2>4, BetweenByte, Zenon
    <3> QED BY <2>5, <3>1, Zenon DEF BetweenNext
  <2>7. Len(body) <= Len(Wire) /\ \A i \in 1..Len(body) : body[i] = Wire[i]
    BY <1>10 DEF FromBank, Extends
  <2>8. Len(Wire) \in Nat
    <3>1. Wire \in Seq(Bytes) BY <2>2, Zenon DEF Wired, WireIs
    <3> QED BY ONLY <3>1
  <2>9. ASSUME NEW i \in 3..Len(body), i > RowsEnd(List, Len(rows)) + 2
        PROVE body[i] \in {"_", ",", "]"}
    <3>1. Len(body) <= Len(Wire) BY <2>7, Zenon
    <3>2. i \in 3..Len(Wire) /\ i \in 1..Len(body) BY ONLY <1>5, <2>8, <3>1, i \in 3..Len(body)
    <3> QED BY <2>6, <2>7, <2>9, <3>2, Zenon
  <2> QED BY <1>2, <1>3, <1>8, <2>1, <2>6, <2>9, Zenon DEF BankInv
<1>11. ASSUME body \in OtherBodies PROVE OtherInv'
  <2>1. OtherInv BY <1>11, Zenon DEF IInv
  <2> QED BY <1>1, <1>2, <1>11, <2>1, OtherAhead, Zenon
<1> QED BY <1>1, <1>3, <1>7, <1>9, <1>10, <1>11, Zenon DEF IInv

LEMMA OpenObjectIInv == IInv /\ OpenObject => IInv'
<1> SUFFICES ASSUME IInv, OpenObject PROVE IInv' OBVIOUS
<1>1. Types /\ TypeOK /\ (FromBank \/ body \in OtherBodies) BY Zenon DEF IInv
<1>2. /\ mode = "between" /\ More /\ Byte = "{" /\ at' = at /\ mode' = "object"
      /\ depth' = 0 /\ inString' = FALSE /\ escape' = FALSE /\ buffer' = <<>>
      /\ UNCHANGED wireVars /\ outcome' = outcome /\ rows' = rows
  BY Zenon DEF OpenObject
<1>3. /\ List' = List /\ Wire' = Wire /\ Mid' = Mid /\ Cut' = Cut /\ FromBank' = FromBank
      /\ body' = body /\ broken' = broken /\ file' = file /\ multiply' = multiply
  BY <1>2, Constants, Zenon
<1>4. body \notin OtherBodies
  <2> SUFFICES ASSUME body \in OtherBodies PROVE FALSE OBVIOUS
  <2>1. OtherInv BY Zenon DEF IInv
  <2> QED BY <1>1, <1>2, <2>1, OtherAhead, Zenon
<1>5. FromBank /\ BankInv BY <1>1, <1>4, Zenon DEF IInv
<1>6. Types' BY <1>1, <1>2, <1>3, EmptyBytes, Zenon DEF Types
<1>7. /\ "object" # "start" /\ "object" # "ended" /\ "object" # "between" /\ "between" # "ended"
      /\ "reading" # "error" /\ "reading" # "ok"
  OBVIOUS
<1>8. outcome = "reading" BY <1>1, <1>2, <1>7, Zenon DEF TypeOK
<1>9. TypeOK'
  <2>1. "object" \in {"start", "between", "object", "ended"} /\ 0 \in 0..1 OBVIOUS
  <2>2. at \in 0..Len(body) /\ body \in Seq(Bytes) BY <1>1, Zenon DEF TypeOK, Types
  <2>3. 0 <= at BY ONLY <2>2
  <2>4. Len(buffer') = 0 BY <1>2, EmptyBytes, Zenon
  <2> QED BY <1>1, <1>2, <1>3, <1>7, <1>8, <2>1, <2>3, <2>4, Zenon DEF TypeOK
<1>10. BankInv'
  <2>1. Wired(List, Wire, Mid, Cut) BY <1>1, WireIsWired
  <2>2. Byte = Wire[at + 1] /\ at < Len(Wire) BY <1>1, <1>2, <1>5, NextByte
  <2>3. BetweenAt(List, Wire, Cut, Len(rows), at) BY <1>2, <1>5, Zenon DEF BankInv
  <2>4. Wire[at + 1] = "{" BY <1>2, <2>2, Zenon
  <2>5. ObjectAt(List, Mid, Cut, Len(rows), at, <<>>, 0, FALSE, FALSE)
    BY ONLY <2>1, <2>2, <2>3, <2>4, ObjectOpen, Zenon
  <2> QED BY <1>2, <1>3, <1>5, <1>7, <1>8, <2>5, Zenon DEF BankInv
<1> QED BY <1>3, <1>4, <1>5, <1>6, <1>9, <1>10, Zenon DEF IInv

LEMMA UnexpectedIInv == IInv /\ Unexpected => IInv'
<1> SUFFICES ASSUME IInv, Unexpected PROVE IInv' OBVIOUS
<1>1. Types /\ TypeOK /\ (FromBank \/ body \in OtherBodies) BY Zenon DEF IInv
<1>2. /\ mode = "between" /\ More /\ Byte \notin {"_", ",", "]", "{"} /\ at' = at
      /\ mode' = "ended" /\ outcome' = "error"
      /\ UNCHANGED wireVars /\ UNCHANGED scanVars /\ rows' = rows
  BY Zenon DEF Unexpected, End
<1>3. /\ List' = List /\ Wire' = Wire /\ Mid' = Mid /\ Cut' = Cut /\ FromBank' = FromBank
      /\ body' = body /\ broken' = broken /\ file' = file /\ multiply' = multiply
  BY <1>2, Constants, Zenon
<1>4. depth' = depth /\ inString' = inString /\ escape' = escape /\ buffer' = buffer
  BY <1>2 DEF scanVars
<1>5. ~FromBank
  <2> SUFFICES ASSUME FromBank PROVE FALSE OBVIOUS
  <2>1. BankInv BY Zenon DEF IInv
  <2>2. Wired(List, Wire, Mid, Cut) BY <1>1, WireIsWired
  <2>3. Byte = Wire[at + 1] /\ at < Len(Wire) BY <1>1, <1>2, NextByte
  <2>4. BetweenAt(List, Wire, Cut, Len(rows), at) BY <1>2, <2>1, Zenon DEF BankInv
  <2>5. Wire[at + 1] \in {"_", ",", "]", "{"} BY ONLY <2>2, <2>3, <2>4, BetweenByte, Zenon DEF BetweenNext
  <2> QED BY <1>2, <2>3, <2>5, Zenon
<1>6. Types' BY <1>1, <1>3, <1>4, Zenon DEF Types
<1>7. /\ "ended" # "start" /\ "ended" # "object" /\ "ended" # "between"
      /\ "ok" # "error" /\ "error" # "reading"
  OBVIOUS
<1>8. TypeOK'
  <2>1. /\ "ended" \in {"start", "between", "object", "ended"}
        /\ "error" \in {"reading", "ok", "error"}
    OBVIOUS
  <2> QED BY <1>1, <1>2, <1>3, <1>4, <1>7, <2>1, Zenon DEF TypeOK
<1>9. OtherInv BY <1>1, <1>5, Zenon DEF IInv
<1>10. OtherInv' BY <1>2, <1>3, <1>7, <1>9, Zenon DEF OtherInv
<1> QED BY <1>1, <1>3, <1>5, <1>6, <1>8, <1>10, Zenon DEF IInv

LEMMA InObject ==
  ASSUME IInv, mode = "object", More
  PROVE  /\ Types /\ TypeOK /\ FromBank /\ BankInv /\ body \notin OtherBodies
         /\ Wired(List, Wire, Mid, Cut)
         /\ ObjectAt(List, Mid, Cut, Len(rows), at, buffer, depth, inString, escape)
         /\ ObjectNext(List, Wire, Mid, Cut, Len(rows), at, buffer, depth, inString, escape)
         /\ Byte = Wire[at + 1] /\ Append(buffer, Byte) \in Seq(Bytes)
         /\ Len(Append(buffer, Byte)) <= at + 1
<1>1. Types /\ TypeOK /\ (FromBank \/ body \in OtherBodies) BY Zenon DEF IInv
<1>2. body \notin OtherBodies BY Zenon DEF IInv, OtherInv
<1>3. FromBank /\ BankInv BY <1>1, <1>2, Zenon DEF IInv
<1>4. Wired(List, Wire, Mid, Cut) BY <1>1, WireIsWired
<1>5. ObjectAt(List, Mid, Cut, Len(rows), at, buffer, depth, inString, escape)
  BY <1>3, Zenon DEF BankInv
<1>6. Byte = Wire[at + 1] /\ at < Len(Wire) BY <1>1, <1>3, NextByte
<1>7. ObjectNext(List, Wire, Mid, Cut, Len(rows), at, buffer, depth, inString, escape)
  BY ONLY <1>4, <1>5, <1>6, ObjectByte, Zenon
<1>8. at + 1 \in 1..Len(body) /\ at \in Nat /\ body \in Seq(Bytes)
  BY <1>1, OneByteOn, Zenon DEF Types
<1>9. Byte \in Bytes
  <2>1. body[at + 1] \in Bytes BY ONLY <1>8
  <2> QED BY <2>1, Zenon DEF Byte
<1>10. buffer \in Seq(Bytes) /\ Len(buffer) <= at BY <1>1, Zenon DEF Types, TypeOK
<1>11. Append(buffer, Byte) \in Seq(Bytes) /\ Len(Append(buffer, Byte)) = Len(buffer) + 1
  BY ONLY <1>9, <1>10, AppendProperties
<1>12. Len(Append(buffer, Byte)) <= at + 1 BY ONLY <1>8, <1>10, <1>11
<1> QED BY <1>1, <1>2, <1>3, <1>4, <1>5, <1>6, <1>7, <1>11, <1>12, Zenon

LEMMA ObjectStays ==
  ASSUME IInv, Take, UNCHANGED wireVars, mode' = mode, outcome' = outcome, rows' = rows,
         ObjectAt(List, Mid, Cut, Len(rows), at + 1, Append(buffer, Byte), depth', inString', escape')
  PROVE  IInv'
<1>1. mode = "object" /\ More /\ at' = at + 1 /\ buffer' = Append(buffer, Byte)
  BY Zenon DEF Take
<1>2. /\ Types /\ TypeOK /\ FromBank /\ BankInv /\ body \notin OtherBodies
      /\ Wired(List, Wire, Mid, Cut)
      /\ Append(buffer, Byte) \in Seq(Bytes) /\ Len(Append(buffer, Byte)) <= at + 1
  BY <1>1, InObject, Zenon
<1>3. /\ List' = List /\ Wire' = Wire /\ Mid' = Mid /\ Cut' = Cut /\ FromBank' = FromBank
      /\ body' = body /\ broken' = broken /\ file' = file /\ multiply' = multiply
  BY Constants, Zenon
<1>4. depth' \in 0..1 /\ inString' \in BOOLEAN /\ escape' \in BOOLEAN
      /\ (escape' = TRUE => inString' = TRUE)
  BY <1>2, ObjectFacts, Zenon
<1>5. at + 1 \in 0..Len(body) BY <1>1, <1>2, OneByteOn
<1>6. Types' BY <1>1, <1>2, <1>3, Zenon DEF Types
<1>7. TypeOK'
  <2>1. escape' => inString' BY <1>4, Zenon
  <2> QED BY <1>1, <1>2, <1>3, <1>4, <1>5, <2>1, Zenon DEF TypeOK
<1>8. BankInv'
  <2>1. "object" # "start" /\ "object" # "between" OBVIOUS
  <2> QED BY <1>1, <1>2, <1>3, <2>1, Zenon DEF BankInv
<1> QED BY <1>2, <1>3, <1>6, <1>7, <1>8, Zenon DEF IInv

LEMMA InStringIInv == IInv /\ InString => IInv'
<1> SUFFICES ASSUME IInv, InString PROVE IInv' OBVIOUS
<1>1. /\ Take /\ inString /\ escape' = EscapeNext /\ inString' = (escape \/ Byte # "q")
      /\ UNCHANGED wireVars /\ mode' = mode /\ outcome' = outcome /\ depth' = depth /\ rows' = rows
  BY Zenon DEF InString
<1>2. mode = "object" /\ More BY <1>1, Zenon DEF Take
<1>3. /\ ObjectNext(List, Wire, Mid, Cut, Len(rows), at, buffer, depth, inString, escape)
      /\ Byte = Wire[at + 1] /\ TypeOK
  BY <1>2, InObject, Zenon
<1>4. inString = TRUE BY <1>1, <1>3, Zenon DEF TypeOK
<1>5. ObjectAt(List, Mid, Cut, Len(rows), at + 1, Append(buffer, Byte), depth,
               StringAfter(Byte, escape), EscapeAfter(Byte, escape))
  BY <1>3, <1>4, Zenon DEF ObjectNext
<1>6. inString' = StringAfter(Byte, escape) BY <1>1, Zenon DEF StringAfter
<1>7. escape' = EscapeAfter(Byte, escape) BY <1>1, Zenon DEF EscapeAfter, EscapeNext
<1>8. ObjectAt(List, Mid, Cut, Len(rows), at + 1, Append(buffer, Byte), depth', inString', escape')
  BY <1>1, <1>5, <1>6, <1>7, Zenon
<1> QED BY <1>1, <1>8, ObjectStays, Zenon

LEMMA StructureIInv == IInv /\ Structure => IInv'
<1> SUFFICES ASSUME IInv, Structure PROVE IInv' OBVIOUS
<1>1. /\ Take /\ ~inString /\ ~(Byte = "}" /\ depth = 1) /\ inString' = (Byte = "q")
      /\ depth' = DepthAfter(Byte, depth)
      /\ UNCHANGED wireVars /\ mode' = mode /\ outcome' = outcome /\ escape' = escape /\ rows' = rows
  BY Zenon DEF Structure, DepthAfter
<1>2. mode = "object" /\ More BY <1>1, Zenon DEF Take
<1>3. /\ ObjectNext(List, Wire, Mid, Cut, Len(rows), at, buffer, depth, inString, escape)
      /\ Byte = Wire[at + 1] /\ TypeOK
  BY <1>2, InObject, Zenon
<1>4. inString = FALSE BY <1>1, <1>3, Zenon DEF TypeOK
<1>5. ObjectAt(List, Mid, Cut, Len(rows), at + 1, Append(buffer, Byte), DepthAfter(Byte, depth),
               Byte = "q", escape)
  BY <1>1, <1>3, <1>4, Zenon DEF ObjectNext
<1>6. ObjectAt(List, Mid, Cut, Len(rows), at + 1, Append(buffer, Byte), depth', inString', escape')
  BY <1>1, <1>5, Zenon
<1> QED BY <1>1, <1>6, ObjectStays, Zenon

(* The bytes of a complete object are a row's encoding, and of no other.   *)
LEMMA DecodedRow ==
  ASSUME NEW row \in Texts
  PROVE  Decoded(Encode(row)) = <<row>>
<1> DEFINE P(text) == text \in Texts /\ Encode(text) = Encode(row)
           found == CHOOSE text \in Texts : Encode(text) = Encode(row)
<1>1. found \in Texts /\ Encode(found) = Encode(row) OBVIOUS
<1>2. found \in Seq(Bytes) /\ row \in Seq(Bytes) BY <1>1, BytesAssumption
<1> HIDE DEF found
<1>3. row = found BY <1>1, <1>2, EncodeInjective
<1>4. Decoded(Encode(row)) = <<found>> BY Zenon DEF Decoded, found
<1> QED BY <1>3, <1>4, Zenon

LEMMA CompleteRowIInv == IInv /\ CompleteRow => IInv'
<1> SUFFICES ASSUME IInv, CompleteRow PROVE IInv' OBVIOUS
<1>1. /\ Take /\ ~inString /\ Byte = "}" /\ depth = 1 /\ depth' = 0
      /\ rows' = rows \o Decoded(buffer')
      /\ IF Decoded(buffer') = <<>> THEN mode' = "ended" /\ outcome' = "error"
         ELSE mode' = "between" /\ outcome' = outcome
      /\ UNCHANGED wireVars /\ inString' = inString /\ escape' = escape
  BY Zenon DEF CompleteRow
<1>2. mode = "object" /\ More /\ at' = at + 1 /\ buffer' = Append(buffer, Byte)
  BY <1>1, Zenon DEF Take
<1>3. /\ Types /\ TypeOK /\ FromBank /\ BankInv /\ body \notin OtherBodies
      /\ Wired(List, Wire, Mid, Cut)
      /\ ObjectAt(List, Mid, Cut, Len(rows), at, buffer, depth, inString, escape)
      /\ ObjectNext(List, Wire, Mid, Cut, Len(rows), at, buffer, depth, inString, escape)
      /\ Byte = Wire[at + 1]
      /\ Append(buffer, Byte) \in Seq(Bytes) /\ Len(Append(buffer, Byte)) <= at + 1
  BY <1>2, InObject, Zenon
<1>4. /\ List' = List /\ Wire' = Wire /\ Mid' = Mid /\ Cut' = Cut /\ FromBank' = FromBank
      /\ body' = body /\ broken' = broken /\ file' = file /\ multiply' = multiply
  BY <1>1, Constants, Zenon
<1>5. inString = FALSE /\ (escape => inString) /\ escape \in BOOLEAN BY <1>1, <1>3, Zenon DEF TypeOK
<1>6. PICK k : k = Len(rows) OBVIOUS
<1>7. PICK row : row = List[k + 1] OBVIOUS
<1>8. /\ Append(buffer, Byte) = Encode(row)
      /\ BetweenAt(List, Wire, Cut, k + 1, at + 1)
  BY <1>1, <1>3, <1>5, <1>6, <1>7, Zenon DEF ObjectNext
<1>9. List \in Seq(Texts) BY <1>3, WireIsWired
<1>10. k \in 0..(Len(List) - 1) /\ rows = SubSeq(List, 1, k)
  BY <1>3, <1>6, Zenon DEF ObjectAt, BankInv
<1>11. /\ Len(List) \in Nat /\ k \in 0..Len(List) /\ k + 1 \in 0..Len(List)
       /\ k + 1 \in 1..Len(List) /\ row \in Texts
  BY ONLY <1>7, <1>9, <1>10
<1>12. Decoded(buffer') = <<row>> BY <1>2, <1>8, <1>11, DecodedRow, Zenon
<1>13. rows' = SubSeq(List, 1, k + 1) /\ Len(rows') = k + 1
  <2>1. /\ rows \in Seq(Texts) /\ Len(rows) = k /\ \A i \in 1..k : rows[i] = List[i]
    BY ONLY <1>9, <1>10, <1>11, SubSeqFrom1
  <2>2. PICK longer : longer = SubSeq(List, 1, k + 1) OBVIOUS
  <2>3. /\ longer \in Seq(Texts) /\ Len(longer) = k + 1 /\ \A i \in 1..(k + 1) : longer[i] = List[i]
    BY ONLY <1>9, <1>11, <2>2, SubSeqFrom1
  <2>4. PICK one : one = <<row>> OBVIOUS
  <2>5. one \in Seq(Texts) /\ Len(one) = 1 /\ one[1] = row BY ONLY <1>11, <2>4
  <2>6. /\ rows \o one \in Seq(Texts) /\ Len(rows \o one) = Len(rows) + Len(one)
        /\ \A i \in 1..Len(rows) : (rows \o one)[i] = rows[i]
        /\ \A i \in 1..Len(one) : (rows \o one)[Len(rows) + i] = one[i]
    <3>1. PICK done : done = rows OBVIOUS
    <3>2. done \in Seq(Texts) /\ one \in Seq(Texts) BY <2>1, <2>5, <3>1, Zenon
    <3>3. /\ done \o one \in Seq(Texts) /\ Len(done \o one) = Len(done) + Len(one)
          /\ \A i \in 1..Len(done) : (done \o one)[i] = done[i]
          /\ \A i \in 1..Len(one) : (done \o one)[Len(done) + i] = one[i]
      BY ONLY <3>2, ConcatItems
    <3> QED BY <3>1, <3>3, Zenon
  <2>7. PICK all : all = rows \o one OBVIOUS
  <2>8. /\ all \in Seq(Texts) /\ Len(all) = k + 1
        /\ \A i \in 1..k : all[i] = List[i]
        /\ all[k + 1] = List[k + 1]
    <3>1. 1 \in 1..Len(one) BY ONLY <2>5
    <3> QED BY ONLY <1>7, <2>1, <2>5, <2>6, <2>7, <3>1
  <2>9. ASSUME NEW i \in 1..(k + 1) PROVE all[i] = longer[i]
    <3>1. i = k + 1 \/ i \in 1..k BY ONLY <1>11, i \in 1..(k + 1)
    <3> QED BY <2>3, <2>8, <3>1, Zenon
  <2>10. all = longer BY ONLY <2>3, <2>8, <2>9, SeqEqual
  <2>11. rows' = all BY <1>1, <1>12, <2>4, <2>7, Zenon
  <2> QED BY <2>2, <2>3, <2>10, <2>11, Zenon
<1>14. mode' = "between" /\ outcome' = outcome
  <2>1. <<row>> # <<>> BY ONLY TRUE
  <2> QED BY <1>1, <1>12, <2>1, Zenon
<1>15. /\ "object" # "ended" /\ "between" # "ended" /\ "between" # "start" /\ "between" # "object"
       /\ "reading" # "error" /\ "reading" # "ok" /\ 0 \in 0..1
       /\ "between" \in {"start", "between", "object", "ended"}
  BY ONLY TRUE
<1>16. outcome = "reading" BY <1>2, <1>3, <1>15, Zenon DEF TypeOK
<1>17. at + 1 \in 0..Len(body) BY <1>2, <1>3, OneByteOn
<1>18. Types' BY <1>2, <1>3, <1>4, Zenon DEF Types
<1>19. TypeOK'
  BY <1>1, <1>2, <1>3, <1>4, <1>5, <1>14, <1>15, <1>16, <1>17, Zenon DEF TypeOK
<1>20. BankInv'
  BY <1>2, <1>4, <1>8, <1>11, <1>13, <1>14, <1>15, <1>16, Zenon DEF BankInv
<1> QED BY <1>3, <1>4, <1>18, <1>19, <1>20, Zenon DEF IInv

LEMMA NextIInv == IInv /\ [Next]_vars => IInv'
<1> SUFFICES ASSUME IInv, [Next]_vars PROVE IInv' OBVIOUS
<1>1. CASE EndOfBody BY <1>1, EndOfBodyIInv, Zenon
<1>2. CASE Start BY <1>2, StartIInv, Zenon
<1>3. CASE Skip BY <1>3, SkipIInv, Zenon
<1>4. CASE CloseArray BY <1>4, CloseArrayIInv, Zenon
<1>5. CASE OpenObject BY <1>5, OpenObjectIInv, Zenon
<1>6. CASE Unexpected BY <1>6, UnexpectedIInv, Zenon
<1>7. CASE InString BY <1>7, InStringIInv, Zenon
<1>8. CASE Structure BY <1>8, StructureIInv, Zenon
<1>9. CASE CompleteRow BY <1>9, CompleteRowIInv, Zenon
<1>10. CASE UNCHANGED vars
  <2>1. /\ UNCHANGED wireVars /\ UNCHANGED scanVars
        /\ at' = at /\ mode' = mode /\ outcome' = outcome /\ rows' = rows
    BY <1>10 DEF vars
  <2>2. /\ List' = List /\ Wire' = Wire /\ Mid' = Mid /\ Cut' = Cut /\ FromBank' = FromBank
        /\ body' = body /\ broken' = broken /\ file' = file /\ multiply' = multiply
    BY <2>1, Constants, Zenon
  <2>3. depth' = depth /\ inString' = inString /\ escape' = escape /\ buffer' = buffer
    BY <2>1 DEF scanVars
  <2>4. Types' <=> Types BY <2>2, <2>3, Zenon DEF Types
  <2>5. TypeOK' <=> TypeOK BY <2>1, <2>2, <2>3, Zenon DEF TypeOK
  <2>6. BankInv' <=> BankInv BY <2>1, <2>2, <2>3, Zenon DEF BankInv
  <2>7. OtherInv' <=> OtherInv BY <2>1, <2>2, Zenon DEF OtherInv
  <2> QED BY <2>2, <2>4, <2>5, <2>6, <2>7, Zenon DEF IInv
<1>11. Next \/ UNCHANGED vars OBVIOUS
<1>12. Next => \/ EndOfBody \/ Start \/ Skip \/ CloseArray \/ OpenObject \/ Unexpected
               \/ InString \/ Structure \/ CompleteRow
  BY Zenon DEF Next
<1> QED
  BY <1>1, <1>2, <1>3, <1>4, <1>5, <1>6, <1>7, <1>8, <1>9, <1>10, <1>11, <1>12, Zenon

-----------------------------------------------------------------------------
(* The theorems.                                                           *)

LEMMA StreamInduction == Spec => []IInv
<1>1. Init => IInv BY InitIInv
<1>2. IInv /\ [Next]_vars => IInv' BY NextIInv
<1> QED BY <1>1, <1>2, PTL DEF Spec

(* The scanner's locals keep their ranges whatever arrives: the brace      *)
(* depth of read_json_object (stream.rs:195-229) stays 0 or 1, an escape is *)
(* only pending in a string, and the stream has ended exactly when         *)
(* next_row has returned None or an error.                                 *)
THEOREM StreamTypes == Spec => []TypeOK
<1>1. IInv => TypeOK BY Zenon DEF IInv
<1> QED BY <1>1, StreamInduction, PTL

(* What has been returned of an export, and how long its bytes are.        *)
LEMMA RowsAreFirst ==
  ASSUME Types, BankInv
  PROVE  /\ List \in Seq(Texts) /\ rows \in Seq(Texts) /\ Len(rows) \in 0..Len(List)
         /\ rows = SubSeq(List, 1, Len(rows))
         /\ Len(rows) = Len(List) => rows = List
         /\ IsPrefix(rows, List)
         /\ Len(Joined(rows)) = RowsEnd(List, Len(rows)) /\ RowsEnd(List, Len(rows)) \in Nat
<1>1. PICK list : list = List OBVIOUS
<1>2. PICK k : k = Len(rows) OBVIOUS
<1>3. PICK done : done = rows OBVIOUS
<1>4. list \in Seq(Texts) /\ list \in Seq(Seq(Bytes)) BY <1>1, WireIsWired, Zenon
<1>5. k \in 0..Len(list) /\ done = SubSeq(list, 1, k) /\ Len(done) = k
  BY <1>1, <1>2, <1>3, Zenon DEF BankInv
<1>6. done \in Seq(Texts) /\ \A i \in 1..k : done[i] = list[i]
  BY ONLY <1>4, <1>5, SubSeqFrom1
<1>7. k = Len(list) => done = list BY ONLY <1>4, <1>5, <1>6, SeqEqual
<1>8. IsPrefix(done, list)
  <2>1. k \in 0..Len(done) /\ k <= Len(list) /\ Len(list) \in Nat BY ONLY <1>4, <1>5
  <2>2. PICK again : again = SubSeq(done, 1, k) OBVIOUS
  <2>3. again \in Seq(Texts) /\ Len(again) = k /\ \A i \in 1..k : again[i] = done[i]
    BY ONLY <1>6, <2>1, <2>2, SubSeqFrom1
  <2>4. again = done BY ONLY <1>5, <1>6, <2>3, SeqEqual
  <2>5. SubSeq(done, 1, Len(done)) = SubSeq(list, 1, Len(done)) /\ Len(done) <= Len(list)
    BY <1>5, <2>1, <2>2, <2>4, Zenon
  <2> QED BY <2>5, Zenon DEF IsPrefix
<1>9. Len(Joined(done)) = RowsEnd(list, k) /\ RowsEnd(list, k) \in Nat
  BY <1>4, <1>5, JoinedShape, Zenon
<1> QED BY <1>1, <1>2, <1>3, <1>4, <1>5, <1>6, <1>7, <1>8, <1>9, Zenon

(* An export that arrives whole and within the size limit never errs, and  *)
(* when next_row (stream.rs:91-145) returns None it has returned the file's *)
(* rows, each as it was (streaming.py:41-83): quotes, backslashes and      *)
(* braces in texts, of whatever length, do not mislead the scanner.        *)
THEOREM ExportsUnderstood == Spec => []ExportUnderstood
<1>1. IInv => ExportUnderstood
  <2> SUFFICES ASSUME IInv, body = Export(file, multiply), ~broken,
                      multiply => Limited(Joined(Repeated(file))) = Joined(Repeated(file))
               PROVE  outcome # "error" /\ (outcome = "ok" => rows = Requested(file, multiply))
    BY Zenon DEF ExportUnderstood
  <2>1. Types BY Zenon DEF IInv
  <2>2. Wired(List, Wire, Mid, Cut) BY <2>1, WireIsWired
  <2>3. body = Wire BY Zenon DEF Wire
  <2>4. Wire \in Seq(Bytes) /\ Mid \in Seq(Bytes) /\ Cut \in 0..Len(Mid)
    BY <2>2, Zenon DEF Wired, WireIs
  <2>5. Len(Wire) \in Nat /\ Len(Mid) \in Nat BY ONLY <2>4
  <2>6. BankInv
    <3>1. Len(Wire) <= Len(Wire) BY ONLY <2>5
    <3>2. FromBank BY <2>3, <3>1, Zenon DEF FromBank, Extends
    <3> QED BY <3>2, Zenon DEF IInv
  <2>7. Cut = Len(Mid)
    <3>1. CASE multiply
      <4>1. Mid = Joined(Repeated(file)) BY <3>1, Zenon DEF Mid, Middle, Requested
      <4>2. Limited(Mid) = Mid BY <3>1, <4>1, Zenon
      <4>3. Cut = IF Len(Mid) < SizeLimit - 2 THEN Len(Mid) ELSE SizeLimit - 2
        BY <3>1, Zenon DEF Cut, Kept, Mid
      <4>4. PICK mid : mid = Mid OBVIOUS
      <4>5. PICK c : c = Cut OBVIOUS
      <4>6. mid \in Seq(Bytes) /\ c = IF Len(mid) < SizeLimit - 2 THEN Len(mid) ELSE SizeLimit - 2
        BY <2>4, <4>3, <4>4, <4>5, Zenon
      <4>7. Len(Limited(mid)) = c BY ONLY <4>6, LimitedShape
      <4> QED BY <4>2, <4>4, <4>5, <4>7, Zenon
    <3>2. CASE ~multiply BY <3>2, Zenon DEF Cut, Kept, Mid
    <3> QED BY <3>1, <3>2
  <2>8. ~(Len(body) < Len(Wire)) /\ ~(Cut < Len(Mid)) /\ Len(body) = Len(Wire)
    <3>1. ~(Len(Wire) < Len(Wire)) /\ ~(Len(Mid) < Len(Mid)) BY ONLY <2>5
    <3> QED BY <2>3, <2>7, <3>1, Zenon
  <2>9. outcome # "error" BY <2>6, <2>8, Zenon DEF BankInv
  <2>10. ASSUME outcome = "ok" PROVE rows = Requested(file, multiply)
    <3>1. Len(rows) = Len(List) BY <2>6, <2>7, <2>8, <2>10, Zenon DEF BankInv
    <3> QED BY <2>1, <2>6, <3>1, RowsAreFirst, Zenon DEF List
  <2> QED BY <2>9, <2>10
<1> QED BY <1>1, StreamInduction, PTL

(* Wherever the bank's size limit (streaming.py:56-83) or the network cuts *)
(* an export, and whichever answer without rows another server gives,      *)
(* next_row (stream.rs:91-145) has returned first rows of the file, and    *)
(* returns None only if nothing but white space, commas and brackets came  *)
(* behind them.                                                            *)
THEOREM OnlyWholeRows == Spec => []WholeRowsOnly
<1>1. IInv => WholeRowsOnly
  <2> SUFFICES ASSUME IInv PROVE WholeRowsOnly OBVIOUS
  <2>1. Types /\ (FromBank \/ body \in OtherBodies) BY Zenon DEF IInv
  <2>2. CASE FromBank
    <3>1. BankInv BY <2>2, Zenon DEF IInv
    <3>2. IsPrefix(rows, Requested(file, multiply)) BY <2>1, <3>1, RowsAreFirst, Zenon DEF List
    <3>3. ASSUME outcome = "ok", NEW i \in 1..Len(body), i > Len(Joined(rows)) + 2
          PROVE body[i] \in {"_", ",", "]"}
      <4>1. PICK e : e = RowsEnd(List, Len(rows)) OBVIOUS
      <4>2. Len(Joined(rows)) = e /\ e \in Nat BY <2>1, <3>1, <4>1, RowsAreFirst, Zenon
      <4>3. PICK size : size = Len(body) OBVIOUS
      <4>4. size \in Nat /\ i \in 1..size
        <5>1. body \in Seq(Bytes) BY <2>1, Zenon DEF Types
        <5>2. Len(body) \in Nat BY ONLY <5>1
        <5> QED BY <4>3, <5>2
      <4>5. i > e + 2 BY <3>3, <4>2, Zenon
      <4>6. i \in 3..size BY ONLY <4>2, <4>4, <4>5
      <4> QED BY <3>1, <3>3, <4>1, <4>3, <4>5, <4>6, Zenon DEF BankInv
    <3> QED BY <3>2, <3>3, Zenon DEF WholeRowsOnly
  <2>3. CASE body \in OtherBodies
    <3>1. rows = <<>> /\ outcome # "ok" BY <2>3, Zenon DEF IInv, OtherInv
    <3>2. List \in Seq(Texts) BY <2>1, WireIsWired
    <3>3. PICK list : list = List OBVIOUS
    <3>4. list \in Seq(Texts) BY <3>2, <3>3, Zenon
    <3>5. IsPrefix(<<>>, list)
      <4>1. <<>> \in Seq(Texts) /\ Len(<<>>) = 0 BY ONLY TRUE
      <4>2. 0 \in 0..Len(list) /\ 0 \in 0..0 /\ 0 <= Len(list) BY ONLY <3>4
      <4>3. SubSeq(list, 1, 0) \in Seq(Texts) /\ Len(SubSeq(list, 1, 0)) = 0
        BY ONLY <3>4, <4>2, SubSeqFrom1
      <4>4. SubSeq(list, 1, 0) = <<>> BY ONLY <4>3
      <4>5. SubSeq(<<>>, 1, 0) \in Seq(Texts) /\ Len(SubSeq(<<>>, 1, 0)) = 0
        BY ONLY <4>1, <4>2, SubSeqFrom1
      <4>6. SubSeq(<<>>, 1, 0) = <<>> BY ONLY <4>5
      <4> QED BY <4>1, <4>2, <4>4, <4>6, Zenon DEF IsPrefix
    <3> QED BY <3>1, <3>3, <3>5, Zenon DEF WholeRowsOnly, List
  <2> QED BY <2>1, <2>2, <2>3
<1> QED BY <1>1, StreamInduction, PTL
=============================================================================
