------------------------------ MODULE SeqLemmas ------------------------------
(* Facts about sequences used as stacks and queues: what is popped, what is  *)
(* left, and which elements a sequence without duplicates keeps.             *)
EXTENDS Integers, SequencesExt, TLAPS

\* What is left of a sequence when its last element is popped
LEMMA FrontLast ==
  ASSUME NEW S, NEW s \in Seq(S), s # <<>>
  PROVE  /\ Last(s) \in S
         /\ Front(s) \in Seq(S)
         /\ Len(Front(s)) = Len(s) - 1
         /\ \A i \in 1 .. Len(s) - 1 : Front(s)[i] = s[i]
         /\ Last(s) = s[Len(s)]
         /\ Len(s) \in Nat \ {0}
<1>1. Len(s) \in Nat \ {0}
  BY SMT
<1>2. Last(s) = s[Len(s)] /\ Last(s) \in S
  BY <1>1, SMT DEF Last
<1>3. Front(s) = SubSeq(s, 1, Len(s) - 1)
  BY DEF Front
<1>4. Len(Front(s)) = Len(s) - 1
  <2>1. ASSUME NEW n \in Nat, n < Len(s) PROVE Len(SubSeq(s, 1, n)) = n
    BY <2>1, SMT
  <2>2. Len(s) - 1 \in Nat /\ Len(s) - 1 < Len(s)
    BY <1>1
  <2> QED
    BY <1>3, <2>1, <2>2, Zenon
<1>5. Front(s) \in Seq(S) /\ \A i \in 1 .. Len(s) - 1 : Front(s)[i] = s[i]
  BY SMT DEF Front
<1> QED
  BY <1>1, <1>2, <1>4, <1>5

\* What is left of a sequence when its first element is taken
LEMMA HeadTail ==
  ASSUME NEW S, NEW s \in Seq(S), s # <<>>
  PROVE  /\ Head(s) \in S
         /\ Tail(s) \in Seq(S)
         /\ Len(Tail(s)) = Len(s) - 1
         /\ \A i \in 1 .. Len(s) - 1 : Tail(s)[i] = s[i + 1]
         /\ Head(s) = s[1]
         /\ Len(s) \in Nat \ {0}
<1>1. Len(s) \in Nat \ {0}
  BY SMT
<1> QED
  BY <1>1, SMT

\* A sequence is known by its first element and the rest
LEMMA SameHeadTail ==
  ASSUME NEW S, NEW s \in Seq(S), NEW r \in Seq(S), s # <<>>, r # <<>>,
         Head(s) = Head(r), Tail(s) = Tail(r)
  PROVE  s = r
<1>1. Len(s) - 1 = Len(r) - 1 /\ Len(s) \in Nat /\ Len(r) \in Nat
  BY HeadTail
<1>2. ASSUME NEW i \in 1 .. Len(s) PROVE s[i] = r[i]
  <2>1. CASE i = 1
    BY <2>1, HeadTail
  <2>2. CASE i # 1
    <3>1. i - 1 \in 1 .. Len(s) - 1 /\ (i - 1) + 1 = i
      BY <1>1, <2>2
    <3>2. Tail(s)[i - 1] = s[(i - 1) + 1] /\ Tail(r)[i - 1] = r[(i - 1) + 1]
      BY <1>1, <3>1, HeadTail
    <3> QED
      BY <3>1, <3>2
  <2> QED
    BY <2>1, <2>2
<1> QED
  BY <1>1, <1>2, SMT

\* The elements of a sequence are those at its positions
LEMMA RangeSeq ==
  ASSUME NEW S, NEW s \in Seq(S)
  PROVE  /\ DOMAIN s = 1 .. Len(s)
         /\ Len(s) \in Nat
         /\ Range(s) = {s[i] : i \in 1 .. Len(s)}
         /\ Range(s) \subseteq S
BY SMT DEF Range

LEMMA RangeEmpty == Range(<<>>) = {}
BY SMT DEF Range

\* What Append adds
LEMMA RangeAppend ==
  ASSUME NEW S, NEW s \in Seq(S), NEW e \in S
  PROVE  /\ Append(s, e) \in Seq(S)
         /\ Len(Append(s, e)) = Len(s) + 1
         /\ \A i \in 1 .. Len(s) : Append(s, e)[i] = s[i]
         /\ Append(s, e)[Len(s) + 1] = e
         /\ Range(Append(s, e)) = Range(s) \cup {e}
<1> DEFINE t == Append(s, e)
<1>1. /\ t \in Seq(S)
      /\ Len(s) \in Nat
      /\ Len(t) = Len(s) + 1
      /\ \A i \in 1 .. Len(s) : t[i] = s[i]
      /\ t[Len(s) + 1] = e
  BY SMT
<1>2. Range(t) = {t[i] : i \in 1 .. Len(s) + 1}
  BY <1>1, RangeSeq, Zenon
<1>3. Range(s) = {s[i] : i \in 1 .. Len(s)}
  BY RangeSeq
<1>4. ASSUME NEW x \in Range(t) PROVE x \in Range(s) \cup {e}
  BY <1>1, <1>2, <1>3, SMT
<1>5. Range(s) \subseteq Range(t) /\ e \in Range(t)
  <2>1. Len(s) + 1 \in 1 .. Len(s) + 1 /\ 1 .. Len(s) \subseteq 1 .. Len(s) + 1
    BY <1>1
  <2> HIDE DEF t
  <2> QED
    BY <1>1, <1>2, <1>3, <2>1, Zenon
<1> QED
  BY <1>1, <1>4, <1>5, Zenon

\* A sequence without duplicates stays so when a new element is appended
LEMMA InjectiveAppend ==
  ASSUME NEW S, NEW s \in Seq(S), NEW e \in S, IsInjective(s), e \notin Range(s)
  PROVE  IsInjective(Append(s, e))
<1>1. /\ Append(s, e) \in Seq(S)
      /\ Len(Append(s, e)) = Len(s) + 1
      /\ \A i \in 1 .. Len(s) : Append(s, e)[i] = s[i]
      /\ Append(s, e)[Len(s) + 1] = e
      /\ DOMAIN Append(s, e) = 1 .. Len(s) + 1
  BY RangeAppend, RangeSeq
<1>2. \A i \in 1 .. Len(s) : s[i] # e
  BY RangeSeq
<1>3. \A i, j \in 1 .. Len(s) : s[i] = s[j] => i = j
  BY RangeSeq DEF IsInjective
<1>4. Len(s) \in Nat
  BY RangeSeq
<1> HIDE DEF IsInjective
<1> QED
  BY <1>1, <1>2, <1>3, <1>4, SMT DEF IsInjective

\* Popping the last element of a sequence without duplicates removes it
LEMMA InjectiveFront ==
  ASSUME NEW S, NEW s \in Seq(S), s # <<>>, IsInjective(s)
  PROVE  /\ IsInjective(Front(s))
         /\ Last(s) \in Range(s)
         /\ Range(Front(s)) = Range(s) \ {Last(s)}
<1> DEFINE n == Len(s)
<1>1. /\ n \in Nat \ {0}
      /\ Len(Front(s)) = n - 1
      /\ Front(s) \in Seq(S)
      /\ \A i \in 1 .. n - 1 : Front(s)[i] = s[i]
      /\ Last(s) = s[n]
  BY FrontLast
<1>2. /\ DOMAIN s = 1 .. n
      /\ DOMAIN Front(s) = 1 .. n - 1
      /\ Range(s) = {s[i] : i \in 1 .. n}
      /\ Range(Front(s)) = {Front(s)[i] : i \in 1 .. n - 1}
  BY <1>1, RangeSeq
<1>3. \A i, j \in 1 .. n : s[i] = s[j] => i = j
  BY <1>2 DEF IsInjective
<1> HIDE DEF n
<1>4. IsInjective(Front(s))
  BY <1>1, <1>2, <1>3, SMT DEF IsInjective
<1>5. Last(s) \in Range(s)
  BY <1>1, <1>2
<1>6. Range(Front(s)) = Range(s) \ {Last(s)}
  <2>1. ASSUME NEW x \in Range(Front(s)) PROVE x \in Range(s) \ {Last(s)}
    <3>1. PICK i \in 1 .. n - 1 : x = s[i]
      BY <1>1, <1>2
    <3>2. i \in 1 .. n /\ n \in 1 .. n /\ i # n
      BY <1>1
    <3> QED
      BY <1>1, <1>2, <1>3, <3>1, <3>2
  <2>2. ASSUME NEW x \in Range(s) \ {Last(s)} PROVE x \in Range(Front(s))
    <3>1. PICK i \in 1 .. n : x = s[i]
      BY <1>2
    <3>2. i \in 1 .. n - 1
      BY <1>1, <3>1
    <3> QED
      BY <1>1, <1>2, <3>1, <3>2
  <2> QED
    BY <2>1, <2>2
<1> QED
  BY <1>4, <1>5, <1>6

\* Taking the first element of a sequence without duplicates removes it
LEMMA InjectiveTail ==
  ASSUME NEW S, NEW s \in Seq(S), s # <<>>, IsInjective(s)
  PROVE  /\ IsInjective(Tail(s))
         /\ Head(s) \in Range(s)
         /\ Range(Tail(s)) = Range(s) \ {Head(s)}
<1> DEFINE n == Len(s)
<1>1. /\ n \in Nat \ {0}
      /\ Len(Tail(s)) = n - 1
      /\ Tail(s) \in Seq(S)
      /\ \A i \in 1 .. n - 1 : Tail(s)[i] = s[i + 1]
      /\ Head(s) = s[1]
  BY HeadTail
<1>2. /\ DOMAIN s = 1 .. n
      /\ DOMAIN Tail(s) = 1 .. n - 1
      /\ Range(s) = {s[i] : i \in 1 .. n}
      /\ Range(Tail(s)) = {Tail(s)[i] : i \in 1 .. n - 1}
  BY <1>1, RangeSeq
<1>3. \A i, j \in 1 .. n : s[i] = s[j] => i = j
  BY <1>2 DEF IsInjective
<1> HIDE DEF n
<1>4. IsInjective(Tail(s))
  BY <1>1, <1>2, <1>3, SMT DEF IsInjective
<1>5. Head(s) \in Range(s)
  BY <1>1, <1>2
<1>6. Range(Tail(s)) = Range(s) \ {Head(s)}
  <2>1. ASSUME NEW x \in Range(Tail(s)) PROVE x \in Range(s) \ {Head(s)}
    <3>1. PICK i \in 1 .. n - 1 : x = s[i + 1]
      BY <1>1, <1>2
    <3>2. i + 1 \in 1 .. n /\ 1 \in 1 .. n /\ i + 1 # 1
      BY <1>1
    <3> QED
      BY <1>1, <1>2, <1>3, <3>1, <3>2
  <2>2. ASSUME NEW x \in Range(s) \ {Head(s)} PROVE x \in Range(Tail(s))
    <3>1. PICK i \in 1 .. n : x = s[i]
      BY <1>2
    <3>2. i - 1 \in 1 .. n - 1 /\ (i - 1) + 1 = i
      BY <1>1, <3>1
    <3> QED
      BY <1>1, <1>2, <3>1, <3>2
  <2> QED
    BY <2>1, <2>2
<1> QED
  BY <1>4, <1>5, <1>6
=============================================================================
