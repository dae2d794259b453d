------------------------- MODULE EnvironmentProofs --------------------------
(***************************************************************************)
(* Proofs about Environment, for every environment and every text.         *)
(*                                                                         *)
(* A quoted text is read back atom by atom, so the proof of the round trip *)
(* is an induction.  The library's induction theorems range over           *)
(* operators; the first two lemmas say the same of sets and functions.     *)
(***************************************************************************)
EXTENDS Environment, WellFoundedInduction, TLAPS

(* A set that holds 0 and the successor of each of its numbers holds them   *)
(* all: otherwise there would be a least number outside.                    *)
LEMMA NatSetInduction ==
    ASSUME NEW S, 0 \in S, \A n \in Nat : n \in S => n + 1 \in S
    PROVE  \A n \in Nat : n \in S
<1> DEFINE T == Nat \ S
<1> SUFFICES ASSUME T # {} PROVE FALSE
  OBVIOUS
<1>1. PICK m \in T : \A k \in T : ~ (<<k, m>> \in OpToRel(<, Nat))
  <2> T \subseteq Nat
    OBVIOUS
  <2> HIDE DEF T
  <2> QED
    BY NatLessThanWellFounded, WFMin
<1>2. \A k \in T : ~ (k < m)
  BY <1>1 DEF OpToRel
<1>3. m # 0 /\ m - 1 \in Nat /\ m - 1 \notin T
  BY <1>2
<1> QED
  BY <1>3

(* The same for the numbers up to a bound.                                  *)
LEMMA BoundedInduction ==
    ASSUME NEW N \in Nat, NEW S, 0 \in S,
           \A n \in 0 .. N : n < N /\ n \in S => n + 1 \in S
    PROVE  \A n \in 0 .. N : n \in S
<1> DEFINE T == {n \in Nat : n <= N => n \in S}
<1>1. 0 \in T /\ \A n \in Nat : n \in T => n + 1 \in T
  OBVIOUS
<1>2. \A n \in Nat : n \in T
  <2> HIDE DEF T
  <2> QED
    BY <1>1, NatSetInduction
<1> QED
  BY <1>2

(* f starts with c and goes on with h.                                      *)
Follows(f, N, c, h) ==
    f = [n \in 0 .. N |-> IF n = 0 THEN c ELSE h[<<n, f[n - 1]>>]]

(* A recursive definition defines something: every step function has a run. *)
LEMMA RunExists ==
    ASSUME NEW X, NEW c \in X, NEW N \in Nat, NEW h \in [(1 .. N) \X X -> X]
    PROVE  \E f \in [0 .. N -> X] : Follows(f, N, c, h)
<1> DEFINE Runs(k) == \E f \in [0 .. k -> X] : Follows(f, k, c, h)
           S == {k \in 0 .. N : Runs(k)}
<1>1. 0 \in S
  <2> DEFINE f == [n \in 0 .. 0 |-> c]
  <2>1. f \in [0 .. 0 -> X] /\ Follows(f, 0, c, h)
    BY DEF Follows
  <2> QED
    BY <2>1
<1>2. ASSUME NEW k \in 0 .. N, k < N, k \in S PROVE k + 1 \in S
  <2> SUFFICES Runs(k + 1)
    BY <1>2
  <2>0. Runs(k)
    BY <1>2
  <2>1. PICK g \in [0 .. k -> X] : Follows(g, k, c, h)
    BY <2>0
  <2> DEFINE f == [n \in 0 .. k + 1 |-> IF n = k + 1 THEN h[<<n, g[k]>>] ELSE g[n]]
  <2>2. f \in [0 .. k + 1 -> X]
    BY <1>2
  <2>3. \A n \in 0 .. k + 1 : f[n] = IF n = 0 THEN c ELSE h[<<n, f[n - 1]>>]
    <3>1. \A n \in 0 .. k : g[n] = IF n = 0 THEN c ELSE h[<<n, g[n - 1]>>]
      BY <2>1 DEF Follows
    <3>2. \A n \in 0 .. k : f[n] = g[n]
      OBVIOUS
    <3>3. f[k + 1] = h[<<k + 1, g[k]>>]
      OBVIOUS
    <3> HIDE DEF f
    <3> SUFFICES ASSUME NEW n \in 0 .. k + 1
                 PROVE  f[n] = IF n = 0 THEN c ELSE h[<<n, f[n - 1]>>]
      OBVIOUS
    <3>4. CASE n = k + 1
      <4>1. n # 0 /\ n - 1 = k /\ k \in 0 .. k
        BY <3>4
      <4> QED
        BY <3>2, <3>3, <3>4, <4>1
    <3>5. CASE n = 0
      <4>1. 0 \in 0 .. k
        OBVIOUS
      <4> QED
        BY <3>1, <3>2, <3>5, <4>1
    <3>6. CASE n \in 1 .. k
      <4>1. n # 0 /\ n \in 0 .. k /\ n - 1 \in 0 .. k
        BY <3>6
      <4> QED
        BY <3>1, <3>2, <4>1
    <3> QED
      BY <3>4, <3>5, <3>6
  <2>4. Follows(f, k + 1, c, h)
    BY <2>3 DEF Follows
  <2> QED
    BY <2>2, <2>4
<1>3. \A k \in 0 .. N : k \in S
  <2> HIDE DEF S
  <2> QED
    BY <1>1, <1>2, BoundedInduction
<1>4. N \in S
  BY <1>3
<1> QED
  BY <1>4

-----------------------------------------------------------------------------
(* Reading.                                                                 *)

States(X) == [at : {"text", "quote", "malformed"}, text : Seq(X)]
Fresh     == [at |-> "text", text |-> <<>>]

LEMMA ReadType ==
    ASSUME NEW X, Quote \in X, NEW r \in States(X), NEW c \in X
    PROVE  Read(r, c) \in States(X)
BY DEF Read, States

(* What Reading goes through, one state per atom.                           *)
Trace(a, atoms) ==
    a = [n \in 0 .. Len(atoms) |-> IF n = 0 THEN Fresh ELSE Read(a[n - 1], atoms[n])]

(* There is only one trace of a text, however far it is followed.           *)
Traces(a, atoms, N) ==
    \A n \in 0 .. N : a[n] = IF n = 0 THEN Fresh ELSE Read(a[n - 1], atoms[n])

LEMMA TraceFollowed ==
    ASSUME NEW s, NEW a, Trace(a, s)
    PROVE  Traces(a, s, Len(s))
<1> DEFINE g == [n \in 0 .. Len(s) |-> IF n = 0 THEN Fresh ELSE Read(a[n - 1], s[n])]
<1>1. a = g
  BY DEF Trace
<1>2. \A n \in 0 .. Len(s) : g[n] = IF n = 0 THEN Fresh ELSE Read(a[n - 1], s[n])
  OBVIOUS
<1>3. \A n \in 0 .. Len(s) : a[n] = g[n]
  <2> HIDE DEF g
  <2> QED
    BY <1>1
<1> HIDE DEF g
<1> QED
  BY <1>2, <1>3 DEF Traces

LEMMA TraceUnique ==
    ASSUME NEW s, NEW N \in Nat, NEW a, NEW b, Traces(a, s, N), Traces(b, s, N)
    PROVE  a[N] = b[N]
<1> DEFINE S == {n \in 0 .. N : a[n] = b[n]}
<1>1. 0 \in S
  <2>1. 0 \in 0 .. N
    OBVIOUS
  <2> QED
    BY <2>1 DEF Traces
<1>2. ASSUME NEW n \in 0 .. N, n < N, n \in S PROVE n + 1 \in S
  <2>1. n + 1 \in 0 .. N /\ n + 1 # 0 /\ (n + 1) - 1 = n
    BY <1>2
  <2> QED
    BY <1>2, <2>1 DEF Traces
<1>3. \A n \in 0 .. N : n \in S
  <2> HIDE DEF S
  <2> QED
    BY <1>1, <1>2, BoundedInduction
<1> QED
  BY <1>3

LEMMA ReadingTrace ==
    ASSUME NEW X, Quote \in X, NEW s \in Seq(X)
    PROVE  \E a \in [0 .. Len(s) -> States(X)] : Trace(a, s) /\ Reading(s) = a[Len(s)]
<1> DEFINE h == [p \in (1 .. Len(s)) \X States(X) |-> Read(p[2], s[p[1]])]
           after == CHOOSE a : Trace(a, s)
<1>1. h \in [(1 .. Len(s)) \X States(X) -> States(X)]
  BY ReadType
<1>2. Fresh \in States(X)
  BY DEF Fresh, States
<1>3. PICK f \in [0 .. Len(s) -> States(X)] : Follows(f, Len(s), Fresh, h)
  <2> Len(s) \in Nat
    OBVIOUS
  <2> HIDE DEF h
  <2> QED
    BY <1>1, <1>2, RunExists
<1>4. Traces(f, s, Len(s))
  <2> HIDE DEF after
  <2>1. ASSUME NEW n \in 1 .. Len(s) PROVE h[<<n, f[n - 1]>>] = Read(f[n - 1], s[n])
    <3>1. n - 1 \in 0 .. Len(s)
      OBVIOUS
    <3>2. <<n, f[n - 1]>> \in (1 .. Len(s)) \X States(X)
      BY <3>1
    <3> QED
      BY <3>2
  <2>2. \A n \in 0 .. Len(s) : f[n] = IF n = 0 THEN Fresh ELSE h[<<n, f[n - 1]>>]
    BY <1>3 DEF Follows
  <2> HIDE DEF h
  <2> SUFFICES ASSUME NEW n \in 0 .. Len(s)
               PROVE  f[n] = IF n = 0 THEN Fresh ELSE Read(f[n - 1], s[n])
    BY DEF Traces
  <2>3. CASE n = 0
    BY <2>2, <2>3
  <2>4. CASE n # 0
    <3>1. n \in 1 .. Len(s)
      BY <2>4
    <3>2. f[n] = h[<<n, f[n - 1]>>]
      BY <2>2, <2>4
    <3> QED
      BY <2>1, <2>4, <3>1, <3>2
  <2> QED
    BY <2>3, <2>4
<1>5. Trace(f, s)
  BY <1>4 DEF Trace, Traces
<1>6. Trace(after, s)
  <2> HIDE DEF Trace
  <2> QED
    BY <1>5, Zenon
<1>7. Reading(s) = after[Len(s)]
  BY DEF Reading, Trace, Fresh
<1>8. after[Len(s)] = f[Len(s)]
  <2> HIDE DEF after
  <2>1. Traces(after, s, Len(s))
    BY <1>6, TraceFollowed
  <2>2. Len(s) \in Nat
    OBVIOUS
  <2> QED
    BY <1>4, <2>1, <2>2, TraceUnique
<1> QED
  BY <1>5, <1>7, <1>8

(* One more atom is one more step of the reader.                            *)
LEMMA ReadingStep ==
    ASSUME NEW X, Quote \in X, NEW s \in Seq(X), NEW c \in X
    PROVE  Reading(Append(s, c)) = Read(Reading(s), c)
<1> DEFINE t == Append(s, c)
<1>1. /\ t \in Seq(X) /\ Len(t) = Len(s) + 1 /\ t[Len(t)] = c
      /\ \A n \in 1 .. Len(s) : t[n] = s[n]
  OBVIOUS
<1> HIDE DEF t
<1>2. PICK a \in [0 .. Len(s) -> States(X)] : Trace(a, s) /\ Reading(s) = a[Len(s)]
  BY ReadingTrace
<1>3. PICK b \in [0 .. Len(t) -> States(X)] : Trace(b, t) /\ Reading(t) = b[Len(t)]
  BY <1>1, ReadingTrace
<1>4. Traces(b, t, Len(t))
  BY <1>3, TraceFollowed
<1>5. a[Len(s)] = b[Len(s)]
  <2>1. Len(s) \in Nat /\ Traces(a, s, Len(s))
    BY <1>2, TraceFollowed
  <2>2. Traces(b, s, Len(s))
    <3> SUFFICES ASSUME NEW n \in 0 .. Len(s)
                 PROVE  b[n] = IF n = 0 THEN Fresh ELSE Read(b[n - 1], s[n])
      BY DEF Traces
    <3>1. n \in 0 .. Len(t) /\ (n # 0 => t[n] = s[n])
      BY <1>1
    <3>2. b[n] = IF n = 0 THEN Fresh ELSE Read(b[n - 1], t[n])
      BY <1>4, <3>1 DEF Traces
    <3> QED
      BY <3>1, <3>2
  <2> QED
    BY <2>1, <2>2, TraceUnique
<1>6. b[Len(t)] = Read(b[Len(s)], c)
  <2>1. Len(t) \in 0 .. Len(t) /\ Len(t) # 0 /\ Len(t) - 1 = Len(s)
    BY <1>1
  <2> QED
    BY <1>1, <1>4, <2>1 DEF Traces
<1> QED
  BY <1>2, <1>3, <1>5, <1>6 DEF t

(* What the reader makes of one quoted atom.                                *)
Quoted(c)    == IF c = Quote THEN <<Quote, Quote>> ELSE <<c>>
AtText(text) == [at |-> "text", text |-> text]

LEMMA ReadingQuoted ==
    ASSUME NEW X, Quote \in X, NEW s \in Seq(X), NEW u \in Seq(X), NEW c \in X,
           Reading(s) = AtText(u)
    PROVE  s \o Quoted(c) \in Seq(X) /\ Reading(s \o Quoted(c)) = AtText(Append(u, c))
<1>1. CASE c = Quote
  <2>1. s \o Quoted(c) = Append(Append(s, Quote), Quote)
    BY <1>1 DEF Quoted
  <2>2. Append(s, Quote) \in Seq(X)
    OBVIOUS
  <2>3. Reading(Append(s, Quote)) = [at |-> "quote", text |-> u]
    <3>1. Reading(Append(s, Quote)) = Read(AtText(u), Quote)
      BY ReadingStep
    <3> QED
      BY <3>1 DEF AtText, Read
  <2>4. Reading(Append(Append(s, Quote), Quote)) = Read([at |-> "quote", text |-> u], Quote)
    BY <2>2, <2>3, ReadingStep
  <2> QED
    BY <1>1, <2>1, <2>2, <2>4 DEF AtText, Read
<1>2. CASE c # Quote
  <2>1. s \o Quoted(c) = Append(s, c)
    BY <1>2 DEF Quoted
  <2>2. Reading(Append(s, c)) = Read(AtText(u), c)
    BY ReadingStep
  <2>3. Read(AtText(u), c) = AtText(Append(u, c))
    BY <1>2 DEF AtText, Read
  <2>4. Append(s, c) \in Seq(X)
    OBVIOUS
  <2> QED
    BY <2>1, <2>2, <2>3, <2>4
<1> QED
  BY <1>1, <1>2

(* FlattenSeq goes through the pieces from the left.                        *)
Joins(g, pieces) ==
    g = [i \in 1 .. Len(pieces) |-> IF i = 1 THEN pieces[i] ELSE g[i - 1] \o pieces[i]]

LEMMA Flattened ==
    ASSUME NEW X, NEW pieces \in Seq(Seq(X)), Len(pieces) > 0
    PROVE  \E g : Joins(g, pieces) /\ FlattenSeq(pieces) = g[Len(pieces)]
<1> DEFINE N == Len(pieces)
           h == [p \in (1 .. N) \X Seq(X) |-> p[2] \o pieces[p[1]]]
           flatten == CHOOSE g : Joins(g, pieces)
<1>0. \A i \in 1 .. N, x \in Seq(X) : h[<<i, x>>] = x \o pieces[i]
  OBVIOUS
<1>1. PICK f \in [0 .. N -> Seq(X)] :
        f[0] = <<>> /\ \A n \in 1 .. N : f[n] = h[<<n, f[n - 1]>>]
  <2> DEFINE Y == Seq(X)
             c == <<>>
  <2>1. N \in Nat /\ c \in Y
    OBVIOUS
  <2>2. h \in [(1 .. N) \X Y -> Y]
    OBVIOUS
  <2> HIDE DEF h, N, Y, c
  <2>3. PICK f \in [0 .. N -> Y] : Follows(f, N, c, h)
    BY <2>1, <2>2, RunExists
  <2>4. f[0] = c /\ \A n \in 1 .. N : f[n] = h[<<n, f[n - 1]>>]
    <3>1. \A n \in 0 .. N : f[n] = IF n = 0 THEN c ELSE h[<<n, f[n - 1]>>]
      BY <2>3 DEF Follows
    <3>2. 0 \in 0 .. N /\ \A n \in 1 .. N : n \in 0 .. N /\ n # 0
      BY <2>1
    <3> QED
      BY <3>1, <3>2
  <2> QED
    BY <2>3, <2>4 DEF Y, c
<1>2. \A i \in 1 .. N : f[i - 1] \in Seq(X) /\ f[i] = f[i - 1] \o pieces[i]
  <2>1. \A i \in 1 .. N : i - 1 \in 0 .. N
    OBVIOUS
  <2> HIDE DEF h, N
  <2> QED
    BY <1>0, <1>1, <2>1
<1> DEFINE g == [i \in 1 .. N |-> f[i]]
<1>4. \A i \in 1 .. N : g[i] = IF i = 1 THEN pieces[i] ELSE g[i - 1] \o pieces[i]
  <2> SUFFICES ASSUME NEW i \in 1 .. N
               PROVE  g[i] = IF i = 1 THEN pieces[i] ELSE g[i - 1] \o pieces[i]
    OBVIOUS
  <2>0. g[i] = f[i] /\ (i # 1 => g[i - 1] = f[i - 1]) /\ pieces[i] \in Seq(X)
    OBVIOUS
  <2> HIDE DEF g, h
  <2>1. CASE i = 1
    <3>0. 1 \in 1 .. N /\ 1 - 1 = 0
      BY <2>1
    <3>1. f[1] = f[0] \o pieces[1]
      BY <1>2, <3>0
    <3>2. f[1] = pieces[1]
      BY <1>1, <2>0, <2>1, <3>1
    <3> QED
      BY <2>0, <2>1, <3>2
  <2>2. CASE i # 1
    BY <1>2, <2>0, <2>2
  <2> QED
    BY <2>1, <2>2
<1>5. Joins(g, pieces)
  BY <1>4 DEF Joins
<1>6. Joins(flatten, pieces)
  <2> HIDE DEF g
  <2> QED
    BY <1>5, Zenon
<1>7. FlattenSeq(pieces) = flatten[N]
  BY DEF FlattenSeq, Joins
<1> QED
  BY <1>6, <1>7

(* From the empty sequence on, each piece is joined to what there is.       *)
LEMMA FlattenedStepwise ==
    ASSUME NEW X, NEW pieces \in Seq(Seq(X))
    PROVE  \E j : /\ j[0] = <<>>
                  /\ \A n \in 1 .. Len(pieces) : j[n] = j[n - 1] \o pieces[n]
                  /\ FlattenSeq(pieces) = j[Len(pieces)]
<1> DEFINE N == Len(pieces)
<1>1. CASE N = 0
  <2> DEFINE j == [n \in 0 .. 0 |-> <<>>]
  <2>1. j[0] = <<>> /\ N = 0 /\ FlattenSeq(pieces) = <<>>
    BY <1>1 DEF FlattenSeq
  <2>2. \A n \in 1 .. N : FALSE
    BY <1>1
  <2> QED
    BY <2>1, <2>2
<1>2. CASE N > 0
  <2>1. PICK g : Joins(g, pieces) /\ FlattenSeq(pieces) = g[N]
    BY <1>2, Flattened
  <2>2. \A n \in 1 .. N : g[n] = IF n = 1 THEN pieces[n] ELSE g[n - 1] \o pieces[n]
    BY <2>1 DEF Joins
  <2> DEFINE j == [n \in 0 .. N |-> IF n = 0 THEN <<>> ELSE g[n]]
  <2>3. j[0] = <<>> /\ \A n \in 1 .. N : j[n] = g[n]
    BY <1>2
  <2>4. N \in 1 .. N /\ FlattenSeq(pieces) = j[N]
    BY <1>2, <2>1
  <2>5. ASSUME NEW n \in 1 .. N PROVE j[n] = j[n - 1] \o pieces[n]
    <3>1. pieces[n] \in Seq(X)
      OBVIOUS
    <3> HIDE DEF j, N
    <3>2. CASE n = 1
      <4>1. j[n] = pieces[n]
        BY <2>2, <2>3, <3>2
      <4>2. j[n - 1] = <<>>
        BY <2>3, <3>2
      <4>3. <<>> \o pieces[n] = pieces[n]
        BY <3>1
      <4> QED
        BY <4>1, <4>2, <4>3
    <3>3. CASE n # 1
      <4>1. n - 1 \in 1 .. N
        BY <3>3 DEF N
      <4> QED
        BY <2>2, <2>3, <3>3, <4>1
    <3> QED
      BY <3>2, <3>3
  <2> HIDE DEF j
  <2> QED
    BY <2>3, <2>4, <2>5
<1>3. N = 0 \/ N > 0
  OBVIOUS
<1> QED
  BY <1>1, <1>2, <1>3

LEMMA ReadingNothing == Reading(<<>>) = AtText(<<>>)
<1>1. <<>> \in Seq({Quote}) /\ Len(<<>>) = 0
  OBVIOUS
<1>2. PICK a : Trace(a, <<>>) /\ Reading(<<>>) = a[Len(<<>>)]
  <2>1. Quote \in {Quote}
    OBVIOUS
  <2> QED
    BY <1>1, <2>1, ReadingTrace
<1>3. a[0] = Fresh
  <2>1. 0 \in 0 .. Len(<<>>)
    BY <1>1
  <2> QED
    BY <1>2, <2>1 DEF Trace
<1> QED
  BY <1>1, <1>2, <1>3 DEF Fresh, AtText

(* The reader has understood the whole text when it has read it quoted.     *)
LEMMA ReadingBody ==
    ASSUME NEW X, Quote \in X, NEW text \in Seq(X)
    PROVE  LET body == FlattenSeq([i \in DOMAIN text |-> Quoted(text[i])])
           IN  body \in Seq(X) /\ Reading(body) = AtText(text)
<1> DEFINE N == Len(text)
           pieces == [i \in DOMAIN text |-> Quoted(text[i])]
<1>1. pieces \in Seq(Seq(X)) /\ Len(pieces) = N /\ \A n \in 1 .. N : pieces[n] = Quoted(text[n])
  <2>1. \A n \in 1 .. N : Quoted(text[n]) \in Seq(X)
    BY DEF Quoted
  <2> QED
    BY <2>1
<1>2. PICK j : /\ j[0] = <<>>
               /\ \A n \in 1 .. N : j[n] = j[n - 1] \o pieces[n]
               /\ FlattenSeq(pieces) = j[N]
  <2> HIDE DEF pieces
  <2> QED
    BY <1>1, FlattenedStepwise
<1> DEFINE S == {n \in 0 .. N : j[n] \in Seq(X) /\ Reading(j[n]) = AtText(SubSeq(text, 1, n))}
<1>3. 0 \in S
  <2>1. SubSeq(text, 1, 0) = <<>> /\ <<>> \in Seq(X) /\ 0 \in 0 .. N
    OBVIOUS
  <2>2. j[0] \in Seq(X) /\ Reading(j[0]) = AtText(SubSeq(text, 1, 0))
    BY <1>2, <2>1, ReadingNothing
  <2> QED
    BY <2>1, <2>2
<1>4. ASSUME NEW n \in 0 .. N, n < N, n \in S PROVE n + 1 \in S
  <2> DEFINE u == SubSeq(text, 1, n)
             c == text[n + 1]
  <2>1. n + 1 \in 1 .. N /\ (n + 1) - 1 = n /\ n + 1 \in 0 .. N
    BY <1>4
  <2>2. u \in Seq(X) /\ c \in X /\ SubSeq(text, 1, n + 1) = Append(u, c)
    BY <2>1
  <2>3. j[n] \in Seq(X) /\ Reading(j[n]) = AtText(u)
    BY <1>4
  <2>4. j[n + 1] = j[n] \o Quoted(c)
    BY <1>1, <1>2, <2>1
  <2> HIDE DEF u, c
  <2>5. j[n + 1] \in Seq(X) /\ Reading(j[n + 1]) = AtText(Append(u, c))
    BY <2>2, <2>3, <2>4, ReadingQuoted
  <2> QED
    BY <2>1, <2>2, <2>5
<1>5. \A n \in 0 .. N : n \in S
  <2>1. N \in Nat
    OBVIOUS
  <2> HIDE DEF S, N
  <2> QED
    BY <1>3, <1>4, <2>1, BoundedInduction
<1>6. N \in S /\ SubSeq(text, 1, N) = text
  BY <1>5
<1> QED
  BY <1>2, <1>6

(***************************************************************************)
(* Whatever yq quotes, a YAML reader understands as it was: database names,*)
(* users, passwords and secrets, with quotes in them or without.           *)
(***************************************************************************)
THEOREM QuotingRoundTrip ==
    ASSUME NEW X, NEW text \in Seq(X)
    PROVE  Unquoted(yq(text)) = text
<1> DEFINE Z == X \cup {Quote}
           body == FlattenSeq([i \in DOMAIN text |-> Quoted(text[i])])
<1>1. Quote \in Z /\ text \in Seq(Z)
  OBVIOUS
<1>2. body \in Seq(Z) /\ Reading(body) = AtText(text)
  <2> HIDE DEF Z
  <2> QED
    BY <1>1, ReadingBody
<1>3. yq(text) = <<Quote>> \o body \o <<Quote>>
  BY DEF yq, Quoted
<1> HIDE DEF body
<1>4. Head(yq(text)) = Quote /\ Tail(yq(text)) = Append(body, Quote)
  BY <1>2, <1>3
<1>5. Reading(Append(body, Quote)) = Read(AtText(text), Quote)
  <2> HIDE DEF Z
  <2> QED
    BY <1>1, <1>2, ReadingStep
<1>6. Read(AtText(text), Quote) = [at |-> "quote", text |-> text]
  BY DEF Read, AtText
<1>7. Reading(Tail(yq(text))) = [at |-> "quote", text |-> text]
  BY <1>4, <1>5, <1>6
<1> QED
  BY <1>4, <1>7 DEF Unquoted
=============================================================================
