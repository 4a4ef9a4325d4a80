------------------------ MODULE UserStatementsProofs ------------------------
(***************************************************************************)
(* Proofs about UserStatements, for any goroutines, keys, calls and lists  *)
(* of columns.  Two calls share a cached statement when they have the same *)
(* key, so the heart of it is that a key can be read back: keys are        *)
(* written without separators between the names of columns, and one name   *)
(* may be a prefix of another.                                             *)
(***************************************************************************)
EXTENDS UserStatements, SequenceTheorems, WellFoundedInduction, TLAPS

\* Induction for sets of numbers: the least number outside the set.
LEMMA SetInduction ==
    ASSUME NEW T \in SUBSET Nat, 0 \in T, \A n \in T : n + 1 \in T
    PROVE  T = Nat
<1> SUFFICES ASSUME Nat \ T # {} PROVE FALSE
  OBVIOUS
<1>1. PICK n \in Nat \ T : \A m \in Nat \ T : ~(<<m, n>> \in OpToRel(<, Nat))
  BY NatLessThanWellFounded, WFMin, Zenon
<1>2. \A m \in Nat \ T : ~(m < n)
  BY <1>1 DEF OpToRel
<1>3. n # 0 /\ n - 1 \in Nat /\ n - 1 < n
  OBVIOUS
<1>4. n - 1 \in T
  BY <1>2, <1>3
<1> QED
  BY <1>3, <1>4

-----------------------------------------------------------------------------
(* Sequences that are put together.                                        *)

Piece == {"id", "created_at", "ethereum_challenge", "_sent"}
Kind == {"none", "infer", "whitelist", "blacklist", "greylist"}
Token == Piece \cup Kind \cup {"."} \cup BOOLEAN

Joins(k, s, t) == k = s \o t

\* Length and entries of a concatenation.
LEMMA JoinFacts ==
    ASSUME NEW s \in Seq(Token), NEW t \in Seq(Token), NEW k, Joins(k, s, t)
    PROVE  /\ k \in Seq(Token) /\ Len(k) = Len(s) + Len(t)
           /\ Len(k) \in Nat /\ Len(s) \in Nat /\ Len(t) \in Nat
           /\ \A i \in 1 .. Len(s) : k[i] = s[i]
           /\ \A i \in 1 .. Len(t) : k[Len(s) + i] = t[i]
<1>1. /\ s \o t \in Seq(Token) /\ Len(s \o t) = Len(s) + Len(t)
      /\ Len(s \o t) \in Nat /\ Len(s) \in Nat /\ Len(t) \in Nat
      /\ \A i \in 1 .. Len(s) : (s \o t)[i] = s[i]
      /\ \A i \in 1 .. Len(t) : (s \o t)[Len(s) + i] = t[i]
  OBVIOUS
<1>2. k = s \o t
  BY DEF Joins
<1> QED
  BY <1>1, <1>2, Zenon

\* The parts, when the first ones are equally long.
LEMMA SameLength ==
    ASSUME NEW s \in Seq(Token), NEW t \in Seq(Token), NEW v \in Seq(Token),
           NEW w \in Seq(Token), NEW k, Joins(k, s, v), Joins(k, t, w)
    PROVE  Len(s) = Len(t) => s = t /\ v = w
<1>1. /\ Len(s) \in Nat /\ Len(v) \in Nat /\ Len(k) = Len(s) + Len(v)
      /\ \A i \in 1 .. Len(s) : k[i] = s[i]
      /\ \A i \in 1 .. Len(v) : k[Len(s) + i] = v[i]
  BY JoinFacts
<1>2. /\ Len(w) \in Nat /\ Len(k) = Len(t) + Len(w)
      /\ \A i \in 1 .. Len(t) : k[i] = t[i]
      /\ \A i \in 1 .. Len(w) : k[Len(t) + i] = w[i]
  BY JoinFacts
<1> HAVE Len(s) = Len(t)
<1>3. Len(v) = Len(w)
  BY <1>1, <1>2
<1>4. /\ \A i \in 1 .. Len(s) : s[i] = t[i]
      /\ \A i \in 1 .. Len(v) : v[i] = w[i]
  BY <1>1, <1>2, <1>3, Zenon
<1> QED
  BY <1>3, <1>4, SeqEqual

\* The parts, when the first ones have pieces of names only and the others begin
\* with something else.
LEMMA NotLonger ==
    ASSUME NEW s \in Seq(Piece), NEW t \in Seq(Piece), NEW v \in Seq(Token),
           NEW w \in Seq(Token), NEW k, v = <<>> \/ v[1] \notin Piece,
           Joins(k, s, v), Joins(k, t, w)
    PROVE  Len(t) =< Len(s)
<1> SUFFICES ASSUME ~(Len(t) =< Len(s)) PROVE FALSE
  OBVIOUS
<1>1. s \in Seq(Token) /\ t \in Seq(Token)
  BY DEF Token
<1>2. /\ Len(s) \in Nat /\ Len(t) \in Nat /\ Len(v) \in Nat /\ Len(w) \in Nat
      /\ Len(k) = Len(s) + Len(v) /\ Len(k) = Len(t) + Len(w)
      /\ \A i \in 1 .. Len(v) : k[Len(s) + i] = v[i]
      /\ \A i \in 1 .. Len(t) : k[i] = t[i]
  BY <1>1, JoinFacts
<1>3. 1 \in 1 .. Len(v) /\ Len(s) + 1 \in 1 .. Len(t)
  BY <1>2
<1>4. v # <<>> /\ k[Len(s) + 1] = v[1]
  BY <1>2, <1>3
<1>5. k[Len(s) + 1] \in Piece
  BY <1>2, <1>3
<1> QED
  BY <1>4, <1>5

\* A sequence has one beginning of pieces after which something else, or nothing, follows.
LEMMA Split ==
    ASSUME NEW s \in Seq(Piece), NEW t \in Seq(Piece), NEW v \in Seq(Token),
           NEW w \in Seq(Token), NEW k, v = <<>> \/ v[1] \notin Piece,
           w = <<>> \/ w[1] \notin Piece, Joins(k, s, v), Joins(k, t, w)
    PROVE  s = t /\ v = w
<1>1. Len(t) =< Len(s) /\ Len(s) =< Len(t)
  BY NotLonger
<1>2. Len(s) \in Nat /\ Len(t) \in Nat /\ s \in Seq(Token) /\ t \in Seq(Token)
  BY DEF Token
<1>3. Len(s) = Len(t)
  BY <1>1, <1>2
<1> QED
  BY <1>2, <1>3, SameLength

\* Concatenation is associative.
LEMMA Regroup ==
    ASSUME NEW s \in Seq(Token), NEW t \in Seq(Token), NEW v \in Seq(Token),
           NEW k, Joins(k, s \o t, v)
    PROVE  t \o v \in Seq(Token) /\ Joins(k, s, t \o v)
<1>1. (s \o t) \o v = s \o (t \o v) /\ t \o v \in Seq(Token)
  OBVIOUS
<1>2. k = (s \o t) \o v
  BY DEF Joins
<1> QED
  BY <1>1, <1>2, Zenon DEF Joins

-----------------------------------------------------------------------------
(* Names, written one after the other.                                     *)

\* The recursive function in Names.
Writes(cols, f) ==
    f = [n \in Nat |-> IF n = 0 THEN <<>> ELSE f[n - 1] \o Name(cols[n])]
Written(cols) == CHOOSE f : Writes(cols, f)

\* A function that follows the equation as far as k.
WritesTo(cols, g, k) ==
    g[0] = <<>> /\ \A n \in 1 .. k : g[n] = g[n - 1] \o Name(cols[n])

\* Two functions that write names one by one are equal as far as both go.
LEMMA WritesToUnique ==
    ASSUME NEW cols, NEW g, NEW h, NEW j \in Nat, NEW k \in Nat,
           WritesTo(cols, g, j), WritesTo(cols, h, k)
    PROVE  \A n \in Nat : n =< j /\ n =< k => g[n] = h[n]
<1> DEFINE T == {n \in Nat : n =< j /\ n =< k => g[n] = h[n]}
<1>1. 0 \in T
  BY DEF WritesTo
<1>2. ASSUME NEW n \in T PROVE n + 1 \in T
  <2> SUFFICES ASSUME n + 1 =< j, n + 1 =< k PROVE g[n + 1] = h[n + 1]
    OBVIOUS
  <2>1. g[n] = h[n] /\ n + 1 \in 1 .. j /\ n + 1 \in 1 .. k /\ (n + 1) - 1 = n
    OBVIOUS
  <2> QED
    BY <2>1 DEF WritesTo
<1>3. T = Nat
  <2> HIDE DEF T
  <2>1. T \in SUBSET Nat
    BY DEF T
  <2> QED
    BY <1>1, <1>2, <2>1, SetInduction
<1> QED
  BY <1>3

\* For every length there is a function that writes names one by one.
LEMMA WritesToExists ==
    ASSUME NEW cols, NEW k \in Nat
    PROVE  \E g : WritesTo(cols, g, k)
<1> DEFINE T == {n \in Nat : \E g : WritesTo(cols, g, n)}
<1>1. 0 \in T
  <2>1. WritesTo(cols, [n \in {0} |-> <<>>], 0)
    BY DEF WritesTo
  <2> QED
    BY <2>1
<1>2. ASSUME NEW n \in T PROVE n + 1 \in T
  <2>1. PICK g : WritesTo(cols, g, n)
    OBVIOUS
  <2> DEFINE last == g[n] \o Name(cols[n + 1])
             h == [m \in 0 .. (n + 1) |-> IF m = n + 1 THEN last ELSE g[m]]
  <2>2. \A m \in 0 .. n : h[m] = g[m]
    OBVIOUS
  <2>3. h[n + 1] = last
    OBVIOUS
  <2> HIDE DEF h
  <2>4. h[0] = <<>>
    BY <2>1, <2>2 DEF WritesTo
  <2>5. ASSUME NEW m \in 1 .. (n + 1) PROVE h[m] = h[m - 1] \o Name(cols[m])
    <3>1. h[m - 1] = g[m - 1]
      BY <2>2
    <3>2. CASE m = n + 1
      <4>1. m - 1 = n
        BY <3>2
      <4>2. h[m] = g[n] \o Name(cols[m])
        BY <2>3, <3>2
      <4> QED
        BY <3>1, <4>1, <4>2
    <3>3. CASE m # n + 1
      <4>1. m \in 1 .. n /\ m \in 0 .. n
        BY <3>3
      <4>2. g[m] = g[m - 1] \o Name(cols[m])
        BY <2>1, <4>1 DEF WritesTo
      <4>3. h[m] = g[m]
        BY <2>2, <4>1
      <4> QED
        BY <3>1, <4>2, <4>3
    <3> QED
      BY <3>2, <3>3
  <2>6. WritesTo(cols, h, n + 1)
    BY <2>4, <2>5 DEF WritesTo
  <2> QED
    BY <2>6
<1>3. T = Nat
  <2> HIDE DEF T
  <2>1. T \in SUBSET Nat
    BY DEF T
  <2> QED
    BY <1>1, <1>2, <2>1, SetInduction
<1> QED
  BY <1>3

\* The recursive function exists, so its equation holds of it.
LEMMA WrittenIs ==
    ASSUME NEW cols
    PROVE  /\ Written(cols)[0] = <<>>
           /\ \A n \in Nat \ {0} : Written(cols)[n] = Written(cols)[n - 1] \o Name(cols[n])
<1> DEFINE G(k) == CHOOSE g : WritesTo(cols, g, k)
           f == [n \in Nat |-> G(n)[n]]
<1>1. \A k \in Nat : WritesTo(cols, G(k), k)
  BY WritesToExists
<1> HIDE DEF G
<1>2. f[0] = <<>>
  BY <1>1 DEF WritesTo
<1>3. ASSUME NEW n \in Nat \ {0} PROVE f[n] = f[n - 1] \o Name(cols[n])
  <2>1. n - 1 \in Nat /\ n \in 1 .. n
    OBVIOUS
  <2>2. G(n)[n - 1] = G(n - 1)[n - 1]
    BY <1>1, <2>1, WritesToUnique
  <2> QED
    BY <1>1, <2>1, <2>2 DEF WritesTo
<1>4. Writes(cols, f)
  BY <1>2, <1>3 DEF Writes
<1>5. Writes(cols, Written(cols))
  BY <1>4 DEF Written
<1> HIDE DEF f
<1> QED
  BY <1>5 DEF Writes

\* Names is what is written at the length of the list.
LEMMA NamesWritten ==
    ASSUME NEW cols
    PROVE  Names(cols) = Written(cols)[Len(cols)]
  BY DEF Names, Written, Writes

\* A name is one or two pieces.
LEMMA NameType ==
    ASSUME NEW c \in userAllColumns
    PROVE  /\ Name(c) \in Seq(Piece) /\ Len(Name(c)) \in {1, 2}
           /\ c = "ethereum_challenge_sent" => Name(c) = <<"ethereum_challenge", "_sent">>
           /\ c # "ethereum_challenge_sent" => Name(c) = <<c>> /\ c # "_sent"
<1>1. CASE c = "ethereum_challenge_sent"
  BY <1>1 DEF Name, Piece
<1>2. CASE c # "ethereum_challenge_sent"
  BY <1>2 DEF Name, Piece, userAllColumns
<1> QED
  BY <1>1, <1>2

\* What is written is a sequence of pieces.
LEMMA WrittenType ==
    ASSUME NEW cols \in Seq(userAllColumns), NEW n \in 0 .. Len(cols)
    PROVE  Written(cols)[n] \in Seq(Piece)
<1> DEFINE T == {m \in Nat : m =< Len(cols) => Written(cols)[m] \in Seq(Piece)}
<1>0. Len(cols) \in Nat
  OBVIOUS
<1>1. 0 \in T
  <2>1. <<>> \in Seq(Piece)
    OBVIOUS
  <2> QED
    BY <2>1, WrittenIs
<1>2. ASSUME NEW m \in T PROVE m + 1 \in T
  <2> SUFFICES ASSUME m + 1 =< Len(cols) PROVE Written(cols)[m + 1] \in Seq(Piece)
    OBVIOUS
  <2>1. m + 1 \in Nat \ {0} /\ (m + 1) - 1 = m /\ m =< Len(cols) /\ m + 1 \in 1 .. Len(cols)
    BY <1>0
  <2>2. cols[m + 1] \in userAllColumns
    BY <2>1
  <2>3. Name(cols[m + 1]) \in Seq(Piece)
    BY <2>2, NameType
  <2>4. Written(cols)[m] \in Seq(Piece)
    BY <2>1
  <2>5. Written(cols)[m + 1] = Written(cols)[m] \o Name(cols[m + 1])
    <3> HIDE DEF T
    <3> QED
      BY <2>1, WrittenIs
  <2> QED
    BY <2>3, <2>4, <2>5
<1>3. T = Nat
  <2> HIDE DEF T
  <2>1. T \in SUBSET Nat
    BY DEF T
  <2> QED
    BY <1>1, <1>2, <2>1, SetInduction
<1> QED
  BY <1>0, <1>3

\* A list of names is written as a sequence of pieces.
LEMMA NamesType ==
    ASSUME NEW cols \in Seq(userAllColumns)
    PROVE  Names(cols) \in Seq(Piece)
<1>1. Len(cols) \in 0 .. Len(cols)
  OBVIOUS
<1> QED
  BY <1>1, NamesWritten, WrittenType

\* The last name can be read back.
LEMMA LastName ==
    ASSUME NEW s \in Seq(Piece), NEW t \in Seq(Piece), NEW c \in userAllColumns,
           NEW d \in userAllColumns, NEW w, w = s \o Name(c), w = t \o Name(d)
    PROVE  c = d /\ s = t
<1> DEFINE End(e) == IF e = "ethereum_challenge_sent" THEN "_sent" ELSE e
<1>1. ASSUME NEW r \in Seq(Piece), NEW e \in userAllColumns, w = r \o Name(e)
      PROVE  Len(w) = Len(r) + Len(Name(e)) /\ Len(Name(e)) \in {1, 2} /\ w[Len(w)] = End(e)
  <2>1. /\ Name(e) \in Seq(Piece) /\ Len(Name(e)) \in {1, 2} /\ Len(r) \in Nat
        /\ Name(e)[Len(Name(e))] = End(e)
    <3>0. Name(e) \in Seq(Piece) /\ Len(Name(e)) \in {1, 2} /\ Len(r) \in Nat
      BY NameType
    <3>1. CASE e = "ethereum_challenge_sent"
      <4>1. Name(e) = <<"ethereum_challenge", "_sent">>
        BY <3>1, NameType
      <4>2. Len(Name(e)) = 2 /\ Name(e)[2] = "_sent"
        BY <4>1
      <4> QED
        BY <3>0, <3>1, <4>2
    <3>2. CASE e # "ethereum_challenge_sent"
      <4>1. Name(e) = <<e>>
        BY <3>2, NameType
      <4>2. Len(Name(e)) = 1 /\ Name(e)[1] = e
        BY <4>1
      <4> QED
        BY <3>0, <3>2, <4>2
    <3> QED
      BY <3>1, <3>2
  <2> HIDE DEF End
  <2>2. /\ Len(r \o Name(e)) = Len(r) + Len(Name(e))
        /\ \A i \in 1 .. Len(r) + Len(Name(e)) : (r \o Name(e))[i] =
               IF i =< Len(r) THEN r[i] ELSE Name(e)[i - Len(r)]
    BY <2>1, ConcatProperties
  <2>3. /\ Len(r) + Len(Name(e)) \in 1 .. Len(r) + Len(Name(e))
        /\ ~(Len(r) + Len(Name(e)) =< Len(r))
        /\ (Len(r) + Len(Name(e))) - Len(r) = Len(Name(e))
    <3>1. \A i \in Nat : \A j \in {1, 2} :
              i + j \in 1 .. i + j /\ ~(i + j =< i) /\ (i + j) - i = j
      OBVIOUS
    <3> QED
      BY <2>1, <3>1
  <2>4. (r \o Name(e))[Len(r) + Len(Name(e))] = Name(e)[Len(Name(e))]
    BY <2>2, <2>3
  <2> QED
    BY <1>1, <2>1, <2>2, <2>4
<1>2. End(c) = End(d)
  <2> HIDE DEF End
  <2> QED
    BY <1>1
<1>3. c = d
  BY <1>2, NameType
<1>4. Len(s) = Len(t)
  <2>1. /\ Len(w) = Len(s) + Len(Name(c)) /\ Len(w) = Len(t) + Len(Name(d))
        /\ Len(Name(c)) \in {1, 2}
    <3> HIDE DEF End
    <3> QED
      BY <1>1
  <2>2. Len(s) \in Nat /\ Len(t) \in Nat
    OBVIOUS
  <2> QED
    BY <1>3, <2>1, <2>2
<1> DEFINE p == Name(c)
<1>5. p \in Seq(Token) /\ s \in Seq(Token) /\ t \in Seq(Token)
  BY NameType DEF Token
<1>6. Joins(w, s, p) /\ Joins(w, t, p)
  BY <1>3 DEF Joins
<1> HIDE DEF p
<1> QED
  BY <1>3, <1>4, <1>5, <1>6, SameLength

\* The names can be read back, from the last to the first.
LEMMA NamesInjective ==
    ASSUME NEW a \in Seq(userAllColumns), NEW b \in Seq(userAllColumns),
           Names(a) = Names(b)
    PROVE  a = b
<1> DEFINE F == Written(a)
           G == Written(b)
           T == {n \in Nat : n =< Len(a) =>
                    \A m \in 0 .. Len(b) :
                        F[n] = G[m] => n = m /\ \A i \in 1 .. n : a[i] = b[i]}
<1>0. Len(a) \in Nat /\ Len(b) \in Nat
  OBVIOUS
<1>F. /\ F[0] = <<>>
      /\ \A n \in 1 .. Len(a) : F[n] = F[n - 1] \o Name(a[n]) /\ F[n - 1] \in Seq(Piece)
                                /\ a[n] \in userAllColumns
  <2>1. \A n \in 1 .. Len(a) : n \in Nat \ {0} /\ n - 1 \in 0 .. Len(a)
    BY <1>0
  <2> HIDE DEF F
  <2>2. F[0] = <<>> /\ \A n \in Nat \ {0} : F[n] = F[n - 1] \o Name(a[n])
    BY WrittenIs DEF F
  <2>3. \A n \in 0 .. Len(a) : F[n] \in Seq(Piece)
    BY WrittenType DEF F
  <2>4. \A n \in 1 .. Len(a) : a[n] \in userAllColumns
    OBVIOUS
  <2> QED
    BY <2>1, <2>2, <2>3, <2>4
<1>G. /\ G[0] = <<>>
      /\ \A n \in 1 .. Len(b) : G[n] = G[n - 1] \o Name(b[n]) /\ G[n - 1] \in Seq(Piece)
                                /\ b[n] \in userAllColumns
  <2>1. \A n \in 1 .. Len(b) : n \in Nat \ {0} /\ n - 1 \in 0 .. Len(b)
    BY <1>0
  <2> HIDE DEF G
  <2>2. G[0] = <<>> /\ \A n \in Nat \ {0} : G[n] = G[n - 1] \o Name(b[n])
    BY WrittenIs DEF G
  <2>3. \A n \in 0 .. Len(b) : G[n] \in Seq(Piece)
    BY WrittenType DEF G
  <2>4. \A n \in 1 .. Len(b) : b[n] \in userAllColumns
    OBVIOUS
  <2> QED
    BY <2>1, <2>2, <2>3, <2>4
<1> HIDE DEF F, G
<1>N. ASSUME NEW r \in Seq(Piece), NEW c \in userAllColumns PROVE r \o Name(c) # <<>>
  <2>1. Name(c) \in Seq(Piece) /\ Len(Name(c)) \in {1, 2} /\ Len(r) \in Nat
    BY NameType
  <2>2. Len(r \o Name(c)) = Len(r) + Len(Name(c))
    BY <2>1, ConcatProperties
  <2>3. \A i \in Nat : \A j \in {1, 2} : i + j # 0
    OBVIOUS
  <2>4. Len(r \o Name(c)) # 0
    BY <2>1, <2>2, <2>3
  <2> QED
    BY <2>4
<1>1. 0 \in T
  <2> SUFFICES ASSUME NEW m \in 0 .. Len(b), F[0] = G[m] PROVE 0 = m
    BY <1>0
  <2> SUFFICES ASSUME m # 0 PROVE FALSE
    OBVIOUS
  <2>1. m \in 1 .. Len(b)
    BY <1>0
  <2> QED
    BY <1>F, <1>G, <1>N, <2>1
<1>2. ASSUME NEW n \in T PROVE n + 1 \in T
  <2> SUFFICES ASSUME n + 1 =< Len(a), NEW m \in 0 .. Len(b), F[n + 1] = G[m]
               PROVE  n + 1 = m /\ \A i \in 1 .. (n + 1) : a[i] = b[i]
    OBVIOUS
  <2>1. /\ n \in Nat /\ n =< Len(a) /\ n + 1 \in 1 .. Len(a) /\ (n + 1) - 1 = n
        /\ \A k \in 0 .. Len(b) : F[n] = G[k] => n = k /\ \A i \in 1 .. n : a[i] = b[i]
    BY <1>0
  <2> HIDE DEF T
  <2>2. F[n + 1] = F[n] \o Name(a[n + 1]) /\ F[n] \in Seq(Piece) /\ a[n + 1] \in userAllColumns
    BY <1>F, <2>1
  <2>3. m # 0
    BY <1>G, <1>N, <2>2
  <2>4. m \in 1 .. Len(b) /\ m - 1 \in 0 .. Len(b)
    BY <1>0, <2>3
  <2>5. G[m] = G[m - 1] \o Name(b[m]) /\ G[m - 1] \in Seq(Piece) /\ b[m] \in userAllColumns
    BY <1>G, <2>4
  <2>6. a[n + 1] = b[m] /\ F[n] = G[m - 1]
    <3> DEFINE s == F[n]
               t == G[m - 1]
               c == a[n + 1]
               d == b[m]
    <3>1. /\ s \in Seq(Piece) /\ t \in Seq(Piece)
          /\ c \in userAllColumns /\ d \in userAllColumns
      BY <2>2, <2>5
    <3>2. F[n + 1] = s \o Name(c) /\ F[n + 1] = t \o Name(d)
      BY <2>2, <2>5
    <3> HIDE DEF s, t, c, d
    <3>3. c = d /\ s = t
      BY <3>1, <3>2, LastName
    <3> QED
      BY <3>3 DEF s, t, c, d
  <2>7. n = m - 1 /\ \A i \in 1 .. n : a[i] = b[i]
    BY <2>1, <2>4, <2>6
  <2> QED
    BY <2>1, <2>6, <2>7
<1>3. T = Nat
  <2> HIDE DEF T
  <2>1. T \in SUBSET Nat
    BY DEF T
  <2> QED
    BY <1>1, <1>2, <2>1, SetInduction
<1>4. F[Len(a)] = G[Len(b)]
  BY NamesWritten DEF F, G
<1>5. Len(a) = Len(b) /\ \A i \in 1 .. Len(a) : a[i] = b[i]
  BY <1>0, <1>3, <1>4
<1> QED
  BY <1>5, SeqEqual

-----------------------------------------------------------------------------
(* Keys can be read back.                                                  *)

Dot == <<".">>

\* A separator in front of a sequence.
LEMMA DotType ==
    /\ Dot \in Seq(Token) /\ Len(Dot) = 1
    /\ \A v \in Seq(Token) : Dot \o v \in Seq(Token) /\ (Dot \o v)[1] = "."
<1>1. "." \in Token
  BY DEF Token
<1>2. Dot \in Seq(Token) /\ Len(Dot) = 1 /\ Dot[1] = "."
  BY <1>1 DEF Dot
<1>3. ASSUME NEW v \in Seq(Token) PROVE Dot \o v \in Seq(Token) /\ (Dot \o v)[1] = "."
  <2>1. /\ Dot \o v \in Seq(Token)
        /\ \A i \in 1 .. Len(Dot) + Len(v) : (Dot \o v)[i] =
               IF i =< Len(Dot) THEN Dot[i] ELSE v[i - Len(Dot)]
    BY <1>2, ConcatProperties
  <2>2. 1 \in 1 .. Len(Dot) + Len(v) /\ 1 =< Len(Dot)
    BY <1>2
  <2> QED
    BY <1>2, <2>1, <2>2
<1> QED
  BY <1>2, <1>3

\* The list of names ends where a dot begins.
LEMMA NamesBack ==
    ASSUME NEW a \in Seq(userAllColumns), NEW b \in Seq(userAllColumns),
           NEW v \in Seq(Token), NEW w \in Seq(Token), NEW k,
           v = <<>> \/ v[1] = ".", w = <<>> \/ w[1] = ".",
           Joins(k, Names(a), v), Joins(k, Names(b), w)
    PROVE  a = b /\ v = w
<1> DEFINE s == Names(a)
           t == Names(b)
<1>1. s \in Seq(Piece) /\ t \in Seq(Piece)
  BY NamesType
<1>2. Joins(k, s, v) /\ Joins(k, t, w)
  OBVIOUS
<1> HIDE DEF s, t
<1>3. "." \notin Piece /\ Piece \subseteq Token
  BY DEF Piece, Token
<1>4. v = <<>> \/ v[1] \notin Piece
  BY <1>3
<1>5. w = <<>> \/ w[1] \notin Piece
  BY <1>3
<1>6. s = t /\ v = w
  BY <1>1, <1>2, <1>3, <1>4, <1>5, Split
<1>7. a = b
  BY <1>6, NamesInjective DEF s, t
<1> QED
  BY <1>6, <1>7

\* A column set is written as a kind and pieces.
LEMMA SpelledType ==
    ASSUME NEW c \in Columns
    PROVE  /\ Spelled(c) \in Seq(Token) /\ <<c.kind>> \in Seq(Token)
           /\ Names(c.cols) \in Seq(Token)
<1>1. c.kind \in Token /\ c.cols \in Seq(userAllColumns)
  BY DEF Columns, Token, Kind
<1>2. Names(c.cols) \in Seq(Token)
  BY <1>1, NamesType DEF Token
<1>3. <<c.kind>> \in Seq(Token)
  BY <1>1
<1> QED
  BY <1>2, <1>3, ConcatProperties DEF Spelled

\* A column set can be read back from what is written up to a separator.
LEMMA SpelledBack ==
    ASSUME NEW c \in Columns, NEW d \in Columns, NEW v \in Seq(Token), NEW w \in Seq(Token),
           NEW k, v = <<>> \/ v[1] = ".", w = <<>> \/ w[1] = ".",
           Joins(k, Spelled(c), v), Joins(k, Spelled(d), w)
    PROVE  c = d /\ v = w
<1> DEFINE p == <<c.kind>>
           q == <<d.kind>>
           s == Names(c.cols)
           t == Names(d.cols)
<1>1. /\ p \in Seq(Token) /\ q \in Seq(Token) /\ Len(p) = Len(q)
      /\ s \in Seq(Token) /\ t \in Seq(Token)
      /\ c.cols \in Seq(userAllColumns) /\ d.cols \in Seq(userAllColumns)
  BY SpelledType DEF Columns
<1>2. Joins(k, p \o s, v) /\ Joins(k, q \o t, w)
  BY DEF Spelled
<1> HIDE DEF p, q, s, t
<1> DEFINE x == s \o v
           y == t \o w
<1>3. x \in Seq(Token) /\ Joins(k, p, x)
  BY <1>1, <1>2, Regroup
<1>4. y \in Seq(Token) /\ Joins(k, q, y)
  BY <1>1, <1>2, Regroup
<1>5. p = q /\ x = y
  <2> HIDE DEF x, y
  <2> QED
    BY <1>1, <1>3, <1>4, SameLength
<1>6. c.cols = d.cols /\ v = w
  <2>1. Joins(x, Names(c.cols), v) /\ Joins(y, Names(d.cols), w)
    BY DEF Joins, s, t
  <2> HIDE DEF x, y
  <2> QED
    BY <1>1, <1>5, <2>1, NamesBack
<1>7. c.kind = d.kind
  <2>1. p[1] = c.kind /\ q[1] = d.kind
    BY DEF p, q
  <2> QED
    BY <1>5, <2>1
<1> QED
  BY <1>6, <1>7 DEF Columns

\* The key of Insert and Update determines column set and defaults.
LEMMA CacheKeyBack ==
    ASSUME NEW c \in Columns, NEW d \in Columns, NEW nz \in Seq(userAllColumns),
           NEW mz \in Seq(userAllColumns), makeCacheKey(c, nz) = makeCacheKey(d, mz)
    PROVE  c = d /\ nz = mz
<1> DEFINE Rest(z) == IF z = <<>> THEN <<>> ELSE <<".">> \o Names(z)
           k == makeCacheKey(c, nz)
           v == Rest(nz)
           w == Rest(mz)
<1>1. ASSUME NEW z \in Seq(userAllColumns)
      PROVE  /\ Rest(z) \in Seq(Token) /\ (Rest(z) = <<>> \/ Rest(z)[1] = ".")
             /\ z # <<>> => Rest(z) # <<>> /\ Joins(Rest(z), Dot, Names(z))
             /\ Names(z) \in Seq(Token)
  <2>1. Names(z) \in Seq(Token)
    BY NamesType DEF Token
  <2>2. CASE z = <<>>
    BY <2>1, <2>2
  <2>3. CASE z # <<>>
    <3>1. Rest(z) = Dot \o Names(z)
      BY <2>3 DEF Dot
    <3>2. Joins(Rest(z), Dot, Names(z))
      BY <3>1 DEF Joins
    <3>3. Rest(z) \in Seq(Token) /\ Rest(z)[1] = "."
      BY <2>1, <3>1, DotType
    <3> HIDE DEF Rest
    <3>4. Len(Rest(z)) = Len(Dot) + Len(Names(z)) /\ Len(Names(z)) \in Nat
      <4> DEFINE n == Names(z)
                 r == Rest(z)
      <4>1. n \in Seq(Token) /\ Dot \in Seq(Token) /\ Joins(r, Dot, n)
        BY <2>1, <3>2, DotType
      <4> HIDE DEF n, r
      <4>2. Len(r) = Len(Dot) + Len(n) /\ Len(n) \in Nat
        BY <4>1, JoinFacts
      <4> QED
        BY <4>2 DEF n, r
    <3>5. Rest(z) # <<>>
      BY <3>4, DotType
    <3> QED
      BY <2>1, <3>2, <3>3, <3>5
  <2> QED
    BY <2>2, <2>3
<1>2. Joins(k, Spelled(c), v) /\ Joins(k, Spelled(d), w)
  BY DEF Joins, makeCacheKey
<1> HIDE DEF k, v, w, Rest
<1>3. /\ v \in Seq(Token) /\ (v = <<>> \/ v[1] = ".")
      /\ w \in Seq(Token) /\ (w = <<>> \/ w[1] = ".")
  BY <1>1 DEF v, w
<1>4. c = d /\ v = w
  BY <1>2, <1>3, SpelledBack
<1>5. CASE nz = <<>> \/ mz = <<>>
  <2>1. Rest(<<>>) = <<>>
    BY DEF Rest
  <2> QED
    BY <1>1, <1>4, <1>5, <2>1 DEF v, w
<1>6. CASE nz # <<>> /\ mz # <<>>
  <2> DEFINE s == Names(nz)
             t == Names(mz)
  <2>1. Joins(v, Dot, s) /\ Joins(v, Dot, t) /\ s \in Seq(Token) /\ t \in Seq(Token)
    BY <1>1, <1>4, <1>6 DEF v, w
  <2> HIDE DEF s, t
  <2>2. s = t
    BY <2>1, DotType, SameLength
  <2>3. nz = mz
    BY <2>2, NamesInjective DEF s, t
  <2> QED
    BY <1>4, <2>3
<1> QED
  BY <1>4, <1>5, <1>6

\* The parts of the key of an Upsert, from the first to the last.
LEMMA Unfold ==
    ASSUME NEW A \in Seq(Token), NEW N \in Seq(Token), NEW U \in Seq(Token),
           NEW I \in Seq(Token), NEW Z \in Seq(Token)
    PROVE  LET k  == A \o N \o Dot \o U \o Dot \o I \o Dot \o Z
               k6 == Dot \o Z
               k5 == I \o k6
               k4 == Dot \o k5
               k3 == U \o k4
               k2 == Dot \o k3
               k1 == N \o k2
           IN  /\ {k1, k2, k3, k4, k5, k6} \subseteq Seq(Token)
               /\ Joins(k, A, k1)
<1> DEFINE k  == A \o N \o Dot \o U \o Dot \o I \o Dot \o Z
           k6 == Dot \o Z
           k5 == I \o k6
           k4 == Dot \o k5
           k3 == U \o k4
           k2 == Dot \o k3
           k1 == N \o k2
           x2 == A \o N
           x3 == x2 \o Dot
           x4 == x3 \o U
           x5 == x4 \o Dot
           x6 == x5 \o I
<1>0. Dot \in Seq(Token)
  BY DotType
<1>1. x2 \in Seq(Token)
  OBVIOUS
<1>2. x3 \in Seq(Token)
  <2> HIDE DEF x2
  <2> QED
    BY <1>0, <1>1
<1>3. x4 \in Seq(Token)
  <2> HIDE DEF x3
  <2> QED
    BY <1>2
<1>4. x5 \in Seq(Token)
  <2> HIDE DEF x4
  <2> QED
    BY <1>0, <1>3
<1>5. x6 \in Seq(Token)
  <2> HIDE DEF x5
  <2> QED
    BY <1>4
<1>6. Joins(k, x6 \o Dot, Z)
  BY DEF Joins
<1> HIDE DEF k
<1>7. k6 \in Seq(Token) /\ Joins(k, x6, k6)
  <2> HIDE DEF x6
  <2> QED
    BY <1>0, <1>5, <1>6, Regroup
<1>8. k5 \in Seq(Token) /\ Joins(k, x5, k5)
  <2> HIDE DEF x5, k6
  <2> QED
    BY <1>4, <1>7, Regroup
<1>9. k4 \in Seq(Token) /\ Joins(k, x4, k4)
  <2> HIDE DEF x4, k5
  <2> QED
    BY <1>0, <1>3, <1>8, Regroup
<1>10. k3 \in Seq(Token) /\ Joins(k, x3, k3)
  <2> HIDE DEF x3, k4
  <2> QED
    BY <1>2, <1>9, Regroup
<1>11. k2 \in Seq(Token) /\ Joins(k, x2, k2)
  <2> HIDE DEF x2, k3
  <2> QED
    BY <1>0, <1>1, <1>10, Regroup
<1>12. k1 \in Seq(Token) /\ Joins(k, A, k1)
  <2> HIDE DEF k2
  <2> QED
    BY <1>11, Regroup
<1> QED
  BY <1>7, <1>8, <1>9, <1>10, <1>11, <1>12, Zenon DEF k

Head2(on) == <<on, ".">>

\* How the key k of an Upsert is read, part by part.
Reads(k, c, nz, k1, k2, k3, k4, k5, k6) ==
    /\ k1 \in Seq(Token) /\ k2 \in Seq(Token) /\ k3 \in Seq(Token)
    /\ k4 \in Seq(Token) /\ k5 \in Seq(Token) /\ k6 \in Seq(Token)
    /\ k2[1] = "." /\ k4[1] = "." /\ k6[1] = "."
    /\ Joins(k, Head2(c.updateOnConflict), k1)
    /\ Joins(k1, Names(c.conflict), k2)
    /\ Joins(k2, Dot, k3)
    /\ Joins(k3, Spelled(c.update), k4)
    /\ Joins(k4, Dot, k5)
    /\ Joins(k5, Spelled(c.insert), k6)
    /\ Joins(k6, Dot, Names(nz))

\* The first two pieces of the key of Upsert.
LEMMA Head2Type ==
    ASSUME NEW on \in BOOLEAN
    PROVE  Head2(on) \in Seq(Token) /\ Len(Head2(on)) = 2 /\ Head2(on)[1] = on
<1>1. on \in Token /\ "." \in Token
  BY DEF Token
<1> QED
  BY <1>1 DEF Head2

\* The parts of the key of Upsert, in their order.
LEMMA UpsertKeyReads ==
    ASSUME NEW c \in Arguments, NEW nz \in Seq(userAllColumns)
    PROVE  \E k1, k2, k3, k4, k5, k6 : Reads(UpsertKey(c, nz), c, nz, k1, k2, k3, k4, k5, k6)
<1> DEFINE A == Head2(c.updateOnConflict)
           N == Names(c.conflict)
           U == Spelled(c.update)
           I == Spelled(c.insert)
           Z == Names(nz)
           k6 == Dot \o Z
           k5 == I \o k6
           k4 == Dot \o k5
           k3 == U \o k4
           k2 == Dot \o k3
           k1 == N \o k2
           k == A \o N \o Dot \o U \o Dot \o I \o Dot \o Z
<1>1. A \in Seq(Token)
  BY Head2Type DEF Arguments
<1>2. N \in Seq(Token) /\ Z \in Seq(Token)
  BY NamesType DEF Arguments, Token
<1>3. U \in Seq(Token) /\ I \in Seq(Token)
  BY SpelledType DEF Arguments
<1>4. UpsertKey(c, nz) = k
  BY DEF UpsertKey, Head2, Dot
<1> HIDE DEF A, N, U, I, Z
<1>5. /\ k1 \in Seq(Token) /\ k2 \in Seq(Token) /\ k3 \in Seq(Token)
      /\ k4 \in Seq(Token) /\ k5 \in Seq(Token) /\ k6 \in Seq(Token)
      /\ Joins(k, A, k1)
  BY <1>1, <1>2, <1>3, Unfold
<1>6. k2[1] = "." /\ k4[1] = "." /\ k6[1] = "."
  <2>1. k6[1] = "."
    BY <1>2, DotType
  <2>2. k4[1] = "."
    <3> HIDE DEF k5
    <3> QED
      BY <1>5, DotType
  <2>3. k2[1] = "."
    <3> HIDE DEF k3
    <3> QED
      BY <1>5, DotType
  <2> QED
    BY <2>1, <2>2, <2>3
<1>7. /\ Joins(k1, N, k2) /\ Joins(k2, Dot, k3) /\ Joins(k3, U, k4)
      /\ Joins(k4, Dot, k5) /\ Joins(k5, I, k6) /\ Joins(k6, Dot, Z)
  BY DEF Joins
<1> HIDE DEF k, k1, k2, k3, k4, k5, k6
<1>8. Reads(UpsertKey(c, nz), c, nz, k1, k2, k3, k4, k5, k6)
  BY <1>4, <1>5, <1>6, <1>7 DEF Reads, A, N, U, I, Z
<1> QED
  BY <1>8

\* The key of Upsert determines all that its statement depends on.
LEMMA UpsertKeyBack ==
    ASSUME NEW c \in Arguments, NEW d \in Arguments, NEW nz \in Seq(userAllColumns),
           NEW mz \in Seq(userAllColumns), UpsertKey(c, nz) = UpsertKey(d, mz)
    PROVE  /\ c.updateOnConflict = d.updateOnConflict /\ c.conflict = d.conflict
           /\ c.update = d.update /\ c.insert = d.insert /\ nz = mz
<1> DEFINE k == UpsertKey(c, nz)
<1>1. PICK v1, v2, v3, v4, v5, v6 : Reads(k, c, nz, v1, v2, v3, v4, v5, v6)
  BY UpsertKeyReads
<1>2. PICK w1, w2, w3, w4, w5, w6 : Reads(k, d, mz, w1, w2, w3, w4, w5, w6)
  BY UpsertKeyReads
<1> HIDE DEF k
<1>3. /\ c.updateOnConflict \in BOOLEAN /\ d.updateOnConflict \in BOOLEAN
      /\ c.conflict \in Seq(userAllColumns) /\ d.conflict \in Seq(userAllColumns)
      /\ c.update \in Columns /\ d.update \in Columns
      /\ c.insert \in Columns /\ d.insert \in Columns
  BY DEF Arguments
<1>4. c.updateOnConflict = d.updateOnConflict /\ v1 = w1
  <2> DEFINE p == Head2(c.updateOnConflict)
             q == Head2(d.updateOnConflict)
  <2>1. /\ p \in Seq(Token) /\ q \in Seq(Token) /\ Len(p) = Len(q)
        /\ p[1] = c.updateOnConflict /\ q[1] = d.updateOnConflict
    BY <1>3, Head2Type
  <2>2. Joins(k, p, v1) /\ Joins(k, q, w1) /\ v1 \in Seq(Token) /\ w1 \in Seq(Token)
    BY <1>1, <1>2 DEF Reads
  <2> HIDE DEF p, q
  <2>3. p = q /\ v1 = w1
    BY <2>1, <2>2, SameLength
  <2> QED
    BY <2>1, <2>3
<1>5. c.conflict = d.conflict /\ v2 = w2
  <2>1. /\ Joins(v1, Names(c.conflict), v2) /\ Joins(v1, Names(d.conflict), w2)
        /\ v2 \in Seq(Token) /\ w2 \in Seq(Token) /\ v2[1] = "." /\ w2[1] = "."
    BY <1>1, <1>2, <1>4 DEF Reads
  <2> QED
    BY <1>3, <2>1, NamesBack
<1>6. v3 = w3
  <2>1. Joins(v2, Dot, v3) /\ Joins(v2, Dot, w3) /\ v3 \in Seq(Token) /\ w3 \in Seq(Token)
    BY <1>1, <1>2, <1>5 DEF Reads
  <2> QED
    BY <2>1, DotType, SameLength
<1>7. c.update = d.update /\ v4 = w4
  <2>1. /\ Joins(v3, Spelled(c.update), v4) /\ Joins(v3, Spelled(d.update), w4)
        /\ v4 \in Seq(Token) /\ w4 \in Seq(Token) /\ v4[1] = "." /\ w4[1] = "."
    BY <1>1, <1>2, <1>6 DEF Reads
  <2> QED
    BY <1>3, <2>1, SpelledBack
<1>8. v5 = w5
  <2>1. Joins(v4, Dot, v5) /\ Joins(v4, Dot, w5) /\ v5 \in Seq(Token) /\ w5 \in Seq(Token)
    BY <1>1, <1>2, <1>7 DEF Reads
  <2> QED
    BY <2>1, DotType, SameLength
<1>9. c.insert = d.insert /\ v6 = w6
  <2>1. /\ Joins(v5, Spelled(c.insert), v6) /\ Joins(v5, Spelled(d.insert), w6)
        /\ v6 \in Seq(Token) /\ w6 \in Seq(Token) /\ v6[1] = "." /\ w6[1] = "."
    BY <1>1, <1>2, <1>8 DEF Reads
  <2> QED
    BY <1>3, <2>1, SpelledBack
<1>10. nz = mz
  <2> DEFINE s == Names(nz)
             t == Names(mz)
  <2>1. Joins(v6, Dot, s) /\ Joins(v6, Dot, t)
    BY <1>1, <1>2, <1>9 DEF Reads
  <2>2. s \in Seq(Token) /\ t \in Seq(Token)
    BY NamesType DEF Token
  <2> HIDE DEF s, t
  <2>3. s = t
    BY <2>1, <2>2, DotType, SameLength
  <2> QED
    BY <2>3, NamesInjective DEF s, t
<1> QED
  BY <1>4, <1>5, <1>7, <1>9, <1>10

\* Calls that differ in their options only have the same key.
LEMMA PlainFacts ==
    ASSUME NEW c \in Arguments, NEW d \in Arguments
    PROVE  /\ Plain(c) = Plain(d) <=>
                 /\ c.op = d.op /\ c.insert = d.insert /\ c.update = d.update
                 /\ c.updateOnConflict = d.updateOnConflict /\ c.conflict = d.conflict
           /\ Plain(c) = Plain(d) => \A nz : Key(c, nz) = Key(d, nz)
<1>1. ASSUME NEW e \in Arguments
      PROVE  /\ Plain(e) = [op |-> e.op, insert |-> e.insert, update |-> e.update,
                            updateOnConflict |-> e.updateOnConflict,
                            conflict |-> e.conflict, opts |-> NoOptions]
  BY DEF Plain, Arguments
<1>2. Plain(c) = Plain(d) <=>
         /\ c.op = d.op /\ c.insert = d.insert /\ c.update = d.update
         /\ c.updateOnConflict = d.updateOnConflict /\ c.conflict = d.conflict
  BY <1>1
<1>3. ASSUME Plain(c) = Plain(d), NEW nz PROVE Key(c, nz) = Key(d, nz)
  BY <1>2, <1>3 DEF Key, UpsertKey
<1> QED
  BY <1>2, <1>3

\* Calls with the same key run the same statement, or differ in their options only.
LEMMA KeyDetermines ==
    ASSUME NEW c \in Arguments, NEW d \in Arguments, NEW nz \in Seq(userAllColumns),
           NEW mz \in Seq(userAllColumns), c.op = d.op, Key(c, nz) = Key(d, mz)
    PROVE  Built(c, nz) = Built(d, mz) \/ (nz = mz /\ Plain(c) = Plain(d))
<1>1. CASE c.op = "insert"
  <2>1. c.insert \in Columns /\ d.insert \in Columns
    BY DEF Arguments
  <2>2. makeCacheKey(c.insert, nz) = makeCacheKey(d.insert, mz)
    BY <1>1 DEF Key
  <2>3. c.insert = d.insert /\ nz = mz
    BY <2>1, <2>2, CacheKeyBack
  <2> QED
    BY <1>1, <2>3 DEF Built, InsertStatement
<1>2. CASE c.op = "update"
  <2>1. c.update \in Columns /\ d.update \in Columns /\ <<>> \in Seq(userAllColumns)
    BY DEF Arguments
  <2>2. makeCacheKey(c.update, <<>>) = makeCacheKey(d.update, <<>>)
    BY <1>2 DEF Key
  <2>3. c.update = d.update
    BY <2>1, <2>2, CacheKeyBack
  <2> QED
    BY <1>2, <2>3 DEF Built, UpdateStatement
<1>3. CASE c.op = "upsert"
  <2>1. UpsertKey(c, nz) = UpsertKey(d, mz)
    BY <1>3 DEF Key
  <2>2. /\ c.updateOnConflict = d.updateOnConflict /\ c.conflict = d.conflict
        /\ c.update = d.update /\ c.insert = d.insert /\ nz = mz
    BY <2>1, UpsertKeyBack
  <2> QED
    BY <2>2, PlainFacts
<1> QED
  BY <1>1, <1>2, <1>3 DEF Arguments, Ops

-----------------------------------------------------------------------------
(* The columns with a value.                                               *)

Finds(o, f) ==
    f = [n \in 0 .. Len(userColumnsWithDefault) |->
            IF n = 0 THEN <<>>
            ELSE IF o[userColumnsWithDefault[n]] # Zero
            THEN Append(f[n - 1], userColumnsWithDefault[n]) ELSE f[n - 1]]

\* The columns with a default that have a value are a list of columns.
LEMMA NonZeroDefaultSetType ==
    ASSUME NEW o
    PROVE  NonZeroDefaultSet(o) \in Seq(userAllColumns)
<1> DEFINE D == userColumnsWithDefault
           More(s, n) == IF o[D[n]] # Zero THEN Append(s, D[n]) ELSE s
           one == More(<<>>, 1)
           two == More(one, 2)
           g == [n \in 0 .. Len(D) |-> IF n = 0 THEN <<>> ELSE IF n = 1 THEN one ELSE two]
           f == CHOOSE h : Finds(o, h)
<1>1. Len(D) = 2 /\ D[1] \in userAllColumns /\ D[2] \in userAllColumns
  BY DEF userColumnsWithDefault, userAllColumns
<1>2. NonZeroDefaultSet(o) = f[Len(D)]
  BY DEF NonZeroDefaultSet, Finds
<1> HIDE DEF D
<1>3. Finds(o, g)
  <2> SUFFICES ASSUME NEW n \in 0 .. Len(D)
               PROVE  g[n] = IF n = 0 THEN <<>> ELSE More(g[n - 1], n)
    BY DEF Finds, D
  <2> HIDE DEF More
  <2>1. g[0] = <<>> /\ g[1] = one /\ g[2] = two
    <3> HIDE DEF one, two
    <3> QED
      BY <1>1
  <2> HIDE DEF g
  <2>2. CASE n = 0
    BY <2>1, <2>2
  <2>3. CASE n = 1
    BY <2>1, <2>3
  <2>4. CASE n = 2
    BY <2>1, <2>4
  <2> QED
    BY <1>1, <2>2, <2>3, <2>4
<1>4. Finds(o, f)
  <2> HIDE DEF g
  <2> QED
    BY <1>3
<1> HIDE DEF f, g
<1>5. f[0] = <<>> /\ f[1] = More(f[0], 1) /\ f[2] = More(f[1], 2)
  <2>1. \A n \in 0 .. Len(D) : f[n] = IF n = 0 THEN <<>> ELSE More(f[n - 1], n)
    BY <1>4 DEF Finds, D
  <2>2. /\ 0 \in 0 .. Len(D) /\ 1 \in 0 .. Len(D) /\ 2 \in 0 .. Len(D)
        /\ 1 - 1 = 0 /\ 2 - 1 = 1
    BY <1>1
  <2> HIDE DEF More
  <2> QED
    BY <2>1, <2>2
<1>6. <<>> \in Seq(userAllColumns)
  OBVIOUS
<1>7. f[1] \in Seq(userAllColumns)
  BY <1>1, <1>5, <1>6
<1>8. f[2] \in Seq(userAllColumns)
  BY <1>1, <1>5, <1>7
<1> QED
  BY <1>1, <1>2, <1>8

-----------------------------------------------------------------------------
(* The inductive invariant.                                                *)

Types ==
    /\ call \in [Goroutine -> Calls]
    /\ nzDefaults \in [Goroutine -> Seq(userAllColumns)]
    /\ DOMAIN stmt = Goroutine

\* What is in a cache was built for a call with that key.
CachesSound ==
    \A op \in Ops : \A k \in DOMAIN caches[op] :
        \E c \in Calls : \E nz \in Seq(userAllColumns) :
            c.op = op /\ k = Key(c, nz) /\ caches[op][k] = Built(c, nz)

\* From the cache or not, a statement is the one of its call, or of one that differs
\* in the options only, until it is stored.
Own ==
    \A g \in Goroutine :
        pc[g] \in {"exec", "store"} => Origin(g) # {} /\ stmt[g] # No

Inv == TypeOK /\ Types /\ CachesSound /\ Own

\* The invariant holds initially.
LEMMA InitInv ==
    ASSUME Init
    PROVE  Inv
<1>1. TypeOK
  <2>1. MaxCalls \in Nat
    BY StatementsAssumption DEF StatementsAssumption
  <2> QED
    BY <2>1 DEF Init, TypeOK, Values
<1>2. Types
  <2>1. (CHOOSE c \in Calls : TRUE) \in Calls
    BY StatementsAssumption DEF StatementsAssumption
  <2>2. <<>> \in Seq(userAllColumns)
    OBVIOUS
  <2> QED
    BY <2>1, <2>2 DEF Init, Types
<1>3. CachesSound
  BY DEF Init, CachesSound
<1>4. Own
  BY DEF Init, Own
<1> QED
  BY <1>1, <1>2, <1>3, <1>4 DEF Inv

\* A call up to its statement: what it finds in the cache is its own statement, up to
\* the options.
LEMMA BeginInv ==
    ASSUME Inv, NEW g \in Goroutine, NEW c \in Calls, NEW o \in Objects(g), Begin(g, c, o)
    PROVE  Inv'
<1> DEFINE o1  == IF c.op = "update" \/ o["created_at"] # Zero THEN o
                  ELSE [o EXCEPT !["created_at"] = g]
           nz  == NonZeroDefaultSet(o1)
           key == Key(c, nz)
           hit == key \in DOMAIN caches[c.op]
           s   == IF hit THEN caches[c.op][key] ELSE Built(c, nz)
<1>1. /\ pc[g] = "idle" /\ calls < MaxCalls /\ calls' = calls + 1
      /\ call' = [call EXCEPT ![g] = c] /\ obj' = [obj EXCEPT ![g] = o1]
      /\ nzDefaults' = [nzDefaults EXCEPT ![g] = nz]
      /\ cached' = [cached EXCEPT ![g] = hit]
      /\ stmt' = [stmt EXCEPT ![g] = s]
      /\ pc' = [pc EXCEPT ![g] = IF s = No THEN "idle" ELSE "exec"]
      /\ UNCHANGED <<table, caches, id>>
  BY DEF Begin
<1>2. o1 \in [Fields -> Values]
  BY DEF Objects, Values, Fields, userAllColumns, userPrimaryKeyColumns
<1>3. nz \in Seq(userAllColumns)
  BY NonZeroDefaultSetType
<1>4. hit \in BOOLEAN
  OBVIOUS
<1> HIDE DEF o1, nz
<1>5. c \in Arguments /\ c.op \in Ops /\ Calls \subseteq Arguments
  BY StatementsAssumption DEF StatementsAssumption, Arguments
<1>6. \E e \in Calls : Plain(e) = Plain(c) /\ s = Built(e, nz)
  <2>1. CASE hit
    <3>1. PICK d \in Calls, mz \in Seq(userAllColumns) :
              d.op = c.op /\ key = Key(d, mz) /\ caches[c.op][key] = Built(d, mz)
      BY <1>5, <2>1 DEF Inv, CachesSound
    <3>2. Built(c, nz) = Built(d, mz) \/ (nz = mz /\ Plain(c) = Plain(d))
      BY <1>3, <1>5, <3>1, KeyDetermines
    <3> QED
      BY <2>1, <3>1, <3>2
  <2>2. CASE ~hit
    BY <2>2
  <2> QED
    BY <2>1, <2>2
<1> HIDE DEF key, hit, s
<1>7. TypeOK'
  <2>1. calls' \in 0 .. MaxCalls
    BY <1>1, StatementsAssumption DEF Inv, TypeOK, StatementsAssumption
  <2> QED
    BY <1>1, <1>2, <1>4, <2>1 DEF Inv, TypeOK
<1>8. Types'
  BY <1>1, <1>3 DEF Inv, Types
<1>9. CachesSound'
  BY <1>1 DEF Inv, CachesSound
<1>10. Own'
  <2> SUFFICES ASSUME NEW h \in Goroutine, pc'[h] \in {"exec", "store"}
               PROVE  /\ \E e \in Calls : /\ Plain(e) = Plain(call'[h])
                                         /\ stmt'[h] = Built(e, nzDefaults'[h])
                      /\ stmt'[h] # No
    BY DEF Own, Origin
  <2>1. CASE h = g
    BY <1>1, <1>6, <2>1 DEF Inv, TypeOK, Types
  <2>2. CASE h # g
    BY <1>1, <2>2 DEF Inv, TypeOK, Types, Own, Origin
  <2> QED
    BY <2>1, <2>2
<1> QED
  BY <1>7, <1>8, <1>9, <1>10 DEF Inv

\* The row after a statement: what is not read back was taken from the object, unless
\* an UpsertUpdateSet has left it alone.
LEMMA AfterFacts ==
    ASSUME Inv, NEW g \in Goroutine, pc[g] = "exec", After(g) # Refused
    PROVE  /\ After(g) \in [Fields -> Values]
           /\ call[g].op # "update" /\ ~Ignored(g) =>
                  \A f \in Fields \ (stmt[g].ret \cup LeftAlone(g)) :
                      After(g)[f] = obj[g][f]
<1> DEFINE s == stmt[g]
           c == call[g]
           i == id[g]
           had == i \in DOMAIN table
           row == Proposed(s, obj[g])
<1>0. PICK d \in Calls : d \in Origin(g)
  BY DEF Inv, Own, Origin
<1>1. /\ s = Built(d, nzDefaults[g]) /\ s # No /\ obj[g] \in [Fields -> Values]
      /\ \A j \in DOMAIN table : table[j] \in [Fields -> Values]
  BY <1>0 DEF Inv, TypeOK, Own, Origin
<1>2. /\ c \in Arguments /\ d \in Arguments /\ c.op \in Ops
      /\ d.op = c.op /\ d.insert = c.insert /\ d.update = c.update
      /\ d.updateOnConflict = c.updateOnConflict /\ d.conflict = c.conflict
  <2>1. c \in Arguments /\ d \in Arguments /\ Plain(d) = Plain(c)
    BY <1>0, StatementsAssumption DEF Inv, Types, Origin, StatementsAssumption
  <2> QED
    BY <2>1, PlainFacts DEF Arguments
<1>3. /\ row \in [Fields -> Values]
      /\ \A f \in Fields : row[f] = IF f \in s.cols THEN obj[g][f] ELSE Zero
  BY <1>1 DEF Proposed, Values
<1>4. CASE c.op = "update"
  <2>1. had /\ After(g) = [f \in Fields |-> IF f \in s.cols THEN obj[g][f] ELSE table[i][f]]
    BY <1>4 DEF After
  <2>2. table[i] \in [Fields -> Values]
    BY <1>1, <2>1
  <2> QED
    BY <1>1, <1>4, <2>1, <2>2
<1>5. CASE c.op = "insert"
  <2>1. Complete(s) /\ After(g) = row
    BY <1>5 DEF After
  <2> DEFINE wl == InsertColumnSet(c.insert, nzDefaults[g])
  <2>2. s = [cols |-> wl, ret |-> Defaults \ wl]
    BY <1>1, <1>2, <1>5 DEF Built, InsertStatement
  <2> HIDE DEF wl
  <2>3. s.cols = wl /\ s.ret = Defaults \ wl
    BY <2>2
  <2>4. \A f \in Fields \ s.ret : f \in s.cols
    <3>1. Fields \subseteq Defaults \cup {"created_at"}
      <4>1. ToSet(userColumnsWithDefault) = {"ethereum_challenge", "ethereum_challenge_sent"}
        BY DEF ToSet, userColumnsWithDefault
      <4> QED
        BY <4>1 DEF Fields, Defaults, userAllColumns, userPrimaryKeyColumns
    <3>2. "created_at" \in s.cols
      BY <2>1 DEF Complete, userColumnsWithoutDefault
    <3> QED
      BY <2>3, <3>1, <3>2
  <2> QED
    BY <1>3, <2>1, <2>4
<1>6. CASE c.op = "upsert"
  <2> DEFINE insert == InsertColumnSet(c.insert, nzDefaults[g])
             update == UpdateColumnSet(c.update)
             ret == userAllColumns \ (insert \cap update)
             conflict == IF c.conflict = <<>> /\ c.updateOnConflict
                         THEN userPrimaryKeyColumns ELSE ToSet(c.conflict)
  <2>1. s = buildUpsertQueryPostgres(d, ret, update, conflict, insert)
    BY <1>1, <1>2, <1>6 DEF Built, UpsertStatement
  <2> HIDE DEF insert, update, conflict
  <2>2. /\ s.cols = insert /\ s.ret = ret
        /\ \/ s.set = {}
           \/ s.set = update
           \/ d.opts.updateSet # <<>> /\ s.set = ToSet(d.opts.updateSet)
    BY <2>1 DEF buildUpsertQueryPostgres
  <2>3. \A f \in Fields \ s.ret : f \in s.cols /\ f \in update
    BY <2>2 DEF Fields
  <2>4. After(g) = IF ~had THEN row
                   ELSE [f \in Fields |-> IF f \in s.set THEN row[f] ELSE table[i][f]]
    BY <1>6 DEF After
  <2>5. CASE ~had
    BY <1>3, <2>3, <2>4, <2>5
  <2>6. CASE had
    <3>1. table[i] \in [Fields -> Values]
      BY <1>1, <2>6
    <3>2. After(g) = [f \in Fields |-> IF f \in s.set THEN row[f] ELSE table[i][f]]
      BY <2>4, <2>6
    <3>3. ~Ignored(g) => update \subseteq s.set \cup LeftAlone(g)
      BY <1>0, <1>6, <2>2, <2>6 DEF Ignored, LeftAlone, update
    <3> HIDE DEF row
    <3>4. After(g) \in [Fields -> Values]
      BY <1>3, <3>1, <3>2
    <3>5. ASSUME ~Ignored(g), NEW f \in Fields, f \notin s.ret \cup LeftAlone(g)
          PROVE  After(g)[f] = obj[g][f]
      BY <1>3, <2>3, <3>2, <3>3, <3>5
    <3> QED
      BY <3>4, <3>5
  <2> QED
    BY <2>5, <2>6
<1> QED
  BY <1>2, <1>4, <1>5, <1>6 DEF Ops

\* The statement keeps the caches, and leaves objects and rows well typed.
LEMMA ExecInv ==
    ASSUME Inv, NEW g \in Goroutine, Exec(g)
    PROVE  Inv'
<1>0. /\ pc[g] = "exec" /\ UNCHANGED <<caches, call, id, nzDefaults, stmt, cached, calls>>
      /\ \/ pc' = [pc EXCEPT ![g] = "store"] \/ pc' = [pc EXCEPT ![g] = "idle"]
  BY DEF Exec
<1>1. /\ DOMAIN table' \subseteq Id /\ \A i \in DOMAIN table' : table'[i] \in [Fields -> Values]
      /\ obj' \in [Goroutine -> [Fields -> Values]]
  <2>1. CASE /\ After(g) # Refused /\ table' = Put(table, id[g], After(g))
             /\ obj' = IF Ignored(g) THEN obj
                       ELSE [obj EXCEPT ![g] = [f \in Fields |->
                               IF f \in stmt[g].ret THEN After(g)[f] ELSE obj[g][f]]]
    <3>1. After(g) \in [Fields -> Values] /\ id[g] \in Id
      BY <1>0, <2>1, AfterFacts DEF Inv, TypeOK
    <3>2. /\ DOMAIN table' = DOMAIN table \cup {id[g]} /\ table'[id[g]] = After(g)
          /\ \A i \in DOMAIN table \ {id[g]} : table'[i] = table[i]
      BY <2>1 DEF Put
    <3> QED
      BY <2>1, <3>1, <3>2 DEF Inv, TypeOK
  <2>2. CASE UNCHANGED <<table, obj>>
    BY <2>2 DEF Inv, TypeOK
  <2> QED
    BY <2>1, <2>2 DEF Exec
<1>2. TypeOK'
  BY <1>0, <1>1 DEF Inv, TypeOK
<1>3. Types'
  BY <1>0 DEF Inv, Types
<1>4. CachesSound'
  BY <1>0 DEF Inv, CachesSound
<1>5. Own'
  BY <1>0 DEF Inv, Own, Origin, TypeOK
<1> QED
  BY <1>2, <1>3, <1>4, <1>5 DEF Inv

\* What is stored under a key is the statement of every call with that key.
LEMMA StoreInv ==
    ASSUME Inv, NEW g \in Goroutine, Store(g)
    PROVE  Inv'
<1> DEFINE op == call[g].op
           key == Key(call[g], nzDefaults[g])
<1>0. /\ pc[g] = "store" /\ pc' = [pc EXCEPT ![g] = "idle"]
      /\ caches' = IF cached[g] THEN caches
                   ELSE [caches EXCEPT ![op] = Put(caches[op], key, stmt[g])]
      /\ UNCHANGED <<table, call, id, obj, nzDefaults, stmt, cached, calls>>
  BY DEF Store
<1>1. /\ op \in Ops /\ nzDefaults[g] \in Seq(userAllColumns)
      /\ \E d \in Calls : /\ d.op = op /\ key = Key(d, nzDefaults[g])
                          /\ stmt[g] = Built(d, nzDefaults[g])
  <2>1. PICK d \in Calls : Plain(d) = Plain(call[g]) /\ stmt[g] = Built(d, nzDefaults[g])
    BY <1>0 DEF Inv, Own, Origin
  <2>2. /\ d \in Arguments /\ call[g] \in Arguments /\ op \in Ops
        /\ nzDefaults[g] \in Seq(userAllColumns)
    BY StatementsAssumption DEF Inv, Types, StatementsAssumption, Arguments
  <2>3. d.op = op /\ key = Key(d, nzDefaults[g])
    BY <2>1, <2>2, PlainFacts
  <2> QED
    BY <2>1, <2>2, <2>3
<1>2. TypeOK' /\ Types'
  BY <1>0 DEF Inv, TypeOK, Types
<1>3. CachesSound'
  <2> SUFFICES ASSUME NEW p \in Ops, NEW k \in DOMAIN caches'[p]
               PROVE  \E c \in Calls : \E nz \in Seq(userAllColumns) :
                          c.op = p /\ k = Key(c, nz) /\ caches'[p][k] = Built(c, nz)
    BY DEF CachesSound
  <2>1. CASE k \in DOMAIN caches[p] /\ caches'[p][k] = caches[p][k]
    BY <2>1 DEF Inv, CachesSound
  <2>2. CASE p = op /\ k = key /\ caches'[p][k] = stmt[g]
    BY <1>1, <2>2
  <2>3. \/ k \in DOMAIN caches[p] /\ caches'[p][k] = caches[p][k]
        \/ p = op /\ k = key /\ caches'[p][k] = stmt[g]
    <3> HIDE DEF key, op
    <3>1. CASE cached[g] \/ p # op
      <4>1. caches'[p] = caches[p]
        BY <1>0, <3>1 DEF Inv, TypeOK
      <4> QED
        BY <4>1
    <3>2. CASE ~cached[g] /\ p = op
      <4>1. caches'[p] = Put(caches[p], key, stmt[g])
        BY <1>0, <3>2 DEF Inv, TypeOK
      <4>2. /\ DOMAIN caches'[p] = DOMAIN caches[p] \cup {key} /\ caches'[p][key] = stmt[g]
            /\ \A x \in DOMAIN caches[p] \ {key} : caches'[p][x] = caches[p][x]
        BY <4>1 DEF Put
      <4> QED
        BY <3>2, <4>2
    <3> QED
      BY <3>1, <3>2
  <2> QED
    BY <2>1, <2>2, <2>3
<1>4. Own'
  BY <1>0 DEF Inv, Own, Origin, TypeOK
<1> QED
  BY <1>2, <1>3, <1>4 DEF Inv

\* Every step keeps the invariant.
LEMMA NextInv ==
    ASSUME Inv, [Next]_vars
    PROVE  Inv'
<1>1. CASE Next
  BY <1>1, BeginInv, ExecInv, StoreInv DEF Next
<1>2. CASE UNCHANGED vars
  BY <1>2 DEF vars, Inv, TypeOK, Types, CachesSound, Own, Origin
<1> QED
  BY <1>1, <1>2

-----------------------------------------------------------------------------
(* Theorems.                                                               *)

\* The inductive invariant holds in every reachable state.
THEOREM Invariance == Spec => []Inv
  BY InitInv, NextInv, PTL DEF Spec

\* Rows and objects have a value of its type in every field.
THEOREM TypesHold == Spec => []TypeOK
  BY Invariance, PTL DEF Inv

\* Whatever other goroutines have put into the caches of Insert, Update and Upsert, a
\* goroutine runs the statement that its own arguments call for, or, in Upsert, the one
\* of a call that differs from its own in the options only.
THEOREM OwnStatements == Spec => []OwnStatement
<1>1. Inv => OwnStatement
  BY DEF Inv, Own, OwnStatement
<1> QED
  BY <1>1, Invariance, PTL

\* A program in which the other arguments of Upsert decide about its options.
OptionsFollow == \A c, d \in Calls : Plain(c) = Plain(d) => c = d

\* In such a program every goroutine runs exactly the statement it would build itself.
THEOREM ExactStatements ==
    ASSUME OptionsFollow
    PROVE  Spec => [](\A g \in Goroutine :
                         pc[g] = "exec" => stmt[g] = Built(call[g], nzDefaults[g]))
<1>1. Inv => \A g \in Goroutine :
                 pc[g] = "exec" => stmt[g] = Built(call[g], nzDefaults[g])
  <2> SUFFICES ASSUME Inv, NEW g \in Goroutine, pc[g] = "exec"
               PROVE  stmt[g] = Built(call[g], nzDefaults[g])
    OBVIOUS
  <2>1. PICK d \in Calls : Plain(d) = Plain(call[g]) /\ stmt[g] = Built(d, nzDefaults[g])
    BY DEF Inv, Own, Origin
  <2>2. d = call[g]
    BY <2>1 DEF Inv, Types, OptionsFollow
  <2> QED
    BY <2>1, <2>2
<1> QED
  BY <1>1, Invariance, PTL

\* After an Insert or Upsert that has written the row, the object is the row, but for
\* the columns that an UpsertUpdateSet has left alone.
THEOREM ObjectsAreRows == Spec => ObjectIsRow
<1> DEFINE A == \A g \in Goroutine :
                    pc[g] = "exec" /\ pc'[g] = "store" /\ call[g].op # "update" /\ ~Ignored(g)
                        => \A f \in Fields \ LeftAlone(g) : obj'[g][f] = table'[id[g]][f]
<1>1. ASSUME Inv, Next PROVE A
  <2> SUFFICES ASSUME NEW g \in Goroutine, pc[g] = "exec", pc'[g] = "store",
                      call[g].op # "update", ~Ignored(g)
               PROVE  \A f \in Fields \ LeftAlone(g) : obj'[g][f] = table'[id[g]][f]
    OBVIOUS
  <2>1. Exec(g)
    <3>1. ASSUME NEW h \in Goroutine, h # g,
                 \/ \E c \in Calls, o \in Objects(h) : Begin(h, c, o)
                 \/ Exec(h) \/ Store(h)
          PROVE  FALSE
      <4>1. /\ pc \in [Goroutine -> {"idle", "exec", "store"}]
            /\ \E x : pc' = [pc EXCEPT ![h] = x]
        BY <1>1, <3>1 DEF Begin, Exec, Store, Inv, TypeOK
      <4> QED
        BY <3>1, <4>1
    <3>2. PICK h \in Goroutine : \/ \E c \in Calls, o \in Objects(h) : Begin(h, c, o)
                                 \/ Exec(h) \/ Store(h)
      BY <1>1 DEF Next
    <3>3. h = g
      BY <3>1, <3>2
    <3> QED
      BY <3>2, <3>3 DEF Begin, Store
  <2>2. /\ After(g) # Refused /\ table' = Put(table, id[g], After(g))
        /\ obj' = [obj EXCEPT ![g] = [f \in Fields |->
                      IF f \in stmt[g].ret THEN After(g)[f] ELSE obj[g][f]]]
    BY <1>1, <2>1 DEF Exec, Inv, TypeOK
  <2>3. /\ After(g) \in [Fields -> Values]
        /\ \A f \in Fields \ (stmt[g].ret \cup LeftAlone(g)) : After(g)[f] = obj[g][f]
    BY <1>1, <2>2, AfterFacts
  <2>4. table'[id[g]] = After(g)
    BY <2>2 DEF Put
  <2>5. obj'[g] = [f \in Fields |-> IF f \in stmt[g].ret THEN After(g)[f] ELSE obj[g][f]]
    BY <1>1, <2>2 DEF Inv, TypeOK
  <2> QED
    BY <2>3, <2>4, <2>5
<1>2. ASSUME Inv, [Next]_vars PROVE [A]_vars
  BY <1>1, <1>2
<1> QED
  BY <1>2, Invariance, PTL DEF Spec, ObjectIsRow
=============================================================================
