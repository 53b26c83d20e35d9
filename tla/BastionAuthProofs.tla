------------------------- MODULE BastionAuthProofs -------------------------
(***************************************************************************)
(* What sshConfigForHost and the resolutions built on it compute, for a    *)
(* ~/.ssh/config of any length.  The code's loop over the lines is a fold, *)
(* and a fold is a recursive function over the subsets of the domain: the  *)
(* proofs go by induction on the number of lines, in the form of the least *)
(* counterexample.                                                         *)
(***************************************************************************)
EXTENDS BastionAuth, Integers, WellFoundedInduction, SequenceTheorems, TLAPS

-----------------------------------------------------------------------------
(* Induction without an operator parameter *)

Below == OpToRel(<, Nat)

LEMMA LeastNat ==
  ASSUME NEW T \in SUBSET Nat, T # {}
  PROVE  \E n \in T : \A m \in T : n <= m
<1>1. IsWellFoundedOn(Below, Nat)
  BY NatLessThanWellFounded DEF Below
<1>2. PICK n \in T : \A m \in T : ~(<<m, n>> \in Below)
  BY <1>1, WFMin
<1>3. ASSUME NEW m \in T PROVE n <= m
  <2>1. m \in Nat /\ n \in Nat /\ ~(<<m, n>> \in Below)
    BY <1>2
  <2>2. ~(m < n)
    BY <2>1 DEF Below, OpToRel
  <2> QED BY <2>1, <2>2
<1> QED BY <1>3

\* A set that holds 0 and the successor of each number it holds.
LEMMA NatInSet ==
  ASSUME NEW S, 0 \in S, \A n \in Nat : n \in S => n + 1 \in S
  PROVE  Nat \subseteq S
<1> SUFFICES ASSUME Nat \ S # {} PROVE FALSE
  OBVIOUS
<1>1. PICK n \in Nat \ S : \A m \in Nat \ S : n <= m
  BY LeastNat
<1>2. n # 0 /\ n - 1 \in Nat /\ n - 1 \in S
  BY <1>1
<1>3. n - 1 + 1 = n
  OBVIOUS
<1> QED BY <1>2, <1>3

LEMMA MinOf ==
  ASSUME NEW S \in SUBSET Nat, S # {}
  PROVE  Min(S) \in S /\ \A y \in S : Min(S) <= y
BY LeastNat DEF Min

LEMMA MaxOf ==
  ASSUME NEW n \in Nat, NEW S \in SUBSET (1 .. n), S # {}
  PROVE  Max(S) \in S /\ \A y \in S : Max(S) >= y
<1> DEFINE T == {k \in Nat : \E y \in S : k = n - y}
<1>1. T \in SUBSET Nat /\ T # {}
  <2>1. PICK y \in S : y \in 1 .. n
    OBVIOUS
  <2>2. n - y \in T
    BY <2>1
  <2> QED BY <2>2
<1>2. PICK k \in T : \A m \in T : k <= m
  BY <1>1, LeastNat
<1>3. PICK y \in S : k = n - y
  BY <1>2
<1>4. \A z \in S : z \in 1 .. n /\ n - z \in T
  OBVIOUS
<1>5. \A z \in S : y >= z
  BY <1>2, <1>3, <1>4
<1> QED BY <1>3, <1>5 DEF Max

-----------------------------------------------------------------------------
(* The fold over the lines, line by line *)

Lines == Seq([key : Text, value : Text])
Conf == [in : BOOLEAN, user : Text, identityfile : Text]

\* The recursion of FoldLeft(ConfLine, NoConf, conf), for a function g of the sets of lines.
Folding(g, conf, S) ==
  [s \in SUBSET S |-> IF s = {} THEN NoConf ELSE ConfLine(g[s \ {Max(s)}], conf[Max(s)])]

LEMMA FoldingExists ==
  ASSUME NEW conf, NEW n \in Nat
  PROVE  \E g : g = Folding(g, conf, 1 .. n)
<1> DEFINE S == {m \in Nat : \E g : g = Folding(g, conf, 1 .. m)}
<1>1. 0 \in S
  <2> DEFINE g == [s \in SUBSET (1 .. 0) |-> NoConf]
  <2>1. \A s \in SUBSET (1 .. 0) : s = {}
    BY SMT
  <2>2. g = Folding(g, conf, 1 .. 0)
    BY <2>1 DEF Folding
  <2> QED BY <2>2
<1>2. ASSUME NEW m \in Nat, m \in S PROVE m + 1 \in S
  <2>1. PICK g : g = Folding(g, conf, 1 .. m)
    BY <1>2
  <2> DEFINE k == m + 1
             h == [s \in SUBSET (1 .. k) |-> IF k \in s THEN ConfLine(g[s \ {k}], conf[k]) ELSE g[s]]
  <2>2. ASSUME NEW s \in SUBSET (1 .. k)
        PROVE  h[s] = IF s = {} THEN NoConf ELSE ConfLine(h[s \ {Max(s)}], conf[Max(s)])
    <3>1. CASE k \in s
      <4>1. Max(s) = k
        <5>1. Max(s) \in s /\ \A y \in s : Max(s) >= y
          BY <3>1, MaxOf, k \in Nat
        <5>2. Max(s) \in 1 .. k /\ Max(s) >= k
          BY <5>1, <3>1
        <5> HIDE DEF h
        <5> QED BY <5>2
      <4>2. s \ {k} \in SUBSET (1 .. k) /\ k \notin s \ {k}
        OBVIOUS
      <4>3. h[s \ {k}] = g[s \ {k}]
        BY <4>2
      <4> QED BY <3>1, <4>1, <4>3
    <3>2. CASE k \notin s
      <4>1. s \in SUBSET (1 .. m)
        BY <3>2, SMT
      <4>2. h[s] = g[s]
        BY <3>2
      <4>3. CASE s = {}
        BY <4>1, <4>2, <4>3, <2>1 DEF Folding
      <4>4. CASE s # {}
        <5>1. Max(s) \in s
          BY <4>1, <4>4, MaxOf
        <5>2. s \ {Max(s)} \in SUBSET (1 .. k) /\ k \notin s \ {Max(s)}
          BY <3>2
        <5>3. h[s \ {Max(s)}] = g[s \ {Max(s)}]
          BY <5>2
        <5>4. g[s] = ConfLine(g[s \ {Max(s)}], conf[Max(s)])
          BY <4>1, <4>4, <2>1 DEF Folding
        <5> QED BY <4>2, <4>4, <5>3, <5>4
      <4> QED BY <4>3, <4>4
    <3> QED BY <3>1, <3>2
  <2>3. h = Folding(h, conf, 1 .. k)
    <3> HIDE DEF h
    <3>1. h = [s \in SUBSET (1 .. k) |-> h[s]]
      BY DEF h
    <3> QED BY <2>2, <3>1 DEF Folding
  <2> QED BY <2>3
<1>3. Nat \subseteq S
  <2> HIDE DEF S
  <2> QED BY <1>1, <1>2, NatInSet
<1> QED BY <1>3

\* So the fold is a sequence of results, one after each line.
LEMMA FoldByLine ==
  ASSUME NEW conf \in Lines
  PROVE  \E c : /\ c[0] = NoConf
                /\ \A i \in 1 .. Len(conf) : c[i] = ConfLine(c[i - 1], conf[i])
                /\ FoldLeft(ConfLine, NoConf, conf) = c[Len(conf)]
<1> DEFINE n == Len(conf)
           f == CHOOSE g : g = Folding(g, conf, 1 .. n)
           c == [i \in 0 .. n |-> f[1 .. i]]
<1>1. n \in Nat /\ DOMAIN conf = 1 .. n
  BY LenProperties DEF Lines
<1>2. f = Folding(f, conf, 1 .. n)
  <2>1. \E g : g = Folding(g, conf, 1 .. n)
    BY <1>1, FoldingExists
  <2> QED BY <2>1
<1>3. FoldLeft(ConfLine, NoConf, conf) = f[1 .. n]
  BY <1>1 DEF FoldLeft, MapThenFoldSet, Folding
<1>4. c[0] = NoConf
  <2>1. 1 .. 0 = {}
    BY SMT
  <2>2. {} \in SUBSET (1 .. n)
    OBVIOUS
  <2>3. f[{}] = NoConf
    <3> HIDE DEF f
    <3> QED BY <1>2, <2>2 DEF Folding
  <2> HIDE DEF f, n
  <2> QED BY <1>1, <2>1, <2>3
<1>5. ASSUME NEW i \in 1 .. n PROVE c[i] = ConfLine(c[i - 1], conf[i])
  <2> HIDE DEF f, n
  <2>1. i \in Nat /\ i # 0 /\ 1 .. i \in SUBSET (1 .. n) /\ i \in 1 .. i /\ i - 1 \in 0 .. n /\ i \in 0 .. n
    BY <1>1
  <2>2. Max(1 .. i) = i
    <3>1. Max(1 .. i) \in 1 .. i /\ \A y \in 1 .. i : Max(1 .. i) >= y
      BY <2>1, MaxOf
    <3> QED BY <2>1, <3>1
  <2>3. (1 .. i) \ {i} = 1 .. (i - 1)
    BY <2>1
  <2>4. f[1 .. i] = ConfLine(f[(1 .. i) \ {Max(1 .. i)}], conf[Max(1 .. i)])
    BY <1>2, <2>1 DEF Folding
  <2>5. c[i] = f[1 .. i] /\ c[i - 1] = f[1 .. (i - 1)]
    BY <2>1
  <2> QED BY <2>2, <2>3, <2>4, <2>5
<1>6. c[n] = f[1 .. n]
  <2> HIDE DEF f, n
  <2> QED BY <1>1
<1> HIDE DEF c, f
<1> QED BY <1>3, <1>4, <1>5, <1>6

-----------------------------------------------------------------------------
(* What the lines up to the n-th amount to *)

\* c is what the first n lines say: whether the n-th is in a block of the host, and the
\* first value of each directive.
SaysUpTo(c, conf, n) ==
  /\ c \in Conf
  /\ c.in <=> InBlock(conf, n + 1)
  /\ \A key \in Directives :
       LET H == Hits(conf, key, n)
       IN  /\ H = {} => c[key] = ""
           /\ H # {} => \E i \in H : (\A j \in H : i <= j) /\ c[key] = conf[i].value

\* Whether line i + 1 is in a block of the host depends on line i, or on where that is.
LEMMA BlockStep ==
  ASSUME NEW conf \in Lines, NEW i \in 1 .. Len(conf)
  PROVE  InBlock(conf, i + 1) <=>
           IF conf[i].key = "host" THEN conf[i].value = "match" ELSE InBlock(conf, i)
<1>1. i \in Nat /\ i >= 1 /\ i + 1 - 1 = i
  OBVIOUS
<1>2. CASE conf[i].key = "host"
  <2>1. InBlock(conf, i + 1) => conf[i].value = "match"
    <3> SUFFICES ASSUME NEW h \in 1 .. i, conf[h].key = "host", conf[h].value = "match",
                        \A j \in (h + 1) .. i : conf[j].key # "host"
                 PROVE  conf[i].value = "match"
      BY <1>1 DEF InBlock
    <3>1. h = i
      BY <1>1, <1>2
    <3> QED BY <3>1
  <2>2. ASSUME conf[i].value = "match" PROVE InBlock(conf, i + 1)
    <3>1. i \in 1 .. (i + 1 - 1) /\ \A j \in (i + 1) .. (i + 1 - 1) : conf[j].key # "host"
      BY <1>1
    <3> QED BY <1>2, <2>2, <3>1 DEF InBlock
  <2> QED BY <1>2, <2>1, <2>2
<1>3. CASE conf[i].key # "host"
  <2>1. ASSUME InBlock(conf, i + 1) PROVE InBlock(conf, i)
    <3>1. PICK h \in 1 .. i : /\ conf[h].key = "host" /\ conf[h].value = "match"
                              /\ \A j \in (h + 1) .. i : conf[j].key # "host"
      BY <1>1, <2>1 DEF InBlock
    <3>2. h \in 1 .. (i - 1) /\ \A j \in (h + 1) .. (i - 1) : j \in (h + 1) .. i
      BY <1>1, <1>3, <3>1
    <3> QED BY <3>1, <3>2 DEF InBlock
  <2>2. ASSUME InBlock(conf, i) PROVE InBlock(conf, i + 1)
    <3>1. PICK h \in 1 .. (i - 1) : /\ conf[h].key = "host" /\ conf[h].value = "match"
                                    /\ \A j \in (h + 1) .. (i - 1) : conf[j].key # "host"
      BY <2>2 DEF InBlock
    <3>2. h \in 1 .. (i + 1 - 1) /\ \A j \in (h + 1) .. (i + 1 - 1) : j = i \/ j \in (h + 1) .. (i - 1)
      BY <1>1
    <3> QED BY <1>3, <3>1, <3>2 DEF InBlock
  <2> QED BY <1>3, <2>1, <2>2
<1> QED BY <1>2, <1>3

LEMMA HitsStep ==
  ASSUME NEW conf \in Lines, NEW i \in 1 .. Len(conf), NEW key
  PROVE  Hits(conf, key, i) =
           Hits(conf, key, i - 1)
             \cup (IF conf[i].key = key /\ conf[i].value # "" /\ InBlock(conf, i) THEN {i} ELSE {})
<1>1. 1 .. i = (1 .. (i - 1)) \cup {i}
  BY SMT
<1> QED BY <1>1, Zenon DEF Hits

LEMMA ConfLineType ==
  ASSUME NEW c \in Conf, NEW l \in [key : Text, value : Text]
  PROVE  /\ ConfLine(c, l) \in Conf
         /\ ConfLine(c, l).in = (IF l.key = "host" THEN l.value = "match" ELSE c.in)
         /\ \A key \in Directives :
              ConfLine(c, l)[key] = IF c.in /\ l.key = key /\ c[key] = "" THEN l.value ELSE c[key]
BY DEF ConfLine, Conf, Directives

LEMMA SaysStep ==
  ASSUME NEW conf \in Lines, NEW i \in 1 .. Len(conf), NEW c, SaysUpTo(c, conf, i - 1)
  PROVE  SaysUpTo(ConfLine(c, conf[i]), conf, i)
<1> DEFINE d == ConfLine(c, conf[i])
<1>1. i \in Nat /\ i - 1 + 1 = i /\ conf[i] \in [key : Text, value : Text]
  <2>1. conf[i] \in [key : Text, value : Text]
    BY ElementOfSeq DEF Lines
  <2>2. Len(conf) \in Nat
    BY LenProperties DEF Lines
  <2> QED BY <2>1, <2>2
<1>2. c \in Conf /\ (c.in <=> InBlock(conf, i))
  BY <1>1 DEF SaysUpTo
<1>3. /\ d \in Conf
      /\ d.in = (IF conf[i].key = "host" THEN conf[i].value = "match" ELSE c.in)
      /\ \A key \in Directives :
           d[key] = IF c.in /\ conf[i].key = key /\ c[key] = "" THEN conf[i].value ELSE c[key]
  BY <1>1, <1>2, ConfLineType
<1> HIDE DEF d
<1>4. d.in <=> InBlock(conf, i + 1)
  BY <1>2, <1>3, BlockStep
<1>5. ASSUME NEW key \in Directives
      PROVE  /\ Hits(conf, key, i) = {} => d[key] = ""
             /\ Hits(conf, key, i) # {} =>
                  \E k \in Hits(conf, key, i) : (\A j \in Hits(conf, key, i) : k <= j) /\ d[key] = conf[k].value
  <2> DEFINE G == Hits(conf, key, i - 1)
             H == Hits(conf, key, i)
             New == conf[i].key = key /\ conf[i].value # "" /\ InBlock(conf, i)
  <2>1. H = G \cup (IF New THEN {i} ELSE {})
    BY HitsStep
  <2>2. /\ G = {} => c[key] = ""
        /\ G # {} => \E k \in G : (\A j \in G : k <= j) /\ c[key] = conf[k].value
    BY DEF SaysUpTo
  <2>3. \A k \in G : k \in 1 .. (i - 1) /\ conf[k].value # ""
    BY DEF Hits
  <2>4. d[key] = IF c.in /\ conf[i].key = key /\ c[key] = "" THEN conf[i].value ELSE c[key]
    BY <1>3
  <2> HIDE DEF G, H
  <2>5. CASE G = {}
    <3>1. c[key] = "" /\ d[key] = IF New THEN conf[i].value ELSE ""
      BY <2>2, <2>4, <2>5, <1>2
    <3>2. H = IF New THEN {i} ELSE {}
      BY <2>1, <2>5
    <3>3. CASE New
      <4>1. H = {i} /\ d[key] = conf[i].value
        <5> HIDE DEF New
        <5> QED BY <3>1, <3>2, <3>3
      <4>2. i <= i
        BY <1>1
      <4> HIDE DEF New
      <4> QED BY <4>1, <4>2 DEF H
    <3>4. CASE ~New
      <4>1. H = {} /\ d[key] = ""
        BY <3>1, <3>2, <3>4
      <4> QED BY <4>1 DEF H
    <3> QED BY <3>3, <3>4
  <2>6. CASE G # {}
    <3>1. PICK k \in G : (\A j \in G : k <= j) /\ c[key] = conf[k].value
      BY <2>2, <2>6
    <3>2. d[key] = conf[k].value
      BY <2>3, <2>4, <3>1
    <3> HIDE DEF New
    <3>5. k \in 1 .. (i - 1)
      BY <2>3
    <3>3. k <= i /\ k \in H /\ \A j \in H : j \in G \/ j = i
      <4>1. k <= i
        BY <3>5, <1>1
      <4> QED BY <4>1, <2>1, Zenon
    <3>4. \A j \in H : k <= j
      BY <3>1, <3>3
    <3> QED BY <3>2, <3>3, <3>4 DEF H
  <2> QED BY <2>5, <2>6
<1> QED BY <1>3, <1>4, <1>5 DEF SaysUpTo, d

\* After the last line the fold is what the file says.
LEMMA FoldSays ==
  ASSUME NEW conf \in Lines
  PROVE  SaysUpTo(FoldLeft(ConfLine, NoConf, conf), conf, Len(conf))
<1>1. PICK c : /\ c[0] = NoConf
               /\ \A i \in 1 .. Len(conf) : c[i] = ConfLine(c[i - 1], conf[i])
               /\ FoldLeft(ConfLine, NoConf, conf) = c[Len(conf)]
  BY FoldByLine
<1>2. Len(conf) \in Nat
  BY LenProperties DEF Lines
<1> DEFINE S == {n \in Nat : n <= Len(conf) => SaysUpTo(c[n], conf, n)}
<1>3. 0 \in S
  <2>1. NoConf \in Conf /\ ~NoConf.in /\ \A key \in Directives : NoConf[key] = ""
    <3> HIDE DEF S
    <3>1. NoConf \in Conf
      BY DEF NoConf, Conf, Text
    <3>2. NoConf.in = FALSE
      BY DEF NoConf
    <3>3. NoConf.user = "" /\ NoConf.identityfile = ""
      BY DEF NoConf
    <3> QED BY <3>1, <3>2, <3>3 DEF Directives
  <2>2. ~InBlock(conf, 0 + 1)
    BY DEF InBlock
  <2>3. \A key : Hits(conf, key, 0) = {}
    BY DEF Hits
  <2> QED BY <1>1, <2>1, <2>2, <2>3 DEF SaysUpTo
<1>4. ASSUME NEW n \in Nat, n \in S PROVE n + 1 \in S
  <2> SUFFICES ASSUME n + 1 <= Len(conf) PROVE SaysUpTo(c[n + 1], conf, n + 1)
    OBVIOUS
  <2>1. n + 1 \in 1 .. Len(conf) /\ n + 1 - 1 = n /\ SaysUpTo(c[n], conf, n)
    BY <1>2, <1>4
  <2>2. c[n + 1] = ConfLine(c[n], conf[n + 1])
    BY <1>1, <2>1
  <2>3. SaysUpTo(ConfLine(c[n], conf[n + 1]), conf, n + 1)
    BY <2>1, SaysStep
  <2> QED BY <2>2, <2>3
<1>5. Nat \subseteq S
  <2> HIDE DEF S
  <2> QED BY <1>3, <1>4, NatInSet
<1> QED BY <1>1, <1>2, <1>5

\* Surroundings as the plugin may find them.
Readable(env) ==
  env.home \in BOOLEAN /\ env.envUser \in Text /\ env.envKey \in Text /\ env.conf \in Lines

\* The loop over ~/.ssh/config finds the first value of each directive in a block of
\* the host, whatever the file holds.
THEOREM ConfigIsFirstValue ==
  ASSUME NEW env, Readable(env), NEW key \in Directives
  PROVE  sshConfigForHost(env)[key] = ConfValue(env, key) /\ ConfValue(env, key) \in Text
<1> DEFINE c == FoldLeft(ConfLine, NoConf, env.conf)
           H == Hits(env.conf, key, Len(env.conf))
<1>1. CASE env.home
  <2>1. /\ c \in Conf
        /\ H = {} => c[key] = ""
        /\ H # {} => \E i \in H : (\A j \in H : i <= j) /\ c[key] = env.conf[i].value
    BY FoldSays DEF SaysUpTo, Readable
  <2>2. c[key] \in Text
    <3> HIDE DEF c
    <3> QED BY <2>1 DEF Conf, Directives
  <2>3. \A i, j \in H : i \in Nat /\ j \in Nat /\ (i <= j /\ j <= i => i = j)
    <3>1. \A i \in H : i \in 1 .. Len(env.conf)
      BY DEF Hits
    <3>2. \A i \in H : i \in Nat
      <4> HIDE DEF H
      <4> QED BY <3>1
    <3> HIDE DEF H
    <3> QED BY <3>2
  <2>4. sshConfigForHost(env) = c
    BY <1>1 DEF sshConfigForHost
  <2>5. ConfValue(env, key) =
          IF H # {} THEN env.conf[CHOOSE i \in H : \A j \in H : i <= j].value ELSE ""
    BY <1>1 DEF ConfValue
  <2> HIDE DEF c, H
  <2>6. CASE H = {}
    BY <2>1, <2>2, <2>4, <2>5, <2>6
  <2>7. CASE H # {}
    <3>1. PICK i \in H : (\A j \in H : i <= j) /\ c[key] = env.conf[i].value
      BY <2>1, <2>7
    <3>2. (CHOOSE k \in H : \A j \in H : k <= j) = i
      BY <3>1, <2>3
    <3> QED BY <2>2, <2>4, <2>5, <2>7, <3>1, <3>2
  <2> QED BY <2>6, <2>7
<1>2. CASE ~env.home
  <2>1. sshConfigForHost(env) = NoConf /\ ConfValue(env, key) = ""
    BY <1>2 DEF sshConfigForHost, ConfValue
  <2>2. NoConf.user = "" /\ NoConf.identityfile = ""
    BY DEF NoConf
  <2> QED BY <2>1, <2>2 DEF Directives, Text
<1> QED BY <1>1, <1>2

-----------------------------------------------------------------------------
(* The first value that is set *)

LEMMA FirstSetOf ==
  ASSUME NEW V, NEW s \in Seq(V)
  PROVE  \/ (\A i \in 1 .. Len(s) : s[i] = "") /\ FirstSet(s) = ""
         \/ \E i \in 1 .. Len(s) : /\ s[i] # "" /\ FirstSet(s) = s[i]
                                   /\ \A j \in 1 .. Len(s) : s[j] # "" => i <= j
<1> DEFINE I == {i \in 1 .. Len(s) : s[i] # ""}
<1>1. FirstSet(s) = IF (IF I # {} THEN Min(I) ELSE 0) = 0 THEN "" ELSE s[IF I # {} THEN Min(I) ELSE 0]
  BY Zenon DEF FirstSet, SelectInSeq
<1>2. I \in SUBSET (1 .. Len(s)) /\ \A i \in 1 .. Len(s) : i \in Nat /\ i # 0
  <2>1. \A i \in 1 .. Len(s) : i \in Nat /\ i # 0
    <3> HIDE DEF I
    <3> QED OBVIOUS
  <2>2. I \in SUBSET (1 .. Len(s))
    BY Zenon
  <2> QED BY <2>1, <2>2
<1>3. CASE I = {}
  BY <1>1, <1>3
<1>4. CASE I # {}
  <2>1. Min(I) \in I /\ \A y \in I : Min(I) <= y
    <3> HIDE DEF I
    <3> QED BY <1>2, <1>4, MinOf
  <2>2. Min(I) # 0
    <3> HIDE DEF I
    <3> QED BY <1>2, <2>1
  <2>3. FirstSet(s) = s[Min(I)]
    <3> HIDE DEF I
    <3> QED BY <1>1, <1>4, <2>2
  <2> QED BY <2>1, <2>3
<1> QED BY <1>3, <1>4

LEMMA FirstOfTwoAndRest ==
  ASSUME NEW V, NEW a \in V, NEW b \in V, NEW t \in Seq(V)
  PROVE  FirstSet(<<a, b>> \o t) = IF a # "" THEN a ELSE IF b # "" THEN b ELSE FirstSet(t)
<1> DEFINE s == <<a, b>> \o t
<1>1. /\ s \in Seq(V) /\ Len(s) = Len(t) + 2 /\ Len(t) \in Nat
      /\ s[1] = a /\ s[2] = b /\ \A i \in 1 .. Len(t) : s[i + 2] = t[i]
  <2>1. <<a, b>> \in Seq(V) /\ Len(<<a, b>>) = 2 /\ <<a, b>>[1] = a /\ <<a, b>>[2] = b
    OBVIOUS
  <2> DEFINE p == <<a, b>>
  <2> HIDE DEF p
  <2>2. p \in Seq(V) /\ Len(p) = 2 /\ p[1] = a /\ p[2] = b
    BY <2>1 DEF p
  <2>3. s = p \o t
    BY DEF p
  <2>4. s \in Seq(V) /\ Len(s) = 2 + Len(t) /\ Len(t) \in Nat
    BY <2>2, <2>3
  <2>5. \A i \in 1 .. Len(t) + 2 : s[i] = IF i <= 2 THEN p[i] ELSE t[i - 2]
    BY <2>2, <2>3
  <2>6. \A i \in 1 .. Len(t) : i + 2 \in 1 .. Len(t) + 2 /\ ~(i + 2 <= 2) /\ i + 2 - 2 = i
    BY <2>4
  <2>7. 1 \in 1 .. Len(t) + 2 /\ 2 \in 1 .. Len(t) + 2
    BY <2>4
  <2> HIDE DEF s
  <2> QED BY <2>2, <2>4, <2>5, <2>6, <2>7
<1> HIDE DEF s
<1>2. \A i \in 1 .. Len(s) : i = 1 \/ i = 2 \/ (i - 2 \in 1 .. Len(t) /\ s[i] = t[i - 2])
  <2> TAKE i \in 1 .. Len(s)
  <2>1. CASE i > 2
    <3>1. i - 2 \in 1 .. Len(t) /\ i - 2 + 2 = i
      BY <1>1, <2>1
    <3> QED BY <1>1, <3>1
  <2> QED BY <2>1, <1>1
<1>3. 1 \in 1 .. Len(s) /\ 2 \in 1 .. Len(s)
  BY <1>1
<1>4. CASE a # "" \/ b # ""
  <2>1. PICK i \in 1 .. Len(s) : /\ s[i] # "" /\ FirstSet(s) = s[i]
                                /\ \A j \in 1 .. Len(s) : s[j] # "" => i <= j
    BY <1>1, <1>3, <1>4, FirstSetOf
  <2>2. i \in Nat /\ i >= 1
    BY <1>1
  <2>3. CASE a # ""
    <3>1. i <= 1
      BY <1>1, <1>3, <2>1, <2>3
    <3>2. i = 1
      BY <2>2, <3>1
    <3> QED BY <1>1, <2>1, <2>3, <3>2 DEF s
  <2>4. CASE a = ""
    <3>1. i <= 2
      BY <1>1, <1>3, <1>4, <2>1, <2>4
    <3>2. i # 1
      BY <1>1, <2>1, <2>4
    <3>3. i = 2
      BY <2>2, <3>1, <3>2
    <3> QED BY <1>1, <1>4, <2>1, <2>4, <3>3 DEF s
  <2> QED BY <2>3, <2>4
<1>5. CASE a = "" /\ b = ""
  <2>1. CASE \A i \in 1 .. Len(t) : t[i] = ""
    <3>1. FirstSet(t) = ""
      BY <2>1, FirstSetOf
    <3>2. \A i \in 1 .. Len(s) : s[i] = ""
      BY <1>1, <1>2, <1>5, <2>1
    <3>3. FirstSet(s) = ""
      BY <1>1, <3>2, FirstSetOf
    <3> QED BY <1>5, <3>1, <3>3 DEF s
  <2>2. CASE \E i \in 1 .. Len(t) : t[i] # ""
    <3>1. PICK i \in 1 .. Len(t) : /\ t[i] # "" /\ FirstSet(t) = t[i]
                                  /\ \A j \in 1 .. Len(t) : t[j] # "" => i <= j
      BY <2>2, FirstSetOf
    <3>2. i + 2 \in 1 .. Len(s) /\ s[i + 2] # ""
      <4>1. i + 2 \in 1 .. Len(s)
        BY <1>1
      <4> QED BY <1>1, <3>1, <4>1
    <3>3. PICK k \in 1 .. Len(s) : /\ s[k] # "" /\ FirstSet(s) = s[k]
                                  /\ \A j \in 1 .. Len(s) : s[j] # "" => k <= j
      BY <1>1, <3>2, FirstSetOf
    <3>4. k - 2 \in 1 .. Len(t) /\ s[k] = t[k - 2]
      BY <1>1, <1>2, <1>5, <3>3
    <3>5. k <= i + 2 /\ i <= k - 2
      BY <3>1, <3>2, <3>3, <3>4
    <3>6. k - 2 = i
      BY <3>5, <3>4
    <3> QED BY <1>5, <3>1, <3>3, <3>4, <3>6 DEF s
  <2> QED BY <2>1, <2>2
<1> QED BY <1>4, <1>5

LEMMA FirstOfThree ==
  ASSUME NEW V, NEW a \in V, NEW b \in V, NEW c \in V
  PROVE  FirstSet(<<a, b, c>>) = IF a # "" THEN a ELSE IF b # "" THEN b ELSE c
<1> DEFINE s == <<a, b, c>>
<1>1. s \in Seq(V) /\ Len(s) = 3 /\ s[1] = a /\ s[2] = b /\ s[3] = c
  OBVIOUS
<1> HIDE DEF s
<1>2. 1 \in 1 .. Len(s) /\ 2 \in 1 .. Len(s) /\ 3 \in 1 .. Len(s)
  BY <1>1
<1>3. CASE \A i \in 1 .. Len(s) : s[i] = ""
  <2>1. FirstSet(s) = ""
    BY <1>1, <1>3, FirstSetOf
  <2> QED BY <1>1, <1>2, <1>3, <2>1 DEF s
<1>4. CASE \E i \in 1 .. Len(s) : s[i] # ""
  <2>1. PICK i \in 1 .. Len(s) : /\ s[i] # "" /\ FirstSet(s) = s[i]
                                /\ \A j \in 1 .. Len(s) : s[j] # "" => i <= j
    BY <1>1, <1>4, FirstSetOf
  <2>2. i = 1 \/ i = 2 \/ i = 3
    BY <1>1
  <2>3. ASSUME a # "" PROVE i = 1
    <3>1. i <= 1
      BY <1>1, <1>2, <2>1, <2>3
    <3> QED BY <2>2, <3>1
  <2>4. ASSUME a = "", b # "" PROVE i = 2
    <3>1. i <= 2 /\ i # 1
      BY <1>1, <1>2, <2>1, <2>4
    <3> QED BY <2>2, <3>1
  <2>5. a = "" /\ b = "" => i = 3
    BY <1>1, <2>1, <2>2
  <2> QED BY <1>1, <2>1, <2>3, <2>4, <2>5 DEF s
<1> QED BY <1>3, <1>4

\* The default keys, with "" for one that cannot be used.
Usable(env) == [i \in DOMAIN DefaultKeys |-> IF env.keys[DefaultKeys[i]] = "usable" THEN DefaultKeys[i] ELSE ""]

\* The order of the three copies in the code, written once.
DefaultKey(env) ==
  LET i == SelectInSeq(DefaultKeys, LAMBDA k : env.keys[k] = "usable")
  IN  IF env.home /\ i # 0 THEN DefaultKeys[i] ELSE ""

KeyInOrder(env) ==
  IF env.envKey # "" THEN env.envKey
  ELSE IF ConfValue(env, "identityfile") # "" THEN ConfValue(env, "identityfile") ELSE DefaultKey(env)

UserInOrder(env) == IF ConfValue(env, "user") # "" THEN ConfValue(env, "user") ELSE env.envUser

InOrder(c, env) ==
  LET u == [c EXCEPT !.user = IF c.user # "" THEN c.user ELSE UserInOrder(env)]
  IN  IF HasAuth(c) THEN u ELSE [u EXCEPT !.key = KeyInOrder(env), !.agent = (KeyInOrder(env) = "")]

LEMMA DefaultKeyFirst ==
  ASSUME NEW env, env.home
  PROVE  Usable(env) \in Seq(Text) /\ DefaultKey(env) = FirstSet(Usable(env))
<1> DEFINE n == Len(DefaultKeys)
           I == {i \in 1 .. n : env.keys[DefaultKeys[i]] = "usable"}
           u == Usable(env)
<1>1. n \in Nat /\ DOMAIN DefaultKeys = 1 .. n /\ \A i \in 1 .. n : DefaultKeys[i] \in Text /\ DefaultKeys[i] # ""
  BY KeysAssumption, LenProperties, ElementOfSeq
<1>2. u = [i \in 1 .. n |-> IF env.keys[DefaultKeys[i]] = "usable" THEN DefaultKeys[i] ELSE ""]
  BY <1>1 DEF Usable
<1>3. u \in Seq(Text) /\ Len(u) = n
  <2>1. u \in [1 .. n -> Text] /\ n \in Nat
    BY <1>1, <1>2 DEF Text
  <2>2. u \in Seq(Text)
    <3> HIDE DEF u, n
    <3> QED BY <2>1, SeqDef
  <2>3. Len(u) = n
    <3> HIDE DEF u, n
    <3>1. DOMAIN u = 1 .. n /\ DOMAIN u = 1 .. Len(u) /\ Len(u) \in Nat
      BY <2>1, <2>2, LenProperties
    <3> QED BY <2>1, <3>1
  <2> QED BY <2>2, <2>3
<1>4. {i \in 1 .. Len(u) : u[i] # ""} = I
  BY <1>1, <1>2, <1>3
<1>5. I \in SUBSET Nat /\ (I # {} => Min(I) \in I /\ Min(I) # 0)
  <2>1. I \in SUBSET (1 .. n)
    BY Zenon
  <2>2. \A i \in 1 .. n : i \in Nat /\ i # 0
    <3> HIDE DEF I, n, u
    <3> QED OBVIOUS
  <2> HIDE DEF I, n
  <2> QED BY <2>1, <2>2, MinOf
<1>6. FirstSet(u) = IF (IF I # {} THEN Min(I) ELSE 0) = 0 THEN "" ELSE u[IF I # {} THEN Min(I) ELSE 0]
  <2> HIDE DEF u, I
  <2> QED BY <1>4, Zenon DEF FirstSet, SelectInSeq
<1>7. DefaultKey(env) = IF (IF I # {} THEN Min(I) ELSE 0) # 0 THEN DefaultKeys[IF I # {} THEN Min(I) ELSE 0] ELSE ""
  BY Zenon DEF DefaultKey, SelectInSeq
<1>8. CASE I = {}
  BY <1>3, <1>6, <1>7, <1>8
<1>9. CASE I # {}
  <2>1. Min(I) \in 1 .. n /\ env.keys[DefaultKeys[Min(I)]] = "usable" /\ Min(I) # 0
    BY <1>5, <1>9
  <2>2. u[Min(I)] = DefaultKeys[Min(I)]
    BY <1>2, <2>1
  <2> HIDE DEF I, u, n
  <2> QED BY <1>3, <1>6, <1>7, <1>9, <2>1, <2>2 DEF u
<1> QED BY <1>8, <1>9

LEMMA UserIsFirst ==
  ASSUME NEW env, Readable(env), NEW V, NEW u \in V, Text \subseteq V
  PROVE  FirstSet(<<u, ConfValue(env, "user"), env.envUser>>) = IF u # "" THEN u ELSE UserInOrder(env)
<1>1. u \in V /\ ConfValue(env, "user") \in V /\ env.envUser \in V
  BY ConfigIsFirstValue DEF Directives, Readable
<1>2. FirstSet(<<u, ConfValue(env, "user"), env.envUser>>) =
        IF u # "" THEN u ELSE IF ConfValue(env, "user") # "" THEN ConfValue(env, "user") ELSE env.envUser
  BY <1>1, FirstOfThree, Zenon
<1> QED BY <1>2 DEF UserInOrder

LEMMA KeyIsFirst ==
  ASSUME NEW env, Readable(env)
  PROVE  KeyInOrder(env) = FirstSet(<<env.envKey, ConfValue(env, "identityfile")>>
                                      \o (IF env.home THEN Usable(env) ELSE <<>>))
<1> DEFINE t == IF env.home THEN Usable(env) ELSE <<>>
<1>1. ConfValue(env, "identityfile") \in Text /\ env.envKey \in Text
  BY ConfigIsFirstValue DEF Directives, Readable
<1>2. t \in Seq(Text) /\ DefaultKey(env) = FirstSet(t)
  <2>1. CASE env.home
    BY <2>1, DefaultKeyFirst
  <2>2. CASE ~env.home
    <3>1. <<>> \in Seq(Text) /\ Len(<<>>) = 0
      BY EmptySeq
    <3>2. FirstSet(<<>>) = ""
      <4> DEFINE e == <<>>
      <4>1. e \in Seq(Text) /\ Len(e) = 0
        BY <3>1
      <4> HIDE DEF e
      <4>2. FirstSet(e) = ""
        <5>1. ~\E i \in 1 .. Len(e) : TRUE
          BY <4>1
        <5> QED BY <4>1, <5>1, FirstSetOf, Zenon
      <4> QED BY <4>2 DEF e
    <3>3. DefaultKey(env) = ""
      BY <2>2 DEF DefaultKey
    <3> QED BY <2>2, <3>1, <3>2, <3>3
  <2> QED BY <2>1, <2>2
<1> HIDE DEF t
<1>3. FirstSet(<<env.envKey, ConfValue(env, "identityfile")>> \o t) =
        IF env.envKey # "" THEN env.envKey
        ELSE IF ConfValue(env, "identityfile") # "" THEN ConfValue(env, "identityfile") ELSE FirstSet(t)
  BY <1>1, <1>2, FirstOfTwoAndRest
<1> QED BY <1>1, <1>2, <1>3 DEF KeyInOrder, t

\* Each of the two copies of the resolution follows the order, on its own.
LEMMA BastionInOrder ==
  ASSUME NEW env, Readable(env)
  PROVE  bastionUser(env) = UserInOrder(env) /\ bastionKey(env) = KeyInOrder(env)
<1>1. \A key \in Directives : sshConfigForHost(env)[key] = ConfValue(env, key)
  BY ConfigIsFirstValue
<1>2. /\ sshConfigForHost(env).user = ConfValue(env, "user")
      /\ sshConfigForHost(env).identityfile = ConfValue(env, "identityfile")
  BY <1>1 DEF Directives
<1> QED BY <1>2, Zenon DEF bastionUser, bastionKey, UserInOrder, KeyInOrder, DefaultKey

LEMMA TunnelInOrder ==
  ASSUME NEW env, Readable(env)
  PROVE  tunnelUser(env) = UserInOrder(env) /\ tunnelKey(env) = KeyInOrder(env)
<1>1. \A key \in Directives : sshConfigForHost(env)[key] = ConfValue(env, key)
  BY ConfigIsFirstValue
<1>2. /\ sshConfigForHost(env).user = ConfValue(env, "user")
      /\ sshConfigForHost(env).identityfile = ConfValue(env, "identityfile")
  BY <1>1 DEF Directives
<1> QED BY <1>2, Zenon DEF tunnelUser, tunnelKey, UserInOrder, KeyInOrder, DefaultKey

LEMMA DocumentedInOrder ==
  ASSUME NEW env, Readable(env), NEW V, Text \subseteq V,
         NEW c \in [user : V, password : V, key : V, agent : BOOLEAN]
  PROVE  Documented(c, env) = InOrder(c, env)
<1> DEFINE t == IF env.home THEN Usable(env) ELSE <<>>
           key == FirstSet(<<env.envKey, ConfValue(env, "identityfile")>> \o t)
           user == FirstSet(<<c.user, ConfValue(env, "user"), env.envUser>>)
<1>1. key = KeyInOrder(env)
  BY KeyIsFirst
<1>2. user = IF c.user # "" THEN c.user ELSE UserInOrder(env)
  BY UserIsFirst
<1>3. Documented(c, env) = IF HasAuth(c) THEN [c EXCEPT !.user = user]
                           ELSE [c EXCEPT !.user = user, !.key = key, !.agent = (key = "")]
  BY Zenon DEF Documented, Usable
<1> HIDE DEF key, user, t
<1> QED BY <1>1, <1>2, <1>3, Zenon DEF InOrder

\* applyAutoBastion keeps to the order that its comment states, whatever is explicit and
\* whatever ~/.ssh/config, the keys and the variables are.
THEOREM AutoBastionDocumented ==
  ASSUME NEW env, Readable(env), NEW V, Text \subseteq V,
         NEW c \in [user : V, password : V, key : V, agent : BOOLEAN]
  PROVE  applyAutoBastion(c, env) = Documented(c, env)
<1> DEFINE user == IF c.user # "" THEN c.user ELSE UserInOrder(env)
<1>1. Documented(c, env) = InOrder(c, env)
  BY DocumentedInOrder
<1>2. bastionUser(env) = UserInOrder(env) /\ bastionKey(env) = KeyInOrder(env)
  BY BastionInOrder
<1>3. (IF c.user = "" THEN [c EXCEPT !.user = bastionUser(env)] ELSE c) = [c EXCEPT !.user = user]
  BY <1>2
<1> HIDE DEF user
<1> QED BY <1>1, <1>2, <1>3, Zenon DEF applyAutoBastion, InOrder, user

\* The WinRM tunnel's own copy of the resolution gives what the documented order gives
\* where nothing is explicit, whatever ~/.ssh/config, the keys and the variables are.
THEOREM TunnelDocumented ==
  ASSUME NEW env, Readable(env)
  PROVE  LET d == Documented([user |-> "", password |-> "", key |-> "", agent |-> FALSE], env)
         IN  resolveBastionSSHParams(env) = [user |-> d.user, key |-> d.key, agent |-> d.agent]
<1> DEFINE c == [user |-> "", password |-> "", key |-> "", agent |-> FALSE]
           u == UserInOrder(env)
           k == KeyInOrder(env)
           b == (k = "")
           V == Text \cup {"", u}
           d == [c EXCEPT !.user = u, !.key = k, !.agent = b]
<1>1. c \in [user : V, password : V, key : V, agent : BOOLEAN] /\ c.user = "" /\ ~HasAuth(c)
  <2>1. c \in [user : V, password : V, key : V, agent : BOOLEAN]
    OBVIOUS
  <2>2. c.user = "" /\ c.password = "" /\ c.key = "" /\ c.agent = FALSE
    OBVIOUS
  <2> HIDE DEF c
  <2> QED BY <2>1, <2>2 DEF HasAuth
<1>2. Documented(c, env) = d
  <2> HIDE DEF c
  <2>1. Text \subseteq V
    OBVIOUS
  <2> HIDE DEF V
  <2>2. Documented(c, env) = InOrder(c, env)
    BY <1>1, <2>1, DocumentedInOrder
  <2> QED BY <1>1, <2>2, Zenon DEF InOrder
<1>3. d.user = u /\ d.key = k /\ d.agent = b
  <2>1. b \in BOOLEAN
    OBVIOUS
  <2> HIDE DEF k, b, u
  <2> QED BY <2>1
<1>4. resolveBastionSSHParams(env) = [user |-> u, key |-> k, agent |-> b]
  BY TunnelInOrder, Zenon DEF resolveBastionSSHParams
<1> HIDE DEF d, b, k, u
<1> QED BY <1>2, <1>3, <1>4, Zenon

\* So the two copies, each resolving for itself, agree where nothing is explicit.
THEOREM TunnelAndBastionAgree ==
  ASSUME NEW env, Readable(env)
  PROVE  LET a == applyAutoBastion([user |-> "", password |-> "", key |-> "", agent |-> FALSE], env)
         IN  resolveBastionSSHParams(env) = [user |-> a.user, key |-> a.key, agent |-> a.agent]
<1> DEFINE c == [user |-> "", password |-> "", key |-> "", agent |-> FALSE]
<1>1. applyAutoBastion(c, env) = Documented(c, env)
  <2> DEFINE V == Text
  <2>1. c \in [user : V, password : V, key : V, agent : BOOLEAN]
    BY DEF Text
  <2> HIDE DEF c
  <2> QED BY <2>1, AutoBastionDocumented
<1> QED BY <1>1, TunnelDocumented, Zenon
=============================================================================
