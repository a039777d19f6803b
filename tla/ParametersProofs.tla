---------------------------- MODULE ParametersProofs ----------------------------
(***************************************************************************)
(* Proofs about what the server reads of the parameters of a request, for  *)
(* keys and `expand` parameters of any size.  parseKey finds the parts     *)
(* that a key was written from.  The level that parseExpansionLevel makes  *)
(* is the tree of the prefixes of what was asked for, because what it      *)
(* makes of a group is what it would make of the rests of the group's      *)
(* strings.                                                                *)
(***************************************************************************)
EXTENDS ExpansionRequests, ParamKeys, NaturalSets

----------------------------------------------------------------------------
(* The keys of parameters: parseKey meets the equation that defines it.    *)

Reads(f, key, n) ==
    f[0] = KeyStart /\ \A i \in 1..n : f[i] = KeyStep(f[i - 1], key[i])

LEMMA ReadsExist == \A n \in Nat : \A key : \E f : Reads(f, key, n)
<1> SUFFICES ASSUME NEW key PROVE \A n \in Nat : \E f : Reads(f, key, n)
  OBVIOUS
<1> DEFINE S == {n \in Nat : \E f : Reads(f, key, n)}
<1>1. 0 \in S
  <2> DEFINE f == [i \in {0} |-> KeyStart]
  <2>1. Reads(f, key, 0)
    BY DEF Reads
  <2> QED BY <2>1
<1>2. ASSUME NEW n \in Nat, n \in S PROVE n + 1 \in S
  <2>1. PICK f : Reads(f, key, n)
    BY <1>2
  <2> DEFINE g == [i \in 0..(n + 1) |-> IF i = n + 1 THEN KeyStep(f[n], key[n + 1]) ELSE f[i]]
  <2>2. g[0] = KeyStart
    BY <2>1 DEF Reads
  <2>3. ASSUME NEW i \in 1..(n + 1) PROVE g[i] = KeyStep(g[i - 1], key[i])
    <3>1. CASE i = n + 1
      BY <3>1
    <3>2. CASE i # n + 1
      <4>1. i \in 1..n /\ i - 1 \in 0..(n + 1) /\ i - 1 # n + 1
        BY <3>2
      <4>2. f[i] = KeyStep(f[i - 1], key[i])
        BY <2>1, <4>1 DEF Reads
      <4> QED BY <3>2, <4>1, <4>2
    <3> QED BY <3>1, <3>2
  <2>4. Reads(g, key, n + 1)
    <3> HIDE DEF g
    <3> QED BY <2>2, <2>3 DEF Reads
  <2> QED BY <2>4
<1>3. \A n \in Nat : n \in S
  <2> HIDE DEF S
  <2> QED BY <1>1, <1>2, InductiveSet
<1> QED BY <1>3

(* What has been read does not depend on what comes after it.              *)
LEMMA ReadsAgree ==
    \A n \in Nat : \A f, g, key, other :
        Reads(f, key, n) /\ Reads(g, other, n) /\ (\A i \in 1..n : key[i] = other[i])
        => f[n] = g[n]
<1> SUFFICES ASSUME NEW f, NEW g, NEW key, NEW other
             PROVE  \A n \in Nat :
                       Reads(f, key, n) /\ Reads(g, other, n) /\ (\A i \in 1..n : key[i] = other[i])
                       => f[n] = g[n]
  OBVIOUS
<1> DEFINE S == {n \in Nat : Reads(f, key, n) /\ Reads(g, other, n)
                                /\ (\A i \in 1..n : key[i] = other[i]) => f[n] = g[n]}
<1>1. 0 \in S
  BY DEF Reads
<1>2. ASSUME NEW n \in Nat, n \in S PROVE n + 1 \in S
  <2> SUFFICES ASSUME Reads(f, key, n + 1), Reads(g, other, n + 1),
                      \A i \in 1..(n + 1) : key[i] = other[i]
               PROVE  f[n + 1] = g[n + 1]
    OBVIOUS
  <2>1. n + 1 \in 1..(n + 1) /\ (n + 1) - 1 = n /\ 1..n \subseteq 1..(n + 1)
    OBVIOUS
  <2>2. Reads(f, key, n) /\ Reads(g, other, n)
    BY <2>1 DEF Reads
  <2>3. f[n] = g[n]
    BY <1>2, <2>1, <2>2
  <2>4. f[n + 1] = KeyStep(f[n], key[n + 1]) /\ g[n + 1] = KeyStep(g[n], other[n + 1])
    BY <2>1 DEF Reads
  <2> QED BY <2>1, <2>3, <2>4
<1>3. \A n \in Nat : n \in S
  <2> HIDE DEF S
  <2> QED BY <1>1, <1>2, InductiveSet
<1> QED BY <1>3

LEMMA AfterReads ==
    ASSUME NEW key, Len(key) \in Nat
    PROVE  \E f : Reads(f, key, Len(key)) /\ After(key) = f[Len(key)]
<1> DEFINE n == Len(key)
           step(f) == [i \in 0..Len(key) |->
                          IF i = 0 THEN KeyStart ELSE KeyStep(f[i - 1], key[i])]
           state == CHOOSE f : f = step(f)
<1>1. After(key) = state[Len(key)]
  BY DEF After
<1>2. PICK h : Reads(h, key, n)
  BY ReadsExist
<1> DEFINE g == [i \in 0..Len(key) |-> h[i]]
<1>3. g = step(g)
  <2>1. ASSUME NEW i \in 0..Len(key) PROVE g[i] = step(g)[i]
    <3>1. CASE i = 0
      BY <1>2, <3>1 DEF Reads
    <3>2. CASE i # 0
      <4>1. i \in 1..n /\ i - 1 \in 0..Len(key)
        BY <3>2
      <4>2. h[i] = KeyStep(h[i - 1], key[i])
        BY <1>2, <4>1 DEF Reads
      <4> QED BY <3>2, <4>1, <4>2
    <3> QED BY <3>1, <3>2
  <2>2. g = [i \in 0..Len(key) |-> g[i]] /\ step(g) = [i \in 0..Len(key) |-> step(g)[i]]
    OBVIOUS
  <2> HIDE DEF g, step
  <2> QED BY <2>1, <2>2
<1>4. state = step(state)
  <2> HIDE DEF g, step
  <2> QED BY <1>3
<1>5. \A f : /\ step(f)[0] = KeyStart
             /\ \A i \in 1..n : step(f)[i] = KeyStep(f[i - 1], key[i])
  OBVIOUS
<1>6. Reads(state, key, n)
  <2> HIDE DEF step, state
  <2> QED BY <1>4, <1>5 DEF Reads
<1> HIDE DEF state
<1> QED BY <1>1, <1>6

LEMMA AfterNothing == After(<<>>) = KeyStart
<1>1. Len(<<>>) = 0
  OBVIOUS
<1> QED BY <1>1, AfterReads DEF Reads

LEMMA AfterAppend ==
    ASSUME NEW Token, NEW key \in Seq(Token), NEW c \in Token
    PROVE  After(Append(key, c)) = KeyStep(After(key), c)
<1> DEFINE more == Append(key, c)
           n == Len(key)
<1>1. /\ n \in Nat /\ Len(more) = n + 1 /\ more[n + 1] = c
      /\ \A i \in 1..n : more[i] = key[i]
  OBVIOUS
<1> HIDE DEF more, n
<1>2. PICK f : Reads(f, key, n) /\ After(key) = f[n]
  BY <1>1, AfterReads DEF n
<1>3. PICK g : Reads(g, more, n + 1) /\ After(more) = g[n + 1]
  BY <1>1, AfterReads
<1>4. n + 1 \in 1..(n + 1) /\ (n + 1) - 1 = n /\ 1..n \subseteq 1..(n + 1)
  BY <1>1
<1>5. Reads(g, more, n) /\ g[n + 1] = KeyStep(g[n], c)
  BY <1>1, <1>3, <1>4 DEF Reads
<1>6. f[n] = g[n]
  BY <1>1, <1>2, <1>5, ReadsAgree
<1> QED BY <1>2, <1>3, <1>5, <1>6 DEF more

----------------------------------------------------------------------------
(* What the steps of parseKey do.                                          *)

State(at, text, parts) == [at |-> at, text |-> text, parts |-> parts]

LEMMA RawStep ==
    ASSUME NEW text, NEW parts, NEW c, c # "["
    PROVE  KeyStep(State("raw", text, parts), c) = State("raw", Append(text, c), parts)
BY DEF KeyStep, State

LEMMA OpenStep ==
    ASSUME NEW text, NEW parts
    PROVE  KeyStep(State("raw", text, parts), "[") =
              State("inMapOrArray", <<>>,
                    IF text = <<>> THEN parts ELSE Append(parts, Part("raw", text)))
BY DEF KeyStep, State

LEMMA EmptyStep ==
    ASSUME NEW text, NEW parts
    PROVE  KeyStep(State("inMapOrArray", text, parts), "]") =
              State("raw", text, Append(parts, Part("array", <<>>)))
BY DEF KeyStep, State

LEMMA MapStep ==
    ASSUME NEW text, NEW parts, NEW c, c # "]"
    PROVE  /\ KeyStep(State("inMapOrArray", text, parts), c) = State("inMap", Append(text, c), parts)
           /\ KeyStep(State("inMap", text, parts), c) = State("inMap", Append(text, c), parts)
BY DEF KeyStep, State

LEMMA CloseStep ==
    ASSUME NEW text, NEW parts
    PROVE  KeyStep(State("inMap", text, parts), "]") =
              State("raw", <<>>, Append(parts, Part("map", text)))
BY DEF KeyStep, State

(* Texts are read token by token.                                          *)
LEMMA Longer ==
    ASSUME NEW Token, NEW key \in Seq(Token), NEW text \in Seq(Token), NEW i \in Nat, i < Len(text)
    PROVE  /\ SubSeq(text, 1, i + 1) = Append(SubSeq(text, 1, i), text[i + 1])
           /\ key \o SubSeq(text, 1, i + 1) = Append(key \o SubSeq(text, 1, i), text[i + 1])
           /\ key \o SubSeq(text, 1, i) \in Seq(Token) /\ text[i + 1] \in Token
           /\ SubSeq(text, 1, i) \in Seq(Token) /\ i + 1 \in DOMAIN text
<1>1. /\ SubSeq(text, 1, i) \in Seq(Token) /\ Len(SubSeq(text, 1, i)) = i /\ i + 1 \in DOMAIN text
      /\ SubSeq(text, 1, i + 1) \in Seq(Token) /\ Len(SubSeq(text, 1, i + 1)) = i + 1
      /\ text[i + 1] \in Token
  OBVIOUS
<1>2. SubSeq(text, 1, i + 1) = Append(SubSeq(text, 1, i), text[i + 1])
  OBVIOUS
<1>3. ASSUME NEW s \in Seq(Token), NEW c \in Token
      PROVE  key \o Append(s, c) = Append(key \o s, c) /\ key \o s \in Seq(Token)
  OBVIOUS
<1> QED BY <1>1, <1>2, <1>3

LEMMA WholeText ==
    ASSUME NEW Token, NEW key \in Seq(Token), NEW text \in Seq(Token)
    PROVE  /\ SubSeq(text, 1, 0) = <<>> /\ SubSeq(text, 1, Len(text)) = text
           /\ key \o <<>> = key /\ <<>> \o key = key
OBVIOUS

LEMMA RawRead ==
    ASSUME NEW Token, NEW key \in Seq(Token), NEW parts, After(key) = State("raw", <<>>, parts),
           NEW text \in Seq(Token), \A i \in DOMAIN text : text[i] # "["
    PROVE  After(key \o text) = State("raw", text, parts)
<1> DEFINE read(i) == SubSeq(text, 1, i)
           S == {i \in Nat : i <= Len(text) =>
                                After(key \o read(i)) = State("raw", read(i), parts)}
<1>1. 0 \in S
  BY WholeText
<1>2. ASSUME NEW i \in Nat, i \in S PROVE i + 1 \in S
  <2> SUFFICES ASSUME i + 1 <= Len(text)
               PROVE  After(key \o read(i + 1)) = State("raw", read(i + 1), parts)
    OBVIOUS
  <2> DEFINE c == text[i + 1]
  <2>1. i < Len(text) /\ i <= Len(text)
    OBVIOUS
  <2>2. /\ read(i + 1) = Append(read(i), c) /\ key \o read(i + 1) = Append(key \o read(i), c)
        /\ key \o read(i) \in Seq(Token) /\ c \in Token /\ i + 1 \in DOMAIN text
    BY <2>1, Longer
  <2>3. After(key \o read(i)) = State("raw", read(i), parts)
    BY <1>2, <2>1
  <2> HIDE DEF read
  <2>4. After(key \o read(i + 1)) = KeyStep(State("raw", read(i), parts), c)
    BY <2>2, <2>3, AfterAppend
  <2>5. c # "["
    BY <2>2
  <2>6. KeyStep(State("raw", read(i), parts), c) = State("raw", Append(read(i), c), parts)
    BY <2>5, RawStep
  <2> QED BY ONLY <2>2, <2>4, <2>6
<1>3. \A i \in Nat : i \in S
  <2> HIDE DEF S
  <2> QED BY <1>1, <1>2, InductiveSet
<1>4. After(key \o read(Len(text))) = State("raw", read(Len(text)), parts)
  BY <1>3
<1> QED BY <1>4, WholeText

LEMMA MapRead ==
    ASSUME NEW Token, NEW key \in Seq(Token), NEW parts,
           After(key) = State("inMapOrArray", <<>>, parts),
           NEW text \in Seq(Token), \A i \in DOMAIN text : text[i] # "]"
    PROVE  After(key \o text) =
              IF text = <<>> THEN State("inMapOrArray", <<>>, parts) ELSE State("inMap", text, parts)
<1> DEFINE read(i) == SubSeq(text, 1, i)
           reading(i) == IF i = 0 THEN State("inMapOrArray", <<>>, parts)
                         ELSE State("inMap", read(i), parts)
           S == {i \in Nat : i <= Len(text) => After(key \o read(i)) = reading(i)}
<1>1. 0 \in S
  BY WholeText
<1>2. ASSUME NEW i \in Nat, i \in S PROVE i + 1 \in S
  <2> SUFFICES ASSUME i + 1 <= Len(text)
               PROVE  After(key \o read(i + 1)) = State("inMap", read(i + 1), parts)
    OBVIOUS
  <2> DEFINE c == text[i + 1]
  <2>1. i < Len(text) /\ i <= Len(text)
    OBVIOUS
  <2>2. /\ read(i + 1) = Append(read(i), c) /\ key \o read(i + 1) = Append(key \o read(i), c)
        /\ key \o read(i) \in Seq(Token) /\ c \in Token /\ i + 1 \in DOMAIN text
    BY <2>1, Longer
  <2>3. After(key \o read(i)) = reading(i)
    BY <1>2, <2>1
  <2>4. i = 0 => read(i) = <<>>
    BY WholeText
  <2> HIDE DEF read
  <2>5. After(key \o read(i + 1)) = KeyStep(reading(i), c)
    BY <2>2, <2>3, AfterAppend
  <2>6. c # "]"
    BY <2>2
  <2>7. CASE i = 0
    <3>1. KeyStep(State("inMapOrArray", <<>>, parts), c) = State("inMap", Append(<<>>, c), parts)
      BY ONLY <2>6, MapStep, Zenon
    <3> QED BY ONLY <2>2, <2>4, <2>5, <2>7, <3>1
  <2>8. CASE i # 0
    <3>1. KeyStep(State("inMap", read(i), parts), c) = State("inMap", Append(read(i), c), parts)
      BY ONLY <2>6, MapStep, Zenon
    <3> QED BY ONLY <2>2, <2>5, <2>8, <3>1
  <2> QED BY <2>7, <2>8
<1>3. \A i \in Nat : i \in S
  <2> HIDE DEF S
  <2> QED BY <1>1, <1>2, InductiveSet
<1>4. Len(text) \in Nat /\ (Len(text) = 0 <=> text = <<>>)
  OBVIOUS
<1>5. After(key \o read(Len(text))) = reading(Len(text))
  BY <1>3, <1>4
<1>6. read(Len(text)) = text
  BY WholeText
<1> HIDE DEF read
<1> QED BY <1>4, <1>5, <1>6

(* The parts with the name before a bracket, and the part of a bracket.    *)
Named(parts, text) == IF text = <<>> THEN parts ELSE Append(parts, Part("raw", text))

PartOf(text) == IF text = <<>> THEN Part("array", <<>>) ELSE Part("map", text)

LEMMA BracketRead ==
    ASSUME NEW Token, {"[", "]"} \subseteq Token, NEW key \in Seq(Token),
           NEW before, NEW parts, After(key) = State("raw", before, parts),
           NEW text \in Seq(Token), \A i \in DOMAIN text : text[i] # "]"
    PROVE  After(key \o Bracketed(text)) =
              State("raw", <<>>, Append(Named(parts, before), PartOf(text)))
<1> DEFINE open == Append(key, "[")
           inside == open \o text
           done == Named(parts, before)
<1>1. open \in Seq(Token) /\ inside \in Seq(Token)
  OBVIOUS
<1>2. key \o Bracketed(text) = Append(inside, "]")
  BY DEF Bracketed
<1>3. After(open) = State("inMapOrArray", <<>>, done)
  <2>1. After(open) = KeyStep(State("raw", before, parts), "[")
    BY AfterAppend
  <2> QED BY <2>1, OpenStep DEF Named
<1> HIDE DEF open, done
<1>4. After(inside) = IF text = <<>> THEN State("inMapOrArray", <<>>, done)
                      ELSE State("inMap", text, done)
  BY <1>1, <1>3, MapRead
<1> HIDE DEF inside
<1>5. After(Append(inside, "]")) = KeyStep(After(inside), "]")
  BY <1>1, AfterAppend
<1>6. After(key \o Bracketed(text)) = State("raw", <<>>, Append(done, PartOf(text)))
  BY <1>2, <1>4, <1>5, EmptyStep, CloseStep DEF PartOf
<1> QED BY <1>6 DEF done

----------------------------------------------------------------------------
(* Keys that are written from their parts.                                 *)

Writes(u, parts, n) ==
    u[0] = <<>> /\ \A i \in 1..n : u[i] = Extended(u[i - 1], parts[i])

LEMMA WritesExist == \A n \in Nat : \A parts : \E u : Writes(u, parts, n)
<1> SUFFICES ASSUME NEW parts PROVE \A n \in Nat : \E u : Writes(u, parts, n)
  OBVIOUS
<1> DEFINE S == {n \in Nat : \E u : Writes(u, parts, n)}
<1>1. 0 \in S
  <2> DEFINE u == [i \in {0} |-> <<>>]
  <2>1. Writes(u, parts, 0)
    BY DEF Writes
  <2> QED BY <2>1
<1>2. ASSUME NEW n \in Nat, n \in S PROVE n + 1 \in S
  <2>1. PICK u : Writes(u, parts, n)
    BY <1>2
  <2> DEFINE v == [i \in 0..(n + 1) |-> IF i = n + 1 THEN Extended(u[n], parts[n + 1]) ELSE u[i]]
  <2>2. v[0] = <<>>
    BY <2>1 DEF Writes
  <2>3. ASSUME NEW i \in 1..(n + 1) PROVE v[i] = Extended(v[i - 1], parts[i])
    <3>1. CASE i = n + 1
      BY <3>1
    <3>2. CASE i # n + 1
      <4>1. i \in 1..n /\ i - 1 \in 0..(n + 1) /\ i - 1 # n + 1
        BY <3>2
      <4>2. u[i] = Extended(u[i - 1], parts[i])
        BY <2>1, <4>1 DEF Writes
      <4> QED BY <3>2, <4>1, <4>2
    <3> QED BY <3>1, <3>2
  <2>4. Writes(v, parts, n + 1)
    <3> HIDE DEF v
    <3> QED BY <2>2, <2>3 DEF Writes
  <2> QED BY <2>4
<1>3. \A n \in Nat : n \in S
  <2> HIDE DEF S
  <2> QED BY <1>1, <1>2, InductiveSet
<1> QED BY <1>3

LEMMA KeyWritten ==
    ASSUME NEW parts, Len(parts) \in Nat
    PROVE  \E u : Writes(u, parts, Len(parts)) /\ KeyOf(parts) = u[Len(parts)]
<1> DEFINE n == Len(parts)
           step(u) == [i \in 0..Len(parts) |->
                          IF i = 0 THEN <<>> ELSE Extended(u[i - 1], parts[i])]
           upTo == CHOOSE u : u = step(u)
<1>1. KeyOf(parts) = upTo[Len(parts)]
  BY DEF KeyOf
<1>2. PICK h : Writes(h, parts, n)
  BY WritesExist
<1> DEFINE g == [i \in 0..Len(parts) |-> h[i]]
<1>3. g = step(g)
  <2>1. ASSUME NEW i \in 0..Len(parts) PROVE g[i] = step(g)[i]
    <3>1. CASE i = 0
      BY <1>2, <3>1 DEF Writes
    <3>2. CASE i # 0
      <4>1. i \in 1..n /\ i - 1 \in 0..Len(parts)
        BY <3>2
      <4>2. h[i] = Extended(h[i - 1], parts[i])
        BY <1>2, <4>1 DEF Writes
      <4> QED BY <3>2, <4>1, <4>2
    <3> QED BY <3>1, <3>2
  <2>2. g = [i \in 0..Len(parts) |-> g[i]] /\ step(g) = [i \in 0..Len(parts) |-> step(g)[i]]
    OBVIOUS
  <2> HIDE DEF g, step
  <2> QED BY <2>1, <2>2
<1>4. upTo = step(upTo)
  <2> HIDE DEF g, step
  <2> QED BY <1>3
<1>5. \A u : /\ step(u)[0] = <<>>
             /\ \A i \in 1..n : step(u)[i] = Extended(u[i - 1], parts[i])
  OBVIOUS
<1>6. Writes(upTo, parts, n)
  <2> HIDE DEF step, upTo
  <2> QED BY <1>4, <1>5 DEF Writes
<1> HIDE DEF upTo
<1> QED BY <1>1, <1>6

(* A name may contain a "]", and the key of a map a "[".                   *)
Text(Token, closing) == {t \in Seq(Token) : t # <<>> /\ \A i \in DOMAIN t : t[i] # closing}

KeyParts(Token) ==
    {Part("raw", t) : t \in Text(Token, "[")} \cup {Part("array", <<>>)}
    \cup {Part("map", t) : t \in Text(Token, "]")}

LEMMA PartIs ==
    ASSUME NEW Token, NEW part \in KeyParts(Token)
    PROVE  /\ part = Part(part.type, part.content) /\ part.content \in Seq(Token)
           /\ part.type = "raw" => /\ part.content # <<>>
                                   /\ \A i \in DOMAIN part.content : part.content[i] # "["
           /\ part.type # "raw" =>
                 /\ \A i \in DOMAIN part.content : part.content[i] # "]"
                 /\ part = PartOf(part.content)
<1>1. CASE part = Part("array", <<>>)
  <2>1. part.type = "array" /\ part.content = <<>> /\ DOMAIN <<>> = {}
    BY <1>1 DEF Part
  <2>2. <<>> \in Seq(Token) /\ "array" # "raw"
    OBVIOUS
  <2>3. part = Part(part.type, part.content)
    BY ONLY <1>1, <2>1
  <2>4. part = PartOf(part.content)
    BY ONLY <1>1, <2>1 DEF PartOf
  <2> QED BY ONLY <2>1, <2>2, <2>3, <2>4
<1>2. ASSUME NEW t \in Text(Token, "["), part = Part("raw", t) PROVE part.type = "raw" /\ part.content = t
  BY <1>2 DEF Part
<1>3. ASSUME NEW t \in Text(Token, "]"), part = Part("map", t) PROVE part.type = "map" /\ part.content = t
  BY <1>3 DEF Part
<1>4. CASE \E t \in Text(Token, "[") : part = Part("raw", t)
  BY <1>2, <1>4 DEF Text
<1>5. CASE \E t \in Text(Token, "]") : part = Part("map", t)
  <2>1. PICK t \in Text(Token, "]") : part = Part("map", t)
    BY <1>5
  <2>2. part.type = "map" /\ part.content = t /\ t \in Seq(Token) /\ t # <<>>
    BY <1>3, <2>1 DEF Text
  <2>3. part = PartOf(part.content) /\ part = Part(part.type, part.content)
    BY ONLY <2>1, <2>2 DEF PartOf
  <2> QED BY <2>2, <2>3 DEF Text
<1> QED BY <1>1, <1>4, <1>5 DEF KeyParts

(* nestedtypeassembler.go:120-190: whatever parts a key is written from, in *)
(* any number, each of any length, parseKey finds these parts; a name only  *)
(* where it can be told from what is next to it.                            *)
THEOREM KeysParseBack ==
    ASSUME NEW Token, {"[", "]"} \subseteq Token,
           NEW parts \in Seq(KeyParts(Token)), parts # <<>>,
           \A i \in DOMAIN parts :
              parts[i].type = "raw" =>
                 \/ Len(parts) = 1
                 \/ i < Len(parts) /\ parts[i + 1].type # "raw"
    PROVE  ParseKey(KeyOf(parts)) = parts
<1> DEFINE n == Len(parts)
           first(i) == SubSeq(parts, 1, i)
           Read(i) == IF i # 0 /\ parts[i].type = "raw"
                      THEN State("raw", parts[i].content, first(i - 1))
                      ELSE State("raw", <<>>, first(i))
<1>1. n \in Nat /\ n # 0 /\ DOMAIN parts = 1..n
  OBVIOUS
<1>2. PICK u : Writes(u, parts, n) /\ KeyOf(parts) = u[n]
  BY <1>1, KeyWritten
<1>3. \A i \in 1..n : parts[i] \in KeyParts(Token)
  OBVIOUS
<1>4. first(0) = <<>> /\ first(n) = parts /\ \A i \in Nat : i < n => first(i + 1) = Append(first(i), parts[i + 1])
  <2>1. \A i \in Nat : i < n => first(i + 1) = Append(first(i), parts[i + 1])
    BY Longer
  <2> QED BY <2>1, WholeText
<1> HIDE DEF first
<1> DEFINE S == {i \in Nat : i <= n => u[i] \in Seq(Token) /\ After(u[i]) = Read(i)}
<1>5. 0 \in S
  <2>1. u[0] = <<>>
    BY <1>2 DEF Writes
  <2>2. After(u[0]) = State("raw", <<>>, <<>>)
    BY <2>1, AfterNothing DEF KeyStart, State
  <2>3. u[0] \in Seq(Token) /\ Read(0) = State("raw", <<>>, <<>>)
    BY <1>4, <2>1
  <2> HIDE DEF Read
  <2> QED BY <2>1, <2>2, <2>3
<1>6. ASSUME NEW i \in Nat, i \in S PROVE i + 1 \in S
  <2> SUFFICES ASSUME i + 1 <= n
               PROVE  u[i + 1] \in Seq(Token) /\ After(u[i + 1]) = Read(i + 1)
    OBVIOUS
  <2> DEFINE part == parts[i + 1]
  <2>1. /\ i <= n /\ i < n /\ i + 1 \in 1..n /\ (i + 1) - 1 = i /\ i + 1 # 0
        /\ i # 0 => i \in 1..n /\ i - 1 \in Nat /\ i - 1 < n /\ (i - 1) + 1 = i
    BY <1>1
  <2>2. u[i] \in Seq(Token) /\ After(u[i]) = Read(i)
    BY <1>6, <2>1
  <2>3. u[i + 1] = Extended(u[i], part)
    BY <1>2, <2>1 DEF Writes
  <2>4. part \in KeyParts(Token)
    BY <1>3, <2>1
  <2>5. first(i + 1) = Append(first(i), part)
    BY <1>4, <2>1
  <2>6. CASE part.type = "raw"
    <3>1. i # 0 => parts[i].type # "raw"
      BY <1>1, <2>1, <2>6
    <3>2. After(u[i]) = State("raw", <<>>, first(i))
      BY <2>2, <3>1
    <3> DEFINE text == part.content
    <3>3. text \in Seq(Token) /\ \A j \in DOMAIN text : text[j] # "["
      BY <2>4, <2>6, PartIs
    <3>4. u[i + 1] = u[i] \o text
      BY <2>3, <2>6 DEF Extended
    <3>5. Read(i + 1) = State("raw", text, first(i))
      BY <2>1, <2>6
    <3> HIDE DEF text, Read
    <3>6. After(u[i + 1]) = State("raw", text, first(i))
      BY <2>2, <3>2, <3>3, <3>4, RawRead
    <3>7. u[i + 1] \in Seq(Token)
      BY <2>2, <3>3, <3>4
    <3> QED BY <3>5, <3>6, <3>7
  <2>7. CASE part.type # "raw"
    <3> DEFINE text == part.content
               before == IF i # 0 /\ parts[i].type = "raw" THEN parts[i].content ELSE <<>>
               sofar == IF i # 0 /\ parts[i].type = "raw" THEN first(i - 1) ELSE first(i)
    <3>1. After(u[i]) = State("raw", before, sofar)
      BY <2>2
    <3>2. first(i) = Named(sofar, before)
      <4>1. CASE i # 0 /\ parts[i].type = "raw"
        <5>1. parts[i] = Part("raw", before) /\ before # <<>>
          BY <1>3, <2>1, <4>1, PartIs
        <5>2. first(i) = Append(sofar, parts[i])
          BY <1>4, <2>1, <4>1
        <5> HIDE DEF before, sofar
        <5> QED BY <5>1, <5>2 DEF Named
      <4>2. CASE ~(i # 0 /\ parts[i].type = "raw")
        BY <4>2 DEF Named
      <4> QED BY <4>1, <4>2
    <3>3. text \in Seq(Token) /\ (\A j \in DOMAIN text : text[j] # "]") /\ part = PartOf(text)
      BY <2>4, <2>7, PartIs
    <3>4. u[i + 1] = u[i] \o Bracketed(text)
      BY <2>3, <2>7 DEF Extended
    <3>5. Read(i + 1) = State("raw", <<>>, first(i + 1))
      BY <2>7
    <3> HIDE DEF text, before, sofar, Read
    <3>6. After(u[i] \o Bracketed(text)) =
             State("raw", <<>>, Append(Named(sofar, before), PartOf(text)))
      BY <2>2, <3>1, <3>3, BracketRead
    <3>7. After(u[i + 1]) = State("raw", <<>>, Append(first(i), part))
      BY <3>2, <3>3, <3>4, <3>6
    <3>8. u[i + 1] \in Seq(Token)
      BY <2>2, <3>3, <3>4 DEF Bracketed
    <3> QED BY <2>5, <3>5, <3>7, <3>8
  <2> QED BY <2>6, <2>7
<1>7. \A i \in Nat : i \in S
  <2> HIDE DEF S
  <2> QED BY <1>5, <1>6, InductiveSet
<1>8. After(KeyOf(parts)) = Read(n)
  BY <1>1, <1>2, <1>7
<1>9. CASE parts[n].type = "raw"
  <2>1. n = 1 /\ n - 1 = 0
    <3>1. n \in DOMAIN parts /\ ~(n < n)
      BY <1>1
    <3>2. n = 1
      BY <1>9, <3>1
    <3> QED BY <3>2
  <2>2. /\ parts[1] = Part("raw", parts[1].content) /\ parts[1].content # <<>>
        /\ parts = <<parts[1]>>
    BY <1>3, <1>9, <2>1, PartIs
  <2>3. After(KeyOf(parts)) = State("raw", parts[1].content, <<>>)
    BY <1>4, <1>8, <1>9, <2>1
  <2> QED BY <2>2, <2>3 DEF ParseKey, State
<1>10. CASE parts[n].type # "raw"
  <2>1. After(KeyOf(parts)) = State("raw", <<>>, parts)
    BY <1>4, <1>8, <1>10
  <2> QED BY <2>1 DEF ParseKey, State
<1> QED BY <1>9, <1>10

----------------------------------------------------------------------------
(* parseExpansionLevel meets the equation that defines it.                 *)

BareParse == [raw \in SUBSET Dotted |-> Bare]

NextParse(g) == [raw \in SUBSET Dotted |-> LevelBy(g, raw)]

(* h parses strings of up to n names.                                      *)
Parses(h, n) == h[0] = BareParse /\ \A i \in 1..n : h[i] = NextParse(h[i - 1])

LEMMA ParsesExist == \A n \in Nat : \E h : Parses(h, n)
<1> DEFINE S == {n \in Nat : \E h : Parses(h, n)}
<1>1. 0 \in S
  <2> DEFINE h == [i \in {0} |-> BareParse]
  <2>1. Parses(h, 0)
    BY DEF Parses
  <2> QED BY <2>1
<1>2. ASSUME NEW n \in Nat, n \in S PROVE n + 1 \in S
  <2>1. PICK h : Parses(h, n)
    BY <1>2
  <2> DEFINE g == [i \in 0..(n + 1) |-> IF i = n + 1 THEN NextParse(h[n]) ELSE h[i]]
  <2>2. g[0] = BareParse
    BY <2>1 DEF Parses
  <2>3. ASSUME NEW i \in 1..(n + 1) PROVE g[i] = NextParse(g[i - 1])
    <3>1. CASE i = n + 1
      BY <3>1
    <3>2. CASE i # n + 1
      <4>1. i \in 1..n /\ i - 1 \in 0..(n + 1) /\ i - 1 # n + 1
        BY <3>2
      <4>2. h[i] = NextParse(h[i - 1])
        BY <2>1, <4>1 DEF Parses
      <4> QED BY <3>2, <4>1, <4>2
    <3> QED BY <3>1, <3>2
  <2>4. Parses(g, n + 1)
    <3> HIDE DEF g
    <3> QED BY <2>2, <2>3 DEF Parses
  <2> QED BY <2>4
<1>3. \A n \in Nat : n \in S
  <2> HIDE DEF S
  <2> QED BY <1>1, <1>2, InductiveSet
<1> QED BY <1>3

LEMMA ParsesAgree ==
    \A n \in Nat : \A g, h : Parses(g, n) /\ Parses(h, n) => g[n] = h[n]
<1> DEFINE S == {n \in Nat : \A g, h : Parses(g, n) /\ Parses(h, n) => g[n] = h[n]}
<1>1. 0 \in S
  BY DEF Parses
<1>2. ASSUME NEW n \in Nat, n \in S PROVE n + 1 \in S
  <2> SUFFICES ASSUME NEW g, NEW h, Parses(g, n + 1), Parses(h, n + 1)
               PROVE  g[n + 1] = h[n + 1]
    OBVIOUS
  <2>1. n + 1 \in 1..(n + 1) /\ (n + 1) - 1 = n /\ 1..n \subseteq 1..(n + 1)
    OBVIOUS
  <2>2. Parses(g, n) /\ Parses(h, n)
    BY <2>1 DEF Parses
  <2>3. g[n] = h[n]
    BY <1>2, <2>2
  <2>4. g[n + 1] = NextParse(g[n]) /\ h[n + 1] = NextParse(h[n])
    BY <2>1 DEF Parses
  <2> QED BY <2>3, <2>4
<1>3. \A n \in Nat : n \in S
  <2> HIDE DEF S
  <2> QED BY <1>1, <1>2, InductiveSet
<1> QED BY <1>3

(* The two cases of the equation.                                          *)
LEMMA ParsedToIs ==
    /\ ParsedTo[0] = BareParse
    /\ \A n \in Nat : ParsedTo[n + 1] = NextParse(ParsedTo[n])
<1> DEFINE solution(n) == CHOOSE h : Parses(h, n)
           f == [n \in Nat |-> solution(n)[n]]
<1>1. \A n \in Nat : Parses(solution(n), n)
  BY ParsesExist
<1>2. f[0] = BareParse
  BY <1>1 DEF Parses
<1>3. ASSUME NEW n \in Nat PROVE f[n + 1] = NextParse(f[n])
  <2> DEFINE h == solution(n + 1)
  <2>1. Parses(h, n + 1) /\ Parses(solution(n), n)
    BY <1>1
  <2> HIDE DEF solution
  <2>2. n + 1 \in 1..(n + 1) /\ (n + 1) - 1 = n /\ 1..n \subseteq 1..(n + 1)
    OBVIOUS
  <2>3. Parses(h, n)
    BY <2>1, <2>2 DEF Parses
  <2>4. h[n] = solution(n)[n]
    BY <2>1, <2>3, ParsesAgree
  <2>5. h[n + 1] = NextParse(h[n])
    BY <2>1, <2>2 DEF Parses
  <2> QED BY <2>4, <2>5
<1> HIDE DEF f
<1>4. f = [n \in Nat |->
             IF n = 0 THEN [raw \in SUBSET Dotted |-> Bare]
             ELSE [raw \in SUBSET Dotted |-> LevelBy(f[n - 1], raw)]]
  <2> DEFINE g == [n \in Nat |->
                     IF n = 0 THEN [raw \in SUBSET Dotted |-> Bare]
                     ELSE [raw \in SUBSET Dotted |-> LevelBy(f[n - 1], raw)]]
  <2>1. ASSUME NEW n \in Nat PROVE f[n] = g[n]
    <3>1. CASE n = 0
      BY <1>2, <3>1 DEF BareParse
    <3>2. CASE n # 0
      <4>1. n - 1 \in Nat /\ (n - 1) + 1 = n
        BY <3>2
      <4>2. f[n] = NextParse(f[n - 1])
        BY <1>3, <4>1
      <4> QED BY <3>2, <4>2 DEF NextParse
    <3> QED BY <3>1, <3>2
  <2>2. f = [n \in Nat |-> f[n]]
    BY DEF f
  <2>3. f = g
    <3>1. g = [n \in Nat |-> g[n]]
      OBVIOUS
    <3> HIDE DEF g
    <3> QED BY <2>1, <2>2, <3>1
  <2> QED BY <2>3
<1>5. ParsedTo = [n \in Nat |->
                    IF n = 0 THEN [raw \in SUBSET Dotted |-> Bare]
                    ELSE [raw \in SUBSET Dotted |-> LevelBy(ParsedTo[n - 1], raw)]]
  BY <1>4 DEF ParsedTo
<1>6. ASSUME NEW n \in Nat PROVE ParsedTo[n + 1] = NextParse(ParsedTo[n])
  <2>1. n + 1 \in Nat /\ n + 1 # 0 /\ (n + 1) - 1 = n
    OBVIOUS
  <2> QED BY <1>5, <2>1 DEF NextParse
<1>7. ParsedTo[0] = BareParse
  BY <1>5 DEF BareParse
<1> QED BY <1>6, <1>7

(* An empty group, or one that is as good as empty, makes an empty level.  *)
LEMMA NothingParsed == \A n \in Nat : ParsedTo[n][{}] = Bare
<1>1. {} \in SUBSET Dotted
  OBVIOUS
<1>2. Groups({}) = {} /\ Listed({}) = {}
  BY DEF Groups, Listed
<1>3. \A g : LevelBy(g, {}) = Bare
  <2> SUFFICES ASSUME NEW g PROVE LevelBy(g, {}) = Bare
    OBVIOUS
  <2> DEFINE e == [k \in Groups({}) \cup Listed({}) |->
                     IF k \in Groups({}) THEN g[Within({}, k)] ELSE Bare]
  <2>1. e = <<>>
    BY <1>2
  <2> HIDE DEF e
  <2>2. (<<Wildcard>> \in {}) = FALSE
    OBVIOUS
  <2> QED BY <2>1, <2>2 DEF LevelBy, Bare, e
<1>4. ASSUME NEW n \in Nat PROVE ParsedTo[n][{}] = Bare
  <2>1. CASE n = 0
    BY <1>1, <2>1, ParsedToIs DEF BareParse
  <2>2. CASE n # 0
    <3>1. n - 1 \in Nat /\ (n - 1) + 1 = n
      BY <2>2
    <3>2. ParsedTo[n] = NextParse(ParsedTo[n - 1])
      BY <3>1, ParsedToIs
    <3> QED BY <1>1, <1>3, <3>2 DEF NextParse
  <2> QED BY <2>1, <2>2
<1> QED BY <1>4

----------------------------------------------------------------------------
(* What is left of the strings below a field.                              *)

Drop(q, i) == [j \in 1..(Len(q) - i) |-> q[j + i]]

Follows(q, p, i) == i <= Len(q) /\ \A j \in 1..i : q[j] = p[j]

Below(raw, p, i) == {Drop(q, i) : q \in {r \in raw : i < Len(r) /\ Follows(r, p, i)}}

(* The rest of a string is one.                                            *)
LEMMA DropType ==
    ASSUME NEW q \in Seq(Name), NEW i \in Nat, i < Len(q)
    PROVE  /\ Drop(q, i) \in Dotted /\ Len(Drop(q, i)) = Len(q) - i
           /\ \A j \in 1..(Len(q) - i) : Drop(q, i)[j] = q[j + i]
<1>1. Len(q) - i \in Nat /\ Len(q) - i >= 1 /\ DOMAIN q = 1..Len(q)
  OBVIOUS
<1>2. \A j \in 1..(Len(q) - i) : j + i \in 1..Len(q) /\ q[j + i] \in Name
  OBVIOUS
<1>3. Drop(q, i) \in Seq(Name) /\ Len(Drop(q, i)) = Len(q) - i
  BY <1>1, <1>2 DEF Drop
<1>4. Drop(q, i) # <<>>
  BY <1>1, <1>3
<1>5. \A j \in 1..(Len(q) - i) : Drop(q, i)[j] = q[j + i]
  BY DEF Drop
<1> QED BY <1>3, <1>4, <1>5 DEF Dotted

LEMMA BelowType ==
    ASSUME NEW raw \in SUBSET Dotted, NEW p, NEW i \in Nat
    PROVE  Below(raw, p, i) \in SUBSET Dotted
BY DropType DEF Below, Dotted

(* Strings with the same names are the same.                               *)
LEMMA SameNames ==
    ASSUME NEW q \in Seq(Name), NEW r \in Seq(Name), Len(q) = Len(r),
           \A j \in 1..Len(q) : q[j] = r[j]
    PROVE  q = r
OBVIOUS

(* Nothing has been taken from the strings yet.                            *)
LEMMA BelowStart ==
    ASSUME NEW raw \in SUBSET Dotted, NEW p
    PROVE  Below(raw, p, 0) = raw
<1>1. ASSUME NEW q \in raw PROVE Drop(q, 0) = q /\ 0 < Len(q) /\ Follows(q, p, 0)
  <2>1. q \in Seq(Name) /\ Len(q) \in Nat /\ 0 < Len(q)
    BY DEF Dotted
  <2>2. Drop(q, 0) \in Seq(Name) /\ Len(Drop(q, 0)) = Len(q)
    BY <2>1, DropType DEF Dotted
  <2>3. \A j \in 1..Len(q) : Drop(q, 0)[j] = q[j]
    BY <2>1, DropType
  <2>4. Drop(q, 0) = q
    BY <2>1, <2>2, <2>3, SameNames
  <2> QED BY <2>1, <2>4 DEF Follows
<1> QED BY <1>1 DEF Below

(* A string goes on after names i and i + 1 of p, or after name i with     *)
(* name i + 1.                                                             *)
LEMMA FollowsNext ==
    ASSUME NEW raw \in SUBSET Dotted, NEW p, NEW i \in Nat
    PROVE  \A q \in raw : Follows(q, p, i + 1) <=>
                             i < Len(q) /\ Follows(q, p, i) /\ q[i + 1] = p[i + 1]
<1>1. ASSUME NEW q \in raw
      PROVE  Follows(q, p, i + 1) <=> i < Len(q) /\ Follows(q, p, i) /\ q[i + 1] = p[i + 1]
  <2>1. 1..(i + 1) = 1..i \cup {i + 1} /\ Len(q) \in Nat
    BY DEF Dotted
  <2> QED BY <2>1 DEF Follows
<1> QED BY <1>1

(* The group of name i + 1 is what is left below it.                       *)
LEMMA BelowNext ==
    ASSUME NEW raw \in SUBSET Dotted, NEW p \in Seq(Name), NEW i \in 0..(Len(p) - 1)
    PROVE  Within(Below(raw, p, i), p[i + 1]) = Below(raw, p, i + 1)
<1>1. ASSUME NEW q \in raw, i < Len(q)
      PROVE  /\ q \in Seq(Name) /\ Len(q) \in Nat /\ i \in Nat
             /\ Len(Drop(q, i)) > 1 <=> i + 1 < Len(q)
             /\ Drop(q, i)[1] = q[i + 1]
             /\ i + 1 < Len(q) => Tail(Drop(q, i)) = Drop(q, i + 1)
  <2>1. q \in Seq(Name) /\ Len(q) \in Nat /\ i \in Nat
    BY DEF Dotted
  <2>2. /\ Drop(q, i) \in Dotted /\ Len(Drop(q, i)) = Len(q) - i
        /\ \A j \in 1..(Len(q) - i) : Drop(q, i)[j] = q[j + i]
    BY <1>1, <2>1, DropType
  <2>3. ASSUME i + 1 < Len(q) PROVE Tail(Drop(q, i)) = Drop(q, i + 1)
    <3>1. /\ Drop(q, i + 1) \in Seq(Name) /\ Len(Drop(q, i + 1)) = Len(q) - (i + 1)
          /\ \A j \in 1..(Len(q) - (i + 1)) : Drop(q, i + 1)[j] = q[j + (i + 1)]
      BY <2>1, <2>3, DropType DEF Dotted
    <3>2. /\ Tail(Drop(q, i)) \in Seq(Name) /\ Len(Tail(Drop(q, i))) = Len(q) - (i + 1)
          /\ \A j \in 1..(Len(q) - (i + 1)) : Tail(Drop(q, i))[j] = Drop(q, i)[j + 1]
      BY <2>1, <2>2, <2>3 DEF Dotted
    <3>3. ASSUME NEW j \in 1..(Len(q) - (i + 1)) PROVE Tail(Drop(q, i))[j] = Drop(q, i + 1)[j]
      <4>1. j + 1 \in 1..(Len(q) - i) /\ (j + 1) + i = j + (i + 1)
        BY <2>1
      <4> QED BY <2>2, <3>1, <3>2, <4>1
    <3> QED BY <3>1, <3>2, <3>3, SameNames
  <2>4. Drop(q, i)[1] = q[i + 1]
    BY <1>1, <2>1, <2>2
  <2> QED BY <1>1, <2>1, <2>2, <2>3, <2>4
<1>2. \A q \in raw : Follows(q, p, i + 1) <=>
                        i < Len(q) /\ Follows(q, p, i) /\ q[i + 1] = p[i + 1]
  <2>1. i \in Nat
    OBVIOUS
  <2> QED BY <2>1, FollowsNext
<1>3. ASSUME NEW r \in Within(Below(raw, p, i), p[i + 1]) PROVE r \in Below(raw, p, i + 1)
  <2>1. PICK s \in Below(raw, p, i) : Len(s) > 1 /\ s[1] = p[i + 1] /\ r = Tail(s)
    BY <1>3 DEF Within
  <2>2. PICK q \in raw : i < Len(q) /\ Follows(q, p, i) /\ s = Drop(q, i)
    BY <2>1 DEF Below
  <2>3. i + 1 < Len(q) /\ q[i + 1] = p[i + 1] /\ r = Drop(q, i + 1)
    BY <1>1, <2>1, <2>2
  <2> QED BY <1>2, <2>2, <2>3 DEF Below
<1>4. ASSUME NEW r \in Below(raw, p, i + 1) PROVE r \in Within(Below(raw, p, i), p[i + 1])
  <2>1. PICK q \in raw : i + 1 < Len(q) /\ Follows(q, p, i + 1) /\ r = Drop(q, i + 1)
    BY <1>4 DEF Below
  <2>2. i < Len(q) /\ Follows(q, p, i) /\ q[i + 1] = p[i + 1]
    BY <1>2, <2>1
  <2>3. Drop(q, i) \in Below(raw, p, i)
    BY <2>2 DEF Below
  <2> QED BY <1>1, <2>1, <2>2, <2>3 DEF Within
<1> QED BY <1>3, <1>4

(* A level has a field for name i + 1 if that is asked for.                *)
LEMMA FieldsBelow ==
    ASSUME NEW raw \in SUBSET Dotted, NEW p \in Seq(Name), NEW i \in 0..(Len(p) - 1)
    PROVE  /\ p[i + 1] \in Groups(Below(raw, p, i)) <=> Below(raw, p, i + 1) # {}
           /\ p[i + 1] \in Groups(Below(raw, p, i)) \cup Listed(Below(raw, p, i)) <=>
                 AskedTo(raw, p, i + 1)
<1>1. \A q \in raw : /\ q \in Seq(Name) /\ Len(q) \in Nat /\ i \in Nat
                     /\ i < Len(q) => /\ Len(Drop(q, i)) \in Nat /\ Len(Drop(q, i)) = Len(q) - i
                                      /\ Drop(q, i)[1] = q[i + 1]
  <2> SUFFICES ASSUME NEW q \in raw
               PROVE  /\ q \in Seq(Name) /\ Len(q) \in Nat /\ i \in Nat
                      /\ i < Len(q) => /\ Len(Drop(q, i)) \in Nat
                                       /\ Len(Drop(q, i)) = Len(q) - i
                                       /\ Drop(q, i)[1] = q[i + 1]
    OBVIOUS
  <2>1. q \in Seq(Name) /\ Len(q) \in Nat /\ i \in Nat
    BY DEF Dotted
  <2>2. ASSUME i < Len(q) PROVE Len(Drop(q, i)) = Len(q) - i /\ Drop(q, i)[1] = q[i + 1]
    <3>1. 1 \in 1..(Len(q) - i) /\ 1 + i = i + 1
      BY <2>1, <2>2
    <3> QED BY <2>1, <2>2, <3>1, DropType
  <2> QED BY <2>1, <2>2
<1>2. \A q \in raw : Follows(q, p, i + 1) <=>
                        i < Len(q) /\ Follows(q, p, i) /\ q[i + 1] = p[i + 1]
  <2>1. i \in Nat
    OBVIOUS
  <2> QED BY <2>1, FollowsNext
<1>3. p[i + 1] \in Groups(Below(raw, p, i)) <=>
         \E q \in raw : Follows(q, p, i + 1) /\ i + 1 < Len(q)
  <2>1. p[i + 1] \in Groups(Below(raw, p, i)) <=>
           \E s \in Below(raw, p, i) : Len(s) > 1 /\ s[1] = p[i + 1]
    BY DEF Groups
  <2>2. (\E s \in Below(raw, p, i) : Len(s) > 1 /\ s[1] = p[i + 1]) <=>
           \E q \in raw : /\ i < Len(q) /\ Follows(q, p, i)
                          /\ Len(Drop(q, i)) > 1 /\ Drop(q, i)[1] = p[i + 1]
    BY DEF Below
  <2>3. ASSUME NEW q \in raw
        PROVE  /\ i < Len(q) /\ Follows(q, p, i)
               /\ Len(Drop(q, i)) > 1 /\ Drop(q, i)[1] = p[i + 1]
               <=> Follows(q, p, i + 1) /\ i + 1 < Len(q)
    <3>1. i < Len(q) => (Len(Drop(q, i)) > 1 <=> i + 1 < Len(q)) /\ Drop(q, i)[1] = q[i + 1]
      BY <1>1
    <3>2. Follows(q, p, i + 1) <=> i < Len(q) /\ Follows(q, p, i) /\ q[i + 1] = p[i + 1]
      BY <1>2
    <3> QED BY ONLY <3>1, <3>2
  <2> QED BY ONLY <2>1, <2>2, <2>3
<1>4. p[i + 1] \in Listed(Below(raw, p, i)) <=>
         /\ p[i + 1] # Wildcard
         /\ \E q \in raw : Follows(q, p, i + 1) /\ i + 1 = Len(q)
  <2>1. p[i + 1] \in Listed(Below(raw, p, i)) <=>
           /\ p[i + 1] # Wildcard
           /\ \E s \in Below(raw, p, i) : Len(s) = 1 /\ s[1] = p[i + 1]
    BY DEF Listed
  <2>2. (\E s \in Below(raw, p, i) : Len(s) = 1 /\ s[1] = p[i + 1]) <=>
           \E q \in raw : /\ i < Len(q) /\ Follows(q, p, i)
                          /\ Len(Drop(q, i)) = 1 /\ Drop(q, i)[1] = p[i + 1]
    BY DEF Below
  <2>3. ASSUME NEW q \in raw
        PROVE  /\ i < Len(q) /\ Follows(q, p, i)
               /\ Len(Drop(q, i)) = 1 /\ Drop(q, i)[1] = p[i + 1]
               <=> Follows(q, p, i + 1) /\ i + 1 = Len(q)
    <3>1. i < Len(q) => (Len(Drop(q, i)) = 1 <=> i + 1 = Len(q)) /\ Drop(q, i)[1] = q[i + 1]
      <4>1. /\ Len(q) \in Nat /\ i \in Nat
            /\ i < Len(q) => Len(Drop(q, i)) = Len(q) - i /\ Drop(q, i)[1] = q[i + 1]
        BY <1>1
      <4>2. \A l \in Nat : l - i = 1 <=> i + 1 = l
        OBVIOUS
      <4>3. i < Len(q) => (Len(Drop(q, i)) = 1 <=> Len(q) - i = 1)
        BY ONLY <4>1, Zenon
      <4> QED BY ONLY <4>1, <4>2, <4>3, Zenon
    <3>2. Follows(q, p, i + 1) <=> i < Len(q) /\ Follows(q, p, i) /\ q[i + 1] = p[i + 1]
      BY <1>2
    <3> QED BY ONLY <3>1, <3>2
  <2> QED BY ONLY <2>1, <2>2, <2>3
<1>5. Below(raw, p, i + 1) # {} <=> \E q \in raw : Follows(q, p, i + 1) /\ i + 1 < Len(q)
  BY DEF Below
<1>6. AskedTo(raw, p, i + 1) <=>
         \E q \in raw : Follows(q, p, i + 1) /\ (i + 1 = Len(q) => p[i + 1] # Wildcard)
  <2>1. i + 1 # 0 /\ i + 1 \in 1..(i + 1)
    OBVIOUS
  <2> QED BY <2>1 DEF AskedTo, Follows
<1>7. \A q \in raw : Follows(q, p, i + 1) => i + 1 < Len(q) \/ (i + 1 = Len(q))
  BY <1>1 DEF Follows
<1> QED BY <1>1, <1>3, <1>4, <1>5, <1>6, <1>7

(* The first names of a prefix are one.                                    *)
LEMMA AskedBefore ==
    ASSUME NEW raw \in SUBSET Dotted, NEW p, NEW i \in Nat, AskedTo(raw, p, i + 1)
    PROVE  AskedTo(raw, p, i)
<1>1. PICK q \in raw : i + 1 <= Len(q) /\ \A j \in 1..(i + 1) : q[j] = p[j]
  BY DEF AskedTo
<1>2. Len(q) \in Nat
  BY <1>1 DEF Dotted
<1>3. i <= Len(q) /\ i # Len(q) /\ \A j \in 1..i : q[j] = p[j]
  BY <1>1, <1>2
<1> QED BY <1>3 DEF AskedTo

(* A level that is as deep as the strings are long has a field for each    *)
(* name that is asked for next, and in it the level of what is left.       *)
LEMMA LevelFields ==
    ASSUME NEW raw \in SUBSET Dotted, NEW p \in Seq(Name), NEW i \in 0..(Len(p) - 1),
           NEW n \in Nat, i <= n, \A q \in raw : Len(q) <= n,
           NEW l, l = ParsedTo[n - i][Below(raw, p, i)]
    PROVE  /\ p[i + 1] \in DOMAIN l.expansions <=> AskedTo(raw, p, i + 1)
           /\ AskedTo(raw, p, i + 1) =>
                 /\ i + 1 <= n
                 /\ l.expansions[p[i + 1]] = ParsedTo[n - (i + 1)][Below(raw, p, i + 1)]
<1> DEFINE B == Below(raw, p, i)
           k == p[i + 1]
<1>1. i \in Nat /\ B \in SUBSET Dotted
  BY BelowType
<1>2. AskedTo(raw, p, i + 1) => i + 1 <= n
  <2> SUFFICES ASSUME AskedTo(raw, p, i + 1) PROVE i + 1 <= n
    OBVIOUS
  <2>1. PICK q \in raw : i + 1 <= Len(q)
    BY <1>1 DEF AskedTo
  <2>2. Len(q) \in Nat /\ Len(q) <= n
    BY <2>1 DEF Dotted
  <2> QED BY <1>1, <2>1, <2>2
<1>3. CASE n - i = 0
  <2>1. l = Bare
    BY <1>1, <1>3, ParsedToIs DEF BareParse
  <2>2. DOMAIN l.expansions = {}
    BY <2>1 DEF Bare
  <2>3. ~(i + 1 <= n)
    BY <1>1, <1>3
  <2> QED BY <1>2, <2>2, <2>3
<1>4. CASE n - i # 0
  <2> DEFINE m == n - (i + 1)
  <2>1. m \in Nat /\ m + 1 = n - i
    BY <1>1, <1>4
  <2>2. ParsedTo[n - i] = NextParse(ParsedTo[m])
    <3> HIDE DEF m
    <3>1. ParsedTo[m + 1] = NextParse(ParsedTo[m])
      BY <2>1, ParsedToIs
    <3> QED BY <2>1, <3>1
  <2>3. l = LevelBy(ParsedTo[m], B)
    <3> HIDE DEF m
    <3> QED BY <1>1, <2>2 DEF NextParse
  <2> DEFINE fields == [f \in Groups(B) \cup Listed(B) |->
                          IF f \in Groups(B) THEN ParsedTo[m][Within(B, f)] ELSE Bare]
  <2>4. l.expansions = fields
    BY <2>3 DEF LevelBy
  <2>5. DOMAIN l.expansions = Groups(B) \cup Listed(B)
    BY <2>4
  <2>6. /\ k \in Groups(B) <=> Below(raw, p, i + 1) # {}
        /\ k \in Groups(B) \cup Listed(B) <=> AskedTo(raw, p, i + 1)
    BY FieldsBelow
  <2>7. ASSUME AskedTo(raw, p, i + 1)
        PROVE  l.expansions[k] = ParsedTo[m][Below(raw, p, i + 1)]
    <3>1. fields[k] = IF k \in Groups(B) THEN ParsedTo[m][Within(B, k)] ELSE Bare
      <4> HIDE DEF m, B, k
      <4> QED BY <2>6, <2>7
    <3>2. Within(B, k) = Below(raw, p, i + 1)
      BY BelowNext
    <3>3. ParsedTo[m][{}] = Bare
      BY <2>1, NothingParsed
    <3> HIDE DEF m, B, k, fields
    <3> QED BY <2>4, <2>6, <3>1, <3>2, <3>3
  <2> HIDE DEF B, fields
  <2> QED BY <1>2, <2>5, <2>6, <2>7
<1> QED BY <1>3, <1>4

(* It has a wildcard where one is written next, and last.                  *)
LEMMA LevelWildcard ==
    ASSUME NEW raw \in SUBSET Dotted, NEW p \in Seq(Name),
           NEW n \in Nat, Len(p) <= n, \A q \in raw : Len(q) <= n,
           NEW l, l = ParsedTo[n - Len(p)][Below(raw, p, Len(p))]
    PROVE  l.wildcard <=> Append(p, Wildcard) \in raw
<1> DEFINE i == Len(p)
           B == Below(raw, p, i)
           w == Append(p, Wildcard)
<1>1. i \in Nat /\ B \in SUBSET Dotted
  BY BelowType
<1>2. w \in raw => w \in Seq(Name) /\ Len(w) = i + 1 /\ w[i + 1] = Wildcard /\ \A j \in 1..i : w[j] = p[j]
  <2>1. p \in Seq(Name \cup {Wildcard}) /\ Wildcard \in Name \cup {Wildcard}
    OBVIOUS
  <2>2. Len(w) = i + 1 /\ w[i + 1] = Wildcard /\ \A j \in 1..i : w[j] = p[j]
    BY ONLY <2>1
  <2> HIDE DEF w
  <2> QED BY <2>2 DEF Dotted
<1>3. CASE n - i = 0
  <2>1. l = Bare
    BY <1>1, <1>3, ParsedToIs DEF BareParse
  <2>2. l.wildcard = FALSE
    BY <2>1 DEF Bare
  <2>3. w \notin raw
    <3> SUFFICES ASSUME w \in raw PROVE FALSE
      OBVIOUS
    <3>1. Len(w) = i + 1 /\ Len(w) <= n
      BY <1>2
    <3> QED BY <1>1, <1>3, <3>1
  <2> QED BY <2>2, <2>3
<1>4. CASE n - i # 0
  <2> DEFINE m == n - (i + 1)
  <2>1. m \in Nat /\ m + 1 = n - i
    BY <1>1, <1>4
  <2>2. l = LevelBy(ParsedTo[m], B)
    <3> HIDE DEF m
    <3>1. ParsedTo[n - i] = NextParse(ParsedTo[m])
      BY <2>1, ParsedToIs
    <3> QED BY <1>1, <3>1 DEF NextParse
  <2>3. l.wildcard <=> <<Wildcard>> \in B
    <3>1. \A g, r : LevelBy(g, r).wildcard = (<<Wildcard>> \in r)
      BY Zenon DEF LevelBy
    <3> QED BY ONLY <2>2, <3>1
  <2>4. ASSUME <<Wildcard>> \in B PROVE w \in raw
    <3>1. PICK q \in raw : i < Len(q) /\ Follows(q, p, i) /\ <<Wildcard>> = Drop(q, i)
      BY <2>4 DEF Below
    <3>2. q \in Seq(Name) /\ Len(q) \in Nat
      BY DEF Dotted
    <3>3. Len(Drop(q, i)) = Len(q) - i /\ \A j \in 1..(Len(q) - i) : Drop(q, i)[j] = q[j + i]
      BY <1>1, <3>1, <3>2, DropType
    <3>4. Len(q) - i = 1
      BY <3>1, <3>3
    <3>5. Len(q) = i + 1
      BY <1>1, <3>2, <3>4
    <3>6. q[i + 1] = Wildcard
      <4>1. 1 \in 1..(Len(q) - i) /\ 1 + i = i + 1
        BY <1>1, <3>4
      <4> QED BY <3>1, <3>3, <4>1
    <3>7. Wildcard \in Name
      BY <1>1, <3>2, <3>5, <3>6
    <3>8. w \in Seq(Name) /\ Len(w) = i + 1 /\ w[i + 1] = Wildcard /\ \A j \in 1..i : w[j] = p[j]
      BY <3>7
    <3>9. \A j \in 1..Len(q) : q[j] = w[j]
      <4>1. \A j \in 1..i : q[j] = w[j]
        BY <3>1, <3>8 DEF Follows
      <4>2. 1..Len(q) = 1..i \cup {i + 1}
        BY <1>1, <3>5
      <4> QED BY <3>6, <3>8, <4>1, <4>2
    <3>10. q = w
      <4> HIDE DEF w, i
      <4> QED BY <3>2, <3>5, <3>8, <3>9, SameNames
    <3> QED BY <3>10
  <2>5. ASSUME w \in raw PROVE <<Wildcard>> \in B
    <3>1. i < Len(w) /\ Follows(w, p, i)
      BY <1>1, <1>2, <2>5 DEF Follows
    <3>2. Drop(w, i) \in Seq(Name) /\ Len(Drop(w, i)) = 1 /\ Drop(w, i)[1] = Wildcard
      <4>1. w \in Seq(Name) /\ i \in Nat /\ i < Len(w) /\ Len(w) - i = 1 /\ 1 + i = i + 1
        BY <1>1, <1>2, <2>5
      <4>2. /\ Drop(w, i) \in Dotted /\ Len(Drop(w, i)) = Len(w) - i
            /\ \A j \in 1..(Len(w) - i) : Drop(w, i)[j] = w[j + i]
        <5> HIDE DEF w, i
        <5> QED BY <4>1, DropType
      <4>3. 1 \in 1..(Len(w) - i)
        BY <4>1
      <4> QED BY <1>2, <2>5, <4>1, <4>2, <4>3 DEF Dotted
    <3>3. Drop(w, i) = <<Wildcard>>
      <4> DEFINE d == Drop(w, i)
      <4>1. d \in Seq(Name) /\ Len(d) = 1 /\ d[1] = Wildcard
        BY <3>2
      <4> HIDE DEF d
      <4>2. d = <<Wildcard>>
        BY <4>1
      <4> QED BY <4>2 DEF d
    <3> QED BY <2>5, <3>1, <3>3 DEF Below
  <2> QED BY <2>3, <2>4, <2>5
<1> QED BY <1>3, <1>4

----------------------------------------------------------------------------
(* The nodes of a level.                                                   *)

(* The node at the first i names of p, for strings of up to n names.       *)
Reached(raw, n, p, i) ==
    IF AskedTo(raw, p, i) THEN {ParsedTo[n - i][Below(raw, p, i)]} ELSE {}

(* The nodes that the next name leads to.                                  *)
Step(nodes, k) == {x.expansions[k] : x \in {y \in nodes : k \in DOMAIN y.expansions}}

LEMMA ReachedNext ==
    ASSUME NEW raw \in SUBSET Dotted, NEW p \in Seq(Name), NEW i \in 0..(Len(p) - 1),
           NEW n \in Nat, \A q \in raw : Len(q) <= n
    PROVE  Reached(raw, n, p, i + 1) = Step(Reached(raw, n, p, i), p[i + 1])
<1>1. CASE ~AskedTo(raw, p, i)
  <2>1. ~AskedTo(raw, p, i + 1)
    BY <1>1, AskedBefore
  <2> QED BY <1>1, <2>1 DEF Reached, Step
<1>2. CASE AskedTo(raw, p, i)
  <2>1. i <= n
    <3>1. CASE i = 0
      BY <3>1
    <3>2. CASE i # 0
      <4>1. PICK q \in raw : i <= Len(q)
        BY <1>2, <3>2 DEF AskedTo
      <4>2. Len(q) \in Nat /\ Len(q) <= n
        BY DEF Dotted
      <4> QED BY <4>1, <4>2
    <3> QED BY <3>1, <3>2
  <2> DEFINE l == ParsedTo[n - i][Below(raw, p, i)]
  <2>2. /\ p[i + 1] \in DOMAIN l.expansions <=> AskedTo(raw, p, i + 1)
        /\ AskedTo(raw, p, i + 1) =>
              l.expansions[p[i + 1]] = ParsedTo[n - (i + 1)][Below(raw, p, i + 1)]
    BY <2>1, LevelFields
  <2>3. Reached(raw, n, p, i) = {l}
    BY <1>2 DEF Reached
  <2> HIDE DEF l
  <2> QED BY <2>2, <2>3 DEF Reached, Step
<1> QED BY <1>1, <1>2

LEMMA NodesAre ==
    ASSUME NEW raw \in SUBSET Dotted, NEW p \in Seq(Name),
           NEW n \in Nat, \A q \in raw : Len(q) <= n
    PROVE  NodesAt(ParsedTo[n][raw], p) = Reached(raw, n, p, Len(p))
<1> DEFINE l == ParsedTo[n][raw]
           step(f) == [i \in 0..Len(p) |->
                          IF i = 0 THEN {l}
                          ELSE {x.expansions[p[i]] :
                                   x \in {y \in f[i - 1] : p[i] \in DOMAIN y.expansions}}]
           at == CHOOSE f : f = step(f)
           g == [i \in 0..Len(p) |-> Reached(raw, n, p, i)]
<1>1. Len(p) \in Nat
  OBVIOUS
<1>2. Reached(raw, n, p, 0) = {l}
  BY BelowStart DEF Reached, AskedTo
<1>3. \A i \in 0..Len(p) :
         i # 0 => /\ i - 1 \in 0..Len(p)
                  /\ Reached(raw, n, p, i) = Step(Reached(raw, n, p, i - 1), p[i])
  <2> SUFFICES ASSUME NEW i \in 0..Len(p), i # 0
               PROVE  /\ i - 1 \in 0..Len(p)
                      /\ Reached(raw, n, p, i) = Step(Reached(raw, n, p, i - 1), p[i])
    OBVIOUS
  <2> DEFINE j == i - 1
  <2>1. j \in 0..(Len(p) - 1) /\ j + 1 = i /\ j \in 0..Len(p)
    BY <1>1
  <2>2. Reached(raw, n, p, j + 1) = Step(Reached(raw, n, p, j), p[j + 1])
    <3> HIDE DEF j
    <3> QED BY <2>1, ReachedNext
  <2> QED BY <2>1, <2>2
<1>4. g = step(g)
  <2>1. ASSUME NEW i \in 0..Len(p) PROVE g[i] = step(g)[i]
    <3>1. CASE i = 0
      BY <1>2, <3>1
    <3>2. CASE i # 0
      BY <1>3, <3>2 DEF Step
    <3> QED BY <3>1, <3>2
  <2>2. g = [i \in 0..Len(p) |-> g[i]] /\ step(g) = [i \in 0..Len(p) |-> step(g)[i]]
    OBVIOUS
  <2> HIDE DEF g, step
  <2> QED BY <2>1, <2>2
<1>5. at = step(at)
  <2> HIDE DEF g, step
  <2> QED BY <1>4
<1>6. NodesAt(l, p) = at[Len(p)]
  BY DEF NodesAt
<1> DEFINE S == {i \in Nat : i <= Len(p) => at[i] = Reached(raw, n, p, i)}
<1>7. \A i \in 0..Len(p) : at[i] = IF i = 0 THEN {l} ELSE Step(at[i - 1], p[i])
  <2>1. \A f : \A i \in 0..Len(p) : step(f)[i] = IF i = 0 THEN {l} ELSE Step(f[i - 1], p[i])
    BY DEF Step
  <2> HIDE DEF step, at
  <2> QED BY <1>5, <2>1
<1> HIDE DEF at, g, step, l
<1>8. 0 \in S
  <2>1. 0 \in 0..Len(p)
    BY <1>1
  <2>2. at[0] = {l}
    BY <1>7, <2>1
  <2> QED BY <1>2, <2>2
<1>9. ASSUME NEW i \in Nat, i \in S PROVE i + 1 \in S
  <2> SUFFICES ASSUME i + 1 <= Len(p) PROVE at[i + 1] = Reached(raw, n, p, i + 1)
    OBVIOUS
  <2>1. i \in 0..(Len(p) - 1) /\ i <= Len(p) /\ i + 1 \in 0..Len(p) /\ i + 1 # 0 /\ (i + 1) - 1 = i
    BY <1>1
  <2>2. at[i] = Reached(raw, n, p, i)
    BY <1>9, <2>1
  <2>3. at[i + 1] = Step(at[i], p[i + 1])
    BY <1>7, <2>1
  <2> QED BY <2>1, <2>2, <2>3, ReachedNext
<1>10. \A i \in Nat : i \in S
  <2> HIDE DEF S
  <2> QED BY <1>8, <1>9, InductiveSet
<1>11. at[Len(p)] = Reached(raw, n, p, Len(p))
  BY <1>1, <1>10
<1> QED BY <1>6, <1>11 DEF l

(* The level of strings of up to n names is the tree of their prefixes.    *)
THEOREM ParsedIsPrefixTree ==
    ASSUME NEW raw \in SUBSET Dotted, NEW p \in Seq(Name),
           NEW n \in Nat, \A q \in raw : Len(q) <= n
    PROVE  IsPrefixTreeAt(ParsedTo[n][raw], raw, p)
<1>1. NodesAt(ParsedTo[n][raw], p) = Reached(raw, n, p, Len(p))
  BY NodesAre
<1>2. AskedTo(raw, p, Len(p)) => Len(p) <= n
  <2>1. CASE Len(p) = 0
    BY <2>1
  <2>2. ASSUME Len(p) # 0, AskedTo(raw, p, Len(p)) PROVE Len(p) <= n
    <3>1. PICK q \in raw : Len(p) <= Len(q)
      BY <2>2 DEF AskedTo
    <3>2. Len(q) \in Nat /\ Len(q) <= n /\ Len(p) \in Nat
      BY DEF Dotted
    <3> QED BY <3>1, <3>2
  <2> QED BY <2>1, <2>2
<1>3. ASSUME NEW x \in Reached(raw, n, p, Len(p)) PROVE x.wildcard <=> Append(p, Wildcard) \in raw
  <2>1. AskedTo(raw, p, Len(p)) /\ x = ParsedTo[n - Len(p)][Below(raw, p, Len(p))]
    BY <1>3 DEF Reached
  <2>2. Len(p) <= n
    BY <1>2, <2>1
  <2> QED BY <2>1, <2>2, LevelWildcard
<1>4. Reached(raw, n, p, Len(p)) # {} <=> AskedTo(raw, p, Len(p))
  BY DEF Reached
<1> QED BY <1>1, <1>3, <1>4 DEF IsPrefixTreeAt

(* A list of strings has a longest one.                                    *)
LEMMA DepthIs ==
    ASSUME NEW s, NEW m \in Nat, \A i \in 1..m : Len(s[i]) \in Nat,
           NEW raw, raw = {s[i] : i \in 1..m}
    PROVE  Depth(raw) \in Nat /\ \A q \in raw : Len(q) <= Depth(raw)
<1> DEFINE Lengths(j) == {0} \cup {Len(s[i]) : i \in 1..j}
           S == {j \in Nat : j <= m => \E n \in Lengths(j) : \A i \in 1..j : Len(s[i]) <= n}
<1>1. 0 \in S
  OBVIOUS
<1>2. ASSUME NEW j \in Nat, j \in S PROVE j + 1 \in S
  <2> SUFFICES ASSUME j + 1 <= m
               PROVE  \E n \in Lengths(j + 1) : \A i \in 1..(j + 1) : Len(s[i]) <= n
    OBVIOUS
  <2>1. PICK n \in Lengths(j) : \A i \in 1..j : Len(s[i]) <= n
    BY <1>2
  <2>2. j + 1 \in 1..m /\ 1..j \subseteq 1..m /\ 1..(j + 1) = 1..j \cup {j + 1}
    OBVIOUS
  <2>3. n \in Nat /\ Len(s[j + 1]) \in Nat /\ n \in Lengths(j + 1) /\ Len(s[j + 1]) \in Lengths(j + 1)
    BY <2>2
  <2> HIDE DEF Lengths
  <2>4. CASE Len(s[j + 1]) <= n
    BY <2>1, <2>2, <2>3, <2>4
  <2>5. CASE ~(Len(s[j + 1]) <= n)
    <3>1. ASSUME NEW i \in 1..j PROVE Len(s[i]) <= Len(s[j + 1])
      <4>1. Len(s[i]) \in Nat /\ Len(s[i]) <= n
        BY <2>1, <2>2
      <4> QED BY <2>3, <2>5, <4>1
    <3>2. Len(s[j + 1]) <= Len(s[j + 1])
      BY <2>3
    <3> QED BY <2>2, <2>3, <3>1, <3>2
  <2> QED BY <2>4, <2>5
<1>3. \A j \in Nat : j \in S
  <2> HIDE DEF S
  <2> QED BY <1>1, <1>2, InductiveSet
<1>4. m \in S
  BY <1>3
<1>5. PICK n \in Lengths(m) : \A i \in 1..m : Len(s[i]) <= n
  BY <1>4
<1>6. Lengths(m) = {0} \cup {Len(q) : q \in raw} /\ Lengths(m) \subseteq Nat
  OBVIOUS
<1> HIDE DEF Lengths
<1>7. \E d \in {0} \cup {Len(q) : q \in raw} : \A q \in raw : Len(q) <= d
  BY <1>5, <1>6
<1>8. /\ Depth(raw) \in {0} \cup {Len(q) : q \in raw}
      /\ \A q \in raw : Len(q) <= Depth(raw)
  BY <1>7 DEF Depth
<1> QED BY <1>6, <1>8
----------------------------------------------------------------------------
(* What extractExpansions makes of a parameter.                            *)

LEMMA AskedType == expand \in Expand \cup {None} => Asked \in SUBSET Dotted
<1> SUFFICES ASSUME expand \in Expand, expand # None PROVE Asked \in SUBSET Dotted
  BY DEF Asked
<1>1. CASE expand.kind = "string"
  BY <1>1, ExpandAssumption DEF Asked
<1>2. CASE expand.kind = "array"
  <2>1. \A i \in DOMAIN expand.items :
           expand.items[i].kind = "string" => expand.items[i].of \in Dotted
    BY <1>2, ExpandAssumption
  <2>2. Asked = {expand.items[i].of :
                    i \in {j \in DOMAIN expand.items : expand.items[j].kind = "string"}}
    BY <1>2 DEF Asked
  <2> QED BY <2>1, <2>2
<1>3. CASE expand.kind = "map"
  BY <1>3 DEF Asked
<1> QED BY <1>1, <1>2, <1>3, ExpandAssumption

LEMMA LevelOfIsPrefixTree ==
    ASSUME expand \in Expand \cup {None}, LevelOf(expand) # None, LevelOf(expand) # Panic
    PROVE  \A p \in Seq(Name) : IsPrefixTreeAt(LevelOf(expand), Asked, p)
<1>1. expand \in Expand /\ expand # None /\ expand.kind # "map"
  BY DEF LevelOf
<1>2. \E s : \E m \in Nat :
         /\ Asked = {s[i] : i \in 1..m}
         /\ LevelOf(expand) = ParseExpansionLevel(Asked)
  <2>1. CASE expand.kind = "string"
    <3>1. Asked = {expand.of} /\ LevelOf(expand) = ParseExpansionLevel({expand.of})
      BY <1>1, <2>1 DEF Asked, LevelOf
    <3> DEFINE s == [i \in 1..1 |-> expand.of]
    <3>2. Asked = {s[i] : i \in 1..1} /\ 1 \in Nat
      BY <3>1
    <3> HIDE DEF s
    <3> QED BY <3>1, <3>2
  <2>2. CASE expand.kind = "array"
    <3> DEFINE items == expand.items
               s == [i \in DOMAIN items |-> items[i].of]
    <3>1. Len(items) \in Nat /\ DOMAIN items = 1..Len(items)
      BY <1>1, <2>2, ExpandAssumption
    <3>2. \A i \in DOMAIN items : items[i].kind = "string"
      BY <1>1, <2>2 DEF LevelOf
    <3>3. LevelOf(expand) = ParseExpansionLevel({items[i].of : i \in DOMAIN items})
      BY <1>1, <2>2, <3>2 DEF LevelOf
    <3>4. Asked = {items[i].of : i \in {j \in DOMAIN items : items[j].kind = "string"}}
      BY <1>1, <2>2 DEF Asked
    <3>5. Asked = {items[i].of : i \in DOMAIN items}
      BY <3>2, <3>4
    <3>6. Asked = {s[i] : i \in 1..Len(items)}
      BY <3>1, <3>5
    <3> HIDE DEF items, s
    <3> QED BY <3>1, <3>3, <3>5, <3>6
  <2> QED BY <1>1, <2>1, <2>2, ExpandAssumption
<1>3. PICK s : \E m \in Nat : /\ Asked = {s[i] : i \in 1..m}
                              /\ LevelOf(expand) = ParseExpansionLevel(Asked)
  BY <1>2
<1> PICK m \in Nat : /\ Asked = {s[i] : i \in 1..m}
                     /\ LevelOf(expand) = ParseExpansionLevel(Asked)
  BY <1>3
<1>4. Asked \in SUBSET Dotted
  BY <1>1, AskedType
<1>5. \A i \in 1..m : Len(s[i]) \in Nat
  BY <1>4 DEF Dotted
<1>6. Depth(Asked) \in Nat /\ \A q \in Asked : Len(q) <= Depth(Asked)
  BY <1>5, DepthIs
<1>7. \A p \in Seq(Name) : IsPrefixTreeAt(ParsedTo[Depth(Asked)][Asked], Asked, p)
  BY <1>4, <1>6, ParsedIsPrefixTree
<1> QED BY <1>7 DEF ParseExpansionLevel

LEMMA CandidatesType == expand \in Expand \cup {None} => Candidates \subseteq Seq(Name)
<1> SUFFICES ASSUME expand \in Expand \cup {None} PROVE Candidates \subseteq Seq(Name)
  OBVIOUS
<1>1. \A q \in Asked : q \in Seq(Name)
  BY AskedType DEF Dotted
<1>2. ASSUME NEW q \in Asked, NEW i \in 0..Len(q), NEW k \in Name
      PROVE  Append(SubSeq(q, 1, i), k) \in Seq(Name)
  BY <1>1
<1>3. <<>> \in Seq(Name)
  OBVIOUS
<1> DEFINE further(q) == {Append(SubSeq(q, 1, i), k) : i \in 0..Len(q), k \in Name}
<1>4. ASSUME NEW q \in Asked PROVE further(q) \subseteq Seq(Name)
  BY <1>2
<1>5. Candidates = {<<>>} \cup UNION {further(q) : q \in Asked}
  BY DEF Candidates
<1> HIDE DEF further
<1> QED BY <1>3, <1>4, <1>5

----------------------------------------------------------------------------
(* The requests.                                                           *)

(* A request is generated for with the level of its own expansions.        *)
IInv ==
    /\ schema \in Root /\ method \in Method /\ expand \in Expand \cup {None}
    /\ TypeOK
    /\ LevelIsPrefixTree
    /\ pc = "generate" => level = LevelOf(expand) /\ LevelOf(expand) # Panic

LEMMA Initially == Init => IInv
BY DEF Init, IInv, TypeOK, LevelIsPrefixTree

LEMMA ExtractExpansionsStep == IInv /\ ExtractExpansions => IInv'
<1> SUFFICES ASSUME IInv, ExtractExpansions PROVE IInv'
  OBVIOUS
<1> USE DEF ExtractExpansions
<1>1. /\ UNCHANGED <<schema, method, expand, plain>> /\ response = None
      /\ expand \in Expand \cup {None}
  BY DEF IInv, TypeOK
<1>2. CASE LevelOf(expand) = Panic
  <2>1. pc' = "done" /\ response' = Panic /\ level' = None
    BY <1>2
  <2>2. LevelOf(expand)' = Panic
    BY <1>1, <1>2
  <2>3. TypeOK'
    BY <2>1, <2>2, GeneratedAssumption DEF TypeOK
  <2> QED BY <1>1, <2>1, <2>3 DEF IInv, LevelIsPrefixTree
<1>3. CASE LevelOf(expand) # Panic
  <2>1. pc' = "generate" /\ level' = LevelOf(expand) /\ response' = response
    BY <1>3
  <2>2. TypeOK'
    BY <1>1, <2>1 DEF TypeOK
  <2>3. LevelIsPrefixTree'
    <3>1. Asked' = Asked /\ Candidates' = Candidates
      BY <1>1 DEF Asked, Candidates
    <3>2. level' # None => \A p \in Candidates : IsPrefixTreeAt(level', Asked, p)
      BY <1>1, <1>3, <2>1, LevelOfIsPrefixTree, CandidatesType
    <3> QED BY <3>1, <3>2 DEF LevelIsPrefixTree
  <2> QED BY <1>1, <1>3, <2>1, <2>2, <2>3 DEF IInv
<1> QED BY <1>2, <1>3

LEMMA GenerateStep == IInv /\ Generate => IInv'
<1> SUFFICES ASSUME IInv, Generate PROVE IInv'
  OBVIOUS
<1>1. /\ pc = "generate" /\ pc' = "done" /\ UNCHANGED <<schema, method, expand, level>>
      /\ response' \in Generated(schema, method, level)
  BY DEF Generate
<1>2. /\ schema \in Root /\ method \in Method /\ expand \in Expand \cup {None}
      /\ level = LevelOf(expand) /\ LevelOf(expand) # Panic
  BY <1>1 DEF IInv
<1>3. response' # None /\ response' \in Generated(schema, method, LevelOf(expand))
  BY <1>1, <1>2, GeneratedAssumption
<1>4. LevelOf(expand)' = LevelOf(expand)
  BY <1>1
<1>5. TypeOK'
  BY <1>1, <1>2, <1>3, <1>4 DEF TypeOK
<1>6. LevelIsPrefixTree'
  <2>1. Asked' = Asked /\ Candidates' = Candidates
    BY <1>1 DEF Asked, Candidates
  <2>2. level # None => \A p \in Candidates : IsPrefixTreeAt(level, Asked, p)
    BY <1>1 DEF IInv, LevelIsPrefixTree
  <2> QED BY <1>1, <2>1, <2>2 DEF LevelIsPrefixTree
<1> QED BY <1>1, <1>2, <1>4, <1>5, <1>6 DEF IInv

LEMMA AskAgainStep == IInv /\ AskAgain => IInv'
<1> SUFFICES ASSUME IInv, AskAgain PROVE IInv'
  OBVIOUS
<1>1. /\ pc = "done" /\ pc' = "extract" /\ response' = None /\ expand' \in Expand
      /\ UNCHANGED <<schema, method, level, plain>>
  BY DEF AskAgain
<1>2. TypeOK' /\ LevelIsPrefixTree'
  BY <1>1 DEF TypeOK, LevelIsPrefixTree
<1> QED BY <1>1, <1>2 DEF IInv

LEMMA UnchangedStep == IInv /\ UNCHANGED vars => IInv'
<1> SUFFICES ASSUME IInv, UNCHANGED vars PROVE IInv'
  OBVIOUS
<1>1. Asked' = Asked /\ Candidates' = Candidates
  BY DEF vars, Asked, Candidates
<1>2. LevelIsPrefixTree' /\ TypeOK'
  BY <1>1 DEF vars, IInv, LevelIsPrefixTree, TypeOK
<1> QED BY <1>2 DEF vars, IInv

LEMMA Invariance == Spec => []IInv
<1>1. Init => IInv
  BY Initially
<1>2. IInv /\ [Next]_vars => IInv'
  BY ExtractExpansionsStep, GenerateStep, AskAgainStep, UnchangedStep DEF Next
<1> QED BY <1>1, <1>2, PTL DEF Spec

(* server.go:751-779 of every parameter: the level of a request has a node *)
(* for each prefix of what the request asks for and for nothing else, with *)
(* the wildcards where they were written, and not those of an earlier one. *)
THEOREM LevelsArePrefixTrees == Spec => []LevelIsPrefixTree
<1>1. IInv => LevelIsPrefixTree
  BY DEF IInv
<1> QED BY <1>1, Invariance, PTL

(* server.go:347-360 of every generator and every `expand`: a response is  *)
(* one that is generated for the expansions of its own request, and never  *)
(* for those of an earlier one, nor for an `expand` that cannot be read.   *)
THEOREM TypeCorrect == Spec => []TypeOK
<1>1. IInv => TypeOK
  BY DEF IInv
<1> QED BY <1>1, Invariance, PTL
=============================================================================
