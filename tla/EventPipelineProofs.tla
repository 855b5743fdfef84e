------------------------- MODULE EventPipelineProofs -------------------------
(***************************************************************************)
(* Safety of the event pipeline, for any number of messages, workers, tasks *)
(* and faults: types, what the recorded progress and the acknowledgements   *)
(* cover, and that an event counts once.                                    *)
(***************************************************************************)
EXTENDS EventPipeline, SumTheorems, SequenceTheorems

-----------------------------------------------------------------------------
(* Sequences of messages.                                                    *)

\* A part of a sequence of messages is one.
LEMMA SubSeqType ==
  ASSUME NEW s \in Seq(Msgs), NEW m \in Nat \ {0}, NEW n \in Int, n <= Len(s)
  PROVE  /\ SubSeq(s, m, n) \in Seq(Msgs)
         /\ Len(SubSeq(s, m, n)) = IF m <= n THEN n - m + 1 ELSE 0
<1>1. Len(s) \in Nat
  BY LenProperties
<1>2. \A i \in m .. n : s[i] \in Msgs
  BY <1>1, ElementOfSeq
<1> QED
  BY <1>2, SubSeqProperties

\* The elements of a sequence of messages are messages.
LEMMA ToSetType == \A s \in Seq(Msgs) : ToSet(s) \subseteq Msgs
<1> SUFFICES ASSUME NEW s \in Seq(Msgs)
             PROVE  ToSet(s) \subseteq Msgs
  OBVIOUS
<1>1. DOMAIN s = 1 .. Len(s) /\ \A i \in 1 .. Len(s) : s[i] \in Msgs
  BY LenProperties, ElementOfSeq
<1> QED
  BY <1>1 DEF ToSet

\* A message alone is a sequence.
LEMMA OneMessage == \A m \in Msgs : <<m>> \in Seq(Msgs) /\ Len(<<m>>) = 1
OBVIOUS

\* The elements of a sequence, and of what sequences are cut and put together to.
LEMMA Elements ==
  ASSUME NEW s \in Seq(Msgs)
  PROVE  /\ ToSet(s) = {s[i] : i \in 1 .. Len(s)} /\ Len(s) \in Nat
         /\ \A x : x \in ToSet(s) <=> \E i \in 1 .. Len(s) : s[i] = x
<1>1. DOMAIN s = 1 .. Len(s) /\ Len(s) \in Nat
  BY LenProperties
<1> QED
  BY <1>1 DEF ToSet

\* The empty sequence has no elements,
LEMMA NoElements == ToSet(<<>>) = {}
<1> DEFINE s == <<>>
<1>1. s \in Seq(Msgs) /\ Len(s) = 0
  OBVIOUS
<1> HIDE DEF s
<1>2. \A x : x \in ToSet(s) <=> \E i \in 1 .. Len(s) : s[i] = x
  BY <1>1, Elements
<1>3. ToSet(s) = {}
  BY <1>1, <1>2
<1> QED
  BY <1>3 DEF s

\* ... a sequence of one has that one,
LEMMA OneElement == \A m \in Msgs : ToSet(<<m>>) = {m}
<1> SUFFICES ASSUME NEW m \in Msgs PROVE ToSet(<<m>>) = {m}
  OBVIOUS
<1> DEFINE s == <<m>>
<1>1. s \in Seq(Msgs) /\ Len(s) = 1 /\ s[1] = m
  OBVIOUS
<1> HIDE DEF s
<1>2. \A x : x \in ToSet(s) <=> \E i \in 1 .. Len(s) : s[i] = x
  BY <1>1, Elements
<1>3. ToSet(s) = {m}
  BY <1>1, <1>2
<1> QED
  BY <1>3 DEF s

\* ... and two in a row have those of both.
LEMMA ConcatElements ==
  ASSUME NEW s \in Seq(Msgs), NEW t \in Seq(Msgs)
  PROVE  ToSet(s \o t) = ToSet(s) \cup ToSet(t)
<1>1. /\ s \o t \in Seq(Msgs) /\ Len(s \o t) = Len(s) + Len(t)
      /\ \A i \in 1 .. Len(s) + Len(t) :
            (s \o t)[i] = IF i <= Len(s) THEN s[i] ELSE t[i - Len(s)]
  BY ConcatProperties
<1>2. Len(s) \in Nat /\ Len(t) \in Nat
  BY LenProperties
<1>3. ASSUME NEW x \in ToSet(s \o t) PROVE x \in ToSet(s) \cup ToSet(t)
  <2>1. PICK i \in 1 .. Len(s) + Len(t) : (s \o t)[i] = x
    BY <1>1, Elements
  <2>2. CASE i <= Len(s)
    BY <1>1, <1>2, <2>1, <2>2, Elements
  <2>3. CASE ~(i <= Len(s))
    <3>1. i - Len(s) \in 1 .. Len(t) /\ t[i - Len(s)] = x
      BY <1>1, <1>2, <2>1, <2>3
    <3> QED
      BY <3>1, Elements
  <2> QED
    BY <2>2, <2>3
<1>4. ASSUME NEW x \in ToSet(s) PROVE x \in ToSet(s \o t)
  <2>1. PICK i \in 1 .. Len(s) : s[i] = x
    BY Elements
  <2>2. i \in 1 .. Len(s) + Len(t) /\ (s \o t)[i] = x
    BY <1>1, <1>2, <2>1
  <2> QED
    BY <1>1, <2>2, Elements
<1>5. ASSUME NEW x \in ToSet(t) PROVE x \in ToSet(s \o t)
  <2>1. PICK i \in 1 .. Len(t) : t[i] = x
    BY Elements
  <2>2. Len(s) + i \in 1 .. Len(s) + Len(t) /\ (s \o t)[Len(s) + i] = x
    <3>1. Len(s) + i \in 1 .. Len(s) + Len(t) /\ ~(Len(s) + i <= Len(s)) /\ Len(s) + i - Len(s) = i
      BY <1>2
    <3> QED
      BY <1>1, <2>1, <3>1
  <2> QED
    BY <1>1, <2>2, Elements
<1> QED
  BY <1>3, <1>4, <1>5

\* The two parts of a sequence that is cut after n elements.
LEMMA CutAt ==
  ASSUME NEW s \in Seq(Msgs), NEW n \in Nat, n <= Len(s)
  PROVE  /\ SubSeq(s, 1, n) \in Seq(Msgs) /\ Len(SubSeq(s, 1, n)) = n
         /\ SubSeq(s, n + 1, Len(s)) \in Seq(Msgs) /\ Len(SubSeq(s, n + 1, Len(s))) = Len(s) - n
         /\ \A i \in 1 .. n : SubSeq(s, 1, n)[i] = s[i]
         /\ \A i \in 1 .. Len(s) - n : SubSeq(s, n + 1, Len(s))[i] = s[n + i]
<1>0. Len(s) \in Nat
  BY LenProperties
<1> DEFINE a == SubSeq(s, 1, n)
           b == SubSeq(s, n + 1, Len(s))
<1>1. /\ a \in Seq(Msgs) /\ Len(a) = n
      /\ b \in Seq(Msgs) /\ Len(b) = Len(s) - n
  BY <1>0, SubSeqType
<1>2. /\ \A i \in 1 .. n : a[i] = s[i]
      /\ \A i \in 1 .. Len(s) - n : b[i] = s[n + i]
  <2>1. \A i \in 1 .. Len(s) : s[i] \in Msgs
    BY ElementOfSeq
  <2>2. /\ \A i \in 1 .. n : s[i] \in Msgs
        /\ \A i \in n + 1 .. Len(s) : s[i] \in Msgs
    BY <1>0, <2>1
  <2>3. \A i \in 1 .. Len(a) : a[i] = s[1 + i - 1]
    BY <1>0, <2>2, SubSeqProperties
  <2>4. \A i \in 1 .. Len(b) : b[i] = s[(n + 1) + i - 1]
    BY <1>0, <2>2, SubSeqProperties
  <2>5. \A i \in Int : 1 + i - 1 = i /\ (n + 1) + i - 1 = n + i
    OBVIOUS
  <2>6. \A i \in 1 .. n : i \in Int
    OBVIOUS
  <2>7. \A i \in 1 .. Len(s) - n : i \in Int
    BY <1>0
  <2> HIDE DEF a, b
  <2> QED
    BY <1>1, <2>3, <2>4, <2>5, <2>6, <2>7
<1> QED
  BY <1>1, <1>2

\* Together the parts have the elements of the whole.
LEMMA CutElements ==
  ASSUME NEW s \in Seq(Msgs), NEW n \in Nat, n <= Len(s)
  PROVE  /\ SubSeq(s, 1, n) \in Seq(Msgs) /\ SubSeq(s, n + 1, Len(s)) \in Seq(Msgs)
         /\ ToSet(s) = ToSet(SubSeq(s, 1, n)) \cup ToSet(SubSeq(s, n + 1, Len(s)))
         /\ n = Len(s) => ToSet(SubSeq(s, 1, n)) = ToSet(s)
         /\ ToSet(SubSeq(s, n + 1, Len(s))) = {s[i] : i \in n + 1 .. Len(s)}
<1>0. Len(s) \in Nat
  BY LenProperties
<1> DEFINE a == SubSeq(s, 1, n)
           b == SubSeq(s, n + 1, Len(s))
<1>1. /\ a \in Seq(Msgs) /\ Len(a) = n
      /\ b \in Seq(Msgs) /\ Len(b) = Len(s) - n
  BY CutAt
<1>2. /\ \A i \in 1 .. n : a[i] = s[i]
      /\ \A i \in 1 .. Len(s) - n : b[i] = s[n + i]
  BY CutAt
<1> HIDE DEF a, b
<1>3. ToSet(a) = {s[i] : i \in 1 .. n}
  BY <1>1, <1>2, Elements
<1>4. ToSet(b) = {s[i] : i \in n + 1 .. Len(s)}
  <2>1. ASSUME NEW x \in ToSet(b) PROVE x \in {s[i] : i \in n + 1 .. Len(s)}
    <3>1. PICK i \in 1 .. Len(s) - n : b[i] = x
      BY <1>1, Elements
    <3>2. n + i \in n + 1 .. Len(s) /\ s[n + i] = x
      BY <1>0, <1>2, <3>1
    <3> QED
      BY <3>2
  <2>2. ASSUME NEW i \in n + 1 .. Len(s) PROVE s[i] \in ToSet(b)
    <3>1. i - n \in 1 .. Len(s) - n /\ n + (i - n) = i
      BY <1>0
    <3>2. b[i - n] = s[i]
      BY <1>2, <3>1
    <3> QED
      BY <1>1, <3>1, <3>2, Elements
  <2> QED
    BY <2>1, <2>2
<1>5. ToSet(s) = {s[i] : i \in 1 .. n} \cup {s[i] : i \in n + 1 .. Len(s)}
  <2>1. \A i \in 1 .. Len(s) : i \in 1 .. n \/ i \in n + 1 .. Len(s)
    BY <1>0
  <2>2. \A i \in (1 .. n) \cup (n + 1 .. Len(s)) : i \in 1 .. Len(s)
    BY <1>0
  <2> QED
    BY <2>1, <2>2, Elements
<1>6. n = Len(s) => {s[i] : i \in n + 1 .. Len(s)} = {}
  BY <1>0
<1> QED
  BY <1>1, <1>3, <1>4, <1>5, <1>6 DEF a, b

\* Append adds one element.
LEMMA AppendElements ==
  ASSUME NEW s \in Seq(Msgs), NEW m \in Msgs
  PROVE  ToSet(Append(s, m)) = ToSet(s) \cup {m}
<1>1. Append(s, m) = s \o <<m>> /\ <<m>> \in Seq(Msgs)
  OBVIOUS
<1> QED
  BY <1>1, ConcatElements, OneElement

\* The broker has a message if its log contains it.
LEMMA CopiesMeans ==
  ASSUME log \in Seq(Msgs), NEW m
  PROVE  Copies(m) \in Nat /\ (Copies(m) > 0 <=> m \in ToSet(log))
<1> DEFINE places == {i \in DOMAIN log : log[i] = m}
<1>1. DOMAIN log = 1 .. Len(log) /\ Len(log) \in Nat
  BY LenProperties
<1>2. IsFiniteSet(places)
  <2>1. places \subseteq 1 .. Len(log)
    BY <1>1
  <2>2. IsFiniteSet(1 .. Len(log))
    BY <1>1, FS_Interval
  <2> HIDE DEF places
  <2> QED
    BY <2>1, <2>2, FS_Subset
<1>3. Cardinality(places) \in Nat /\ (Cardinality(places) = 0 <=> places = {})
  BY <1>2, FS_CardinalityType, FS_EmptySet
<1>4. places # {} <=> m \in ToSet(log)
  BY <1>1, Elements
<1> HIDE DEF places
<1>5. Cardinality(places) > 0 <=> m \in ToSet(log)
  BY <1>3, <1>4
<1> QED
  BY <1>3, <1>5 DEF Copies, places

\* Sequences without a repetition.
LEMMA OnceInSeq ==
  ASSUME NEW s \in Seq(Msgs)
  PROVE  IsInjective(s) <=> \A i, j \in 1 .. Len(s) : s[i] = s[j] => i = j
<1>1. DOMAIN s = 1 .. Len(s)
  BY LenProperties
<1> QED
  BY <1>1 DEF IsInjective

\* The empty sequence repeats nothing,
LEMMA EmptyIsOnce == IsInjective(<<>>)
BY DEF IsInjective

\* ... nor does a sequence of one,
LEMMA OneIsOnce == \A m : IsInjective(<<m>>)
BY DEF IsInjective

\* ... nor do two that share nothing,
LEMMA ConcatIsOnce ==
  ASSUME NEW s \in Seq(Msgs), NEW t \in Seq(Msgs), IsInjective(s), IsInjective(t),
         ToSet(s) \cap ToSet(t) = {}
  PROVE  IsInjective(s \o t)
<1>1. /\ s \o t \in Seq(Msgs) /\ Len(s \o t) = Len(s) + Len(t)
      /\ \A i \in 1 .. Len(s) + Len(t) :
            (s \o t)[i] = IF i <= Len(s) THEN s[i] ELSE t[i - Len(s)]
  BY ConcatProperties
<1>2. Len(s) \in Nat /\ Len(t) \in Nat
  BY LenProperties
<1>3. /\ \A i, j \in 1 .. Len(s) : s[i] = s[j] => i = j
      /\ \A i, j \in 1 .. Len(t) : t[i] = t[j] => i = j
      /\ \A i \in 1 .. Len(s), j \in 1 .. Len(t) : s[i] # t[j]
  BY OnceInSeq, Elements
<1> DEFINE u == s \o t
<1> HIDE DEF u
<1>4. ASSUME NEW i \in 1 .. Len(s) + Len(t), NEW j \in 1 .. Len(s) + Len(t), u[i] = u[j]
      PROVE  i = j
  <2>1. \A k \in 1 .. Len(s) + Len(t) :
           /\ k <= Len(s) => k \in 1 .. Len(s) /\ u[k] = s[k]
           /\ ~(k <= Len(s)) => k - Len(s) \in 1 .. Len(t) /\ u[k] = t[k - Len(s)]
    BY <1>1, <1>2 DEF u
  <2>2. CASE i <= Len(s) /\ j <= Len(s)
    BY <1>3, <1>4, <2>1, <2>2
  <2>3. CASE ~(i <= Len(s)) /\ ~(j <= Len(s))
    <3>1. i - Len(s) = j - Len(s)
      BY <1>3, <1>4, <2>1, <2>3
    <3> QED
      BY <1>2, <3>1
  <2>4. CASE i <= Len(s) /\ ~(j <= Len(s))
    BY <1>3, <1>4, <2>1, <2>4
  <2>5. CASE ~(i <= Len(s)) /\ j <= Len(s)
    BY <1>3, <1>4, <2>1, <2>5
  <2> QED
    BY <2>2, <2>3, <2>4, <2>5
<1>5. u \in Seq(Msgs) /\ Len(u) = Len(s) + Len(t)
  BY <1>1 DEF u
<1>6. IsInjective(u)
  BY <1>4, <1>5, OnceInSeq
<1> QED
  BY <1>6 DEF u

\* ... nor do the parts of one that does not, and these share nothing.
LEMMA CutIsOnce ==
  ASSUME NEW s \in Seq(Msgs), IsInjective(s), NEW n \in Nat, n <= Len(s)
  PROVE  /\ IsInjective(SubSeq(s, 1, n)) /\ IsInjective(SubSeq(s, n + 1, Len(s)))
         /\ ToSet(SubSeq(s, 1, n)) \cap ToSet(SubSeq(s, n + 1, Len(s))) = {}
<1> DEFINE a == SubSeq(s, 1, n)
           b == SubSeq(s, n + 1, Len(s))
<1>1. /\ a \in Seq(Msgs) /\ Len(a) = n /\ b \in Seq(Msgs) /\ Len(b) = Len(s) - n
      /\ \A i \in 1 .. n : a[i] = s[i]
      /\ \A i \in 1 .. Len(s) - n : b[i] = s[n + i]
  BY CutAt
<1> HIDE DEF a, b
<1>2. Len(s) \in Nat /\ \A i, j \in 1 .. Len(s) : s[i] = s[j] => i = j
  BY LenProperties, OnceInSeq
<1>3. /\ \A i \in 1 .. n : i \in 1 .. Len(s)
      /\ \A i \in 1 .. Len(s) - n : n + i \in 1 .. Len(s)
      /\ \A i, j \in 1 .. Len(s) - n : n + i = n + j => i = j
      /\ \A i \in 1 .. n, j \in 1 .. Len(s) - n : i # n + j
  BY <1>2
<1>4. \A i, j \in 1 .. n : a[i] = a[j] => i = j
  BY <1>1, <1>2, <1>3
<1>5. \A i, j \in 1 .. Len(s) - n : b[i] = b[j] => i = j
  BY <1>1, <1>2, <1>3
<1>6. \A i \in 1 .. n, j \in 1 .. Len(s) - n : a[i] # b[j]
  BY <1>1, <1>2, <1>3
<1>7. IsInjective(a) /\ IsInjective(b)
  BY <1>1, <1>4, <1>5, OnceInSeq
<1>8. ToSet(a) \cap ToSet(b) = {}
  BY <1>1, <1>6, Elements
<1> QED
  BY <1>7, <1>8 DEF a, b

\* The rest of a sequence from a position on.
LEMMA RestSplits ==
  ASSUME NEW s \in Seq(Msgs), NEW from \in Nat \ {0}, from <= Len(s)
  PROVE  /\ SubSeq(s, from, Len(s)) \in Seq(Msgs) /\ SubSeq(s, from + 1, Len(s)) \in Seq(Msgs)
         /\ SubSeq(s, from, Len(s)) = <<s[from]>> \o SubSeq(s, from + 1, Len(s))
OBVIOUS

\* Taking the first line off a rest without repetition.
LEMMA RestIsOnce ==
  ASSUME NEW s \in Seq(Msgs), NEW from \in Nat \ {0}, from <= Len(s), IsInjective(SubSeq(s, from, Len(s)))
  PROVE  /\ IsInjective(SubSeq(s, from + 1, Len(s))) /\ s[from] \notin ToSet(SubSeq(s, from + 1, Len(s)))
         /\ ToSet(SubSeq(s, from, Len(s))) = {s[from]} \cup ToSet(SubSeq(s, from + 1, Len(s)))
<1> DEFINE a == SubSeq(s, from, Len(s))
           b == SubSeq(s, from + 1, Len(s))
           x == s[from]
<1>1. a \in Seq(Msgs) /\ b \in Seq(Msgs) /\ a = <<x>> \o b
  BY RestSplits
<1>2. x \in Msgs /\ Len(b) \in Nat
  <2>1. \A i \in 1 .. Len(s) : s[i] \in Msgs
    BY ElementOfSeq
  <2>2. from \in 1 .. Len(s)
    BY LenProperties
  <2> QED
    BY <1>1, <2>1, <2>2, LenProperties
<1>3. IsInjective(a)
  OBVIOUS
<1> HIDE DEF a, b, x
<1>4. Len(a) = Len(b) + 1 /\ a[1] = x /\ \A i \in 1 .. Len(b) : a[i + 1] = b[i]
  <2>1. <<x>> \in Seq(Msgs) /\ Len(<<x>>) = 1 /\ <<x>>[1] = x
    BY <1>2
  <2>2. /\ Len(<<x>> \o b) = 1 + Len(b)
        /\ \A i \in 1 .. 1 + Len(b) : (<<x>> \o b)[i] = IF i <= 1 THEN <<x>>[i] ELSE b[i - 1]
    BY <1>1, <2>1, ConcatProperties
  <2>3. \A i \in 1 .. Len(b) : i + 1 \in 1 .. 1 + Len(b) /\ ~(i + 1 <= 1) /\ (i + 1) - 1 = i
    BY <1>2
  <2>4. 1 \in 1 .. 1 + Len(b) /\ 1 <= 1 /\ Len(b) + 1 = 1 + Len(b)
    BY <1>2
  <2> QED
    BY <1>1, <2>1, <2>2, <2>3, <2>4
<1>5. \A i, j \in 1 .. Len(b) + 1 : a[i] = a[j] => i = j
  BY <1>1, <1>3, <1>4, OnceInSeq
<1>6. /\ \A i \in 1 .. Len(b) : i + 1 \in 1 .. Len(b) + 1 /\ i + 1 # 1
      /\ \A i, j \in 1 .. Len(b) : i + 1 = j + 1 => i = j
      /\ 1 \in 1 .. Len(b) + 1
  BY <1>2
<1>7. IsInjective(b)
  <2>1. \A i, j \in 1 .. Len(b) : b[i] = b[j] => i = j
    BY <1>4, <1>5, <1>6
  <2> QED
    BY <1>1, <2>1, OnceInSeq
<1>8. x \notin ToSet(b)
  BY <1>1, <1>4, <1>5, <1>6, Elements
<1>9. ToSet(a) = {x} \cup ToSet(b)
  <2>1. <<x>> \in Seq(Msgs) /\ ToSet(<<x>>) = {x}
    BY <1>2, OneMessage, OneElement
  <2>2. ToSet(<<x>> \o b) = ToSet(<<x>>) \cup ToSet(b)
    BY <1>1, <2>1, ConcatElements
  <2> QED
    BY <1>1, <2>1, <2>2
<1> QED
  BY <1>7, <1>8, <1>9 DEF a, b, x

\* A log without repetition has a message once or not at all.
LEMMA OnceCopies ==
  ASSUME log \in Seq(Msgs), IsInjective(log), NEW m
  PROVE  Copies(m) \in {0, 1}
<1> DEFINE places == {i \in DOMAIN log : log[i] = m}
<1>1. CASE places = {}
  BY <1>1, FS_EmptySet DEF Copies
<1>2. ASSUME NEW j \in places PROVE Cardinality(places) = 1
  <2>1. places = {j}
    BY DEF IsInjective
  <2> HIDE DEF places
  <2> QED
    BY <2>1, FS_Singleton
<1> QED
  BY <1>1, <1>2 DEF Copies

-----------------------------------------------------------------------------
(* The producer: types.                                                      *)

Gens == {"closed", "open", "half"}
WorkerStates == [at : {"take", "sending", "backoff", "giveup"}, gen : Gens, batch : Seq(Msgs),
                 loop : {"main", "drain", "stopped"}, drained : Nat]
PBreakerStates == [state : Gens, fails : 0 .. TripAfter - 1, probes : 0 .. ProbeMax, good : 0 .. ProbeMax - 1]
ReplayPlaces == {"idle", "recover", "recovered", "rename", "line", "sending", "writeback", "remove"}
Replays == [at : ReplayPlaces, pos : Nat \ {0}, gen : Gens, failed : Seq(Msgs)]

\* The line that is being relayed is a line of the snapshot.
ProducerInv ==
    /\ ProducerTypeOK
    /\ Len(log) <= MaxLog
    /\ replay \in Replays
    /\ replay.at = "sending" => replay.pos <= Len(snap)

\* The state in the order the lemmas need it.
LogOK == log \in Seq(Msgs) /\ Len(log) <= MaxLog
FilesOK == dlq \in Seq(Msgs) /\ lost \subseteq Msgs /\ faults \in 0 .. MaxFaults
CallOK == LogOK /\ FilesOK /\ breaker \in PBreakerStates /\ late \in BOOLEAN
MemoryOK ==
    /\ queue \in Seq(Msgs) /\ Len(queue) <= QueueSize
    /\ worker \in [Workers -> WorkerStates]
    /\ over \in [Msgs -> {"none", "spawned", "closed", "half"}]
SideOK ==
    /\ kind \in Kinds /\ reachable \in BOOLEAN
    /\ life \in {"absent", "up", "closing", "gone"} /\ link \in {"up", "cut", "none"}
    /\ sent \in [Msgs -> {"never", "no", "intime", "afterClose", "toNop"}]
ReplayOK ==
    /\ snap \in Seq(Msgs) /\ replay \in Replays
    /\ replay.at = "sending" => replay.pos <= Len(snap)

\* The producer's types, part by part.
LEMMA ProducerParts == ProducerInv <=> CallOK /\ MemoryOK /\ SideOK /\ ReplayOK
<1>1. ProducerInv => CallOK /\ MemoryOK /\ SideOK /\ ReplayOK
  BY DEF ProducerInv, ProducerTypeOK, BrokerTypeOK, CallOK, LogOK, FilesOK, MemoryOK, SideOK, ReplayOK,
         PBreakerStates, WorkerStates, Gens
<1>2. CallOK /\ MemoryOK /\ SideOK /\ ReplayOK => ProducerInv
  <2>1. replay \in Replays => replay.at \in ReplayPlaces /\ replay.failed \in Seq(Msgs)
    BY DEF Replays
  <2> QED
    BY <2>1 DEF ProducerInv, ProducerTypeOK, BrokerTypeOK, CallOK, LogOK, FilesOK, MemoryOK, SideOK, ReplayOK,
           PBreakerStates, WorkerStates, Gens, ReplayPlaces
<1> QED
  BY <1>1, <1>2

\* The parts make up the types of the next state.
LEMMA ProducerPartsNext == CallOK' /\ MemoryOK' /\ SideOK' /\ ReplayOK' => ProducerInv'
BY ProducerParts, PTL

\* What a step of the producer does to the rest of the pipeline.
BrokerGrows ==
    /\ UNCHANGED kind /\ harm \subseteq harm'
    /\ log' \in Seq(Msgs) /\ Len(log) <= Len(log') /\ Len(log') <= MaxLog
    /\ \A i \in 1 .. Len(log) : log'[i] = log[i]

\* What becomes of the producer's breaker is a breaker.
LEMMA BreakerTypes ==
  ASSUME breaker \in PBreakerStates
  PROVE  /\ Closed \in PBreakerStates /\ Open \in PBreakerStates /\ HalfOpen \in PBreakerStates
         /\ BreakerAdmits => BreakerAdmitted \in PBreakerStates
         /\ \A gen \in Gens, ok \in BOOLEAN : BreakerAfter(gen, ok) \in PBreakerStates
<1>1. Closed \in PBreakerStates /\ Open \in PBreakerStates /\ HalfOpen \in PBreakerStates
  BY ProducerAssumption DEF Closed, Open, HalfOpen, PBreakerStates, Gens
<1>2. BreakerAdmits => BreakerAdmitted \in PBreakerStates
  BY ProducerAssumption DEF BreakerAdmits, BreakerAdmitted, PBreakerStates, Gens
<1>3. ASSUME NEW gen \in Gens, NEW ok \in BOOLEAN
      PROVE  BreakerAfter(gen, ok) \in PBreakerStates
  <2>1. [breaker EXCEPT !.fails = 0] \in PBreakerStates
    BY ProducerAssumption DEF PBreakerStates
  <2>2. breaker.fails + 1 < TripAfter => [breaker EXCEPT !.fails = @ + 1] \in PBreakerStates
    BY ProducerAssumption DEF PBreakerStates
  <2>3. breaker.good + 1 < ProbeMax => [breaker EXCEPT !.good = @ + 1] \in PBreakerStates
    BY ProducerAssumption DEF PBreakerStates
  <2>4. /\ ~ (breaker.fails + 1 >= TripAfter) => breaker.fails + 1 < TripAfter
        /\ ~ (breaker.good + 1 >= ProbeMax) => breaker.good + 1 < ProbeMax
    BY ProducerAssumption DEF PBreakerStates
  <2> QED
    BY <1>1, <2>1, <2>2, <2>3, <2>4 DEF BreakerAfter
<1> QED
  BY <1>1, <1>2, <1>3

\* The ways to write to the dead-letter file, and not to write to it.
LEMMA DlqTypes ==
  ASSUME FilesOK, NEW ms \in Seq(Msgs)
  PROVE  /\ DlqLinesAdded(ms) => dlq' \in Seq(Msgs) /\ lost' \subseteq Msgs
         /\ DlqAppend(ms) => FilesOK' /\ harm \subseteq harm'
         /\ NoDlq => FilesOK' /\ harm \subseteq harm'
<1>1. Len(ms) \in Nat /\ Len(dlq) \in Nat /\ DlqLines \in Nat
  BY LenProperties, ProducerAssumption DEF FilesOK
<1>2. DlqRoom(ms) \in Nat /\ DlqRoom(ms) <= Len(ms)
  BY <1>1 DEF DlqRoom
<1>3. SubSeq(ms, 1, DlqRoom(ms)) \in Seq(Msgs) /\ SubSeq(ms, DlqRoom(ms) + 1, Len(ms)) \in Seq(Msgs)
  BY <1>1, <1>2, SubSeqType
<1>4. DlqLinesAdded(ms) => dlq' \in Seq(Msgs) /\ lost' \subseteq Msgs
  BY <1>3, ConcatProperties, ToSetType DEF DlqLinesAdded, FilesOK
<1>5. DlqAppend(ms) => FilesOK' /\ harm \subseteq harm'
  <2>1. ToSet(ms) \subseteq Msgs
    BY ToSetType
  <2> QED
    BY <1>4, <2>1, FaultAssumption DEF DlqAppend, FilesOK, Harm
<1>6. NoDlq => FilesOK' /\ harm \subseteq harm'
  BY DEF NoDlq, FilesOK, faultVars
<1> QED
  BY <1>4, <1>5, <1>6

\* The broker stores messages within its bound, or nothing.
LEMMA AcceptTypes ==
  ASSUME LogOK, NEW ms \in Seq(Msgs), UNCHANGED kind, harm \subseteq harm',
         UNCHANGED log \/ (Accept(ms) /\ Len(log) + Len(ms) <= MaxLog)
  PROVE  LogOK' /\ BrokerGrows
<1>1. Len(ms) \in Nat /\ Len(log) \in Nat
  BY LenProperties DEF LogOK
<1>2. CASE UNCHANGED log
  BY <1>1, <1>2 DEF LogOK, BrokerGrows
<1>3. CASE Accept(ms) /\ Len(log) + Len(ms) <= MaxLog
  <2>1. log' \in Seq(Msgs) /\ Len(log') = Len(log) + Len(ms)
    BY <1>3, ConcatProperties DEF Accept, LogOK
  <2>2. \A i \in 1 .. Len(log) : log'[i] = log[i]
    BY <1>1, <1>3, ConcatProperties DEF Accept, LogOK
  <2> QED
    BY <1>1, <1>3, <2>1, <2>2 DEF LogOK, BrokerGrows
<1> QED
  BY <1>2, <1>3

\* The answer to a publication: types of what it may change.
LEMMA PublishedTypes ==
  ASSUME CallOK, NEW ms \in Seq(Msgs), NEW gen \in Gens, Published(ms, gen), UNCHANGED kind
  PROVE  CallOK' /\ BrokerGrows
<1>1. BreakerAfter(gen, TRUE) \in PBreakerStates /\ BreakerAfter(gen, FALSE) \in PBreakerStates
  BY BreakerTypes DEF CallOK
<1>2. breaker' \in PBreakerStates /\ late' \in BOOLEAN
  BY <1>1 DEF Published, Confirmed, Unstored, Unconfirmed, MistakenlyConfirmed, CallOK
<1>3. FilesOK' /\ harm \subseteq harm'
  <2>1. CASE Confirmed(ms, gen)
    BY <2>1, DlqTypes DEF Confirmed, CallOK
  <2>2. CASE Unstored(ms, gen)
    BY <2>2, DlqTypes DEF Unstored, CallOK
  <2>3. CASE Unconfirmed(ms, gen)
    BY <2>3, DlqTypes, FaultAssumption DEF Unconfirmed, CallOK, FilesOK, Harm
  <2>4. CASE MistakenlyConfirmed(ms, gen)
    BY <2>4, ToSetType DEF MistakenlyConfirmed, CallOK, FilesOK, faultVars
  <2> QED
    BY <2>1, <2>2, <2>3, <2>4 DEF Published
<1>4. UNCHANGED log \/ (Accept(ms) /\ Len(log) + Len(ms) <= MaxLog)
  BY DEF Published, Confirmed, Unstored, Unconfirmed, MistakenlyConfirmed
<1> QED
  BY <1>2, <1>3, <1>4, AcceptTypes DEF CallOK

\* Steps without the broker.
LEMMA LogStays ==
  ASSUME LogOK, UNCHANGED <<kind, log>>, harm \subseteq harm'
  PROVE  LogOK' /\ BrokerGrows
<1>1. Len(log) \in Nat
  BY LenProperties DEF LogOK
<1> QED
  BY <1>1 DEF LogOK, BrokerGrows

\* Send of the buffered producers: queue, overflow goroutine or file.
LEMMA SendTypes ==
  ASSUME ProducerInv, NEW m \in Msgs, Send(m)
  PROVE  ProducerInv' /\ BrokerGrows
<1>1. CallOK /\ MemoryOK /\ SideOK /\ ReplayOK /\ LogOK /\ FilesOK
  BY ProducerParts DEF CallOK
<1>2. /\ UNCHANGED <<kind, reachable, life, link, worker, breaker, snap, replay, late>>
      /\ Sent(m)
  BY DEF Send
<1>3. SideOK' /\ ReplayOK' /\ breaker' \in PBreakerStates /\ late' \in BOOLEAN
  BY <1>1, <1>2 DEF SideOK, ReplayOK, CallOK, Sent
<1>4. CASE HasBuffer
  <2>1. SendBuffered(m) /\ UNCHANGED log
    BY <1>4 DEF Send
  <2>2. FilesOK' /\ harm \subseteq harm'
    BY <1>1, <2>1, DlqTypes, OneMessage DEF SendBuffered
  <2>3. over' \in [Msgs -> {"none", "spawned", "closed", "half"}]
    BY <1>1, <2>1 DEF SendBuffered, MemoryOK
  <2>4. queue' \in Seq(Msgs) /\ Len(queue') <= QueueSize
    <3>1. Len(queue) \in Nat /\ QueueSize \in Nat
      BY <1>1, LenProperties, ProducerAssumption DEF MemoryOK
    <3>2. Append(queue, m) \in Seq(Msgs) /\ Len(Append(queue, m)) = Len(queue) + 1
      BY <1>1, AppendProperties DEF MemoryOK
    <3>3. queue \in Seq(Msgs) /\ Len(queue) <= QueueSize
      BY <1>1 DEF MemoryOK
    <3>4. (queue' = Append(queue, m) /\ Len(queue) < QueueSize) \/ queue' = queue
      BY <2>1 DEF SendBuffered
    <3> QED
      BY <3>1, <3>2, <3>3, <3>4
  <2>5. LogOK' /\ BrokerGrows
    BY <1>1, <1>2, <2>1, <2>2, LogStays
  <2>6. CallOK' /\ MemoryOK'
    BY <1>1, <1>2, <1>3, <2>2, <2>3, <2>4, <2>5 DEF CallOK, MemoryOK
  <2> QED
    BY <1>3, <2>5, <2>6, ProducerPartsNext
<1>5. CASE ~ HasBuffer
  <2>1. SendUnbuffered(m)
    BY <1>5 DEF Send
  <2>2. MemoryOK' /\ UNCHANGED harm
    BY <1>1, <1>2, <2>1 DEF SendUnbuffered, MemoryOK, faultVars
  <2>3. FilesOK'
    BY <1>1, <2>1 DEF SendUnbuffered, PublishInMemory, Dropped, FilesOK, faultVars
  <2>4. UNCHANGED log \/ (Accept(<<m>>) /\ Len(log) < MaxLog)
    BY <2>1 DEF SendUnbuffered, PublishInMemory, Dropped
  <2>5. LogOK' /\ BrokerGrows
    <3>1. Len(log) \in Nat /\ MaxLog \in Nat
      BY <1>1, LenProperties, BrokerAssumption DEF LogOK
    <3> QED
      <4>1. <<m>> \in Seq(Msgs) /\ (UNCHANGED log \/ (Accept(<<m>>) /\ Len(log) + Len(<<m>>) <= MaxLog))
        BY <2>4, <3>1, OneMessage
      <4> QED
        BY <1>1, <1>2, <2>2, <4>1, AcceptTypes
  <2>6. CallOK'
    BY <1>3, <2>3, <2>5 DEF CallOK
  <2> QED
    BY <1>3, <2>2, <2>5, <2>6, ProducerPartsNext
<1> QED
  BY <1>4, <1>5

\* Send of the producers without a buffer.
LEMMA SendSyncTypes ==
  ASSUME ProducerInv, NEW m \in Msgs, SendSync(m)
  PROVE  ProducerInv' /\ BrokerGrows
<1>1. CallOK /\ MemoryOK /\ SideOK /\ ReplayOK /\ LogOK /\ FilesOK
  BY ProducerParts DEF CallOK
<1>2. /\ UNCHANGED <<kind, reachable, life, link, queue, worker, over, dlq, snap, replay>>
      /\ BreakerAdmits
      /\ (SyncPublished(m) \/ SyncFailed(m))
  BY DEF SendSync, files
<1>3. MemoryOK' /\ ReplayOK'
  BY <1>1, <1>2 DEF MemoryOK, ReplayOK
<1>4. SideOK' /\ late' \in BOOLEAN
  BY <1>1, <1>2 DEF SideOK, CallOK, SyncPublished, SyncFailed, Sent
<1>5. FilesOK' /\ harm \subseteq harm'
  <2>1. CASE SyncPublished(m)
    <3>1. (UNCHANGED lost \/ lost' = lost \cup {m}) /\ UNCHANGED <<faults, harm>>
      BY <2>1 DEF SyncPublished, faultVars
    <3> QED
      BY <1>1, <1>2, <3>1 DEF FilesOK
  <2>2. CASE SyncFailed(m)
    <3>1. UNCHANGED lost /\ (UNCHANGED <<faults, harm>> \/ Harm("reply"))
      BY <2>2 DEF SyncFailed, faultVars
    <3> QED
      BY <1>1, <1>2, <3>1, FaultAssumption DEF FilesOK, Harm
  <2> QED
    BY <1>2, <2>1, <2>2
<1>6. ASSUME NEW ok \in BOOLEAN, BreakerExecuted(ok)
      PROVE  breaker' \in PBreakerStates
  <2>1. breaker \in PBreakerStates /\ breaker.state \in Gens
    BY <1>1 DEF CallOK, PBreakerStates
  <2>2. BreakerAfter(breaker.state, ok) \in PBreakerStates
    BY <2>1, BreakerTypes
  <2>3. CASE BreakerAfter(breaker.state, ok).state # "half"
    BY <1>6, <2>2, <2>3 DEF BreakerExecuted
  <2>4. CASE BreakerAfter(breaker.state, ok).state = "half"
    <3>1. breaker.state = "half" /\ BreakerAfter(breaker.state, ok) = [breaker EXCEPT !.good = @ + 1]
      BY <1>2, <2>1, <2>4 DEF BreakerAfter, BreakerAdmits, Open, Closed, Gens, PBreakerStates
    <3>2. breaker.probes < ProbeMax /\ BreakerAfter(breaker.state, ok).probes = breaker.probes
      BY <1>2, <2>1, <3>1 DEF BreakerAdmits, PBreakerStates
    <3>3. breaker' = [BreakerAfter(breaker.state, ok) EXCEPT !.probes = @ + 1]
      BY <1>6, <2>4 DEF BreakerExecuted
    <3> QED
      BY <2>2, <3>2, <3>3, ProducerAssumption DEF PBreakerStates
  <2> QED
    BY <2>3, <2>4
<1>7. breaker' \in PBreakerStates
  BY <1>2, <1>6 DEF SyncPublished, SyncFailed
<1>8. LogOK' /\ BrokerGrows
  <2>1. Len(log) \in Nat /\ MaxLog \in Nat
    BY <1>1, LenProperties, BrokerAssumption DEF LogOK
  <2>2. UNCHANGED log \/ (Accept(<<m>>) /\ Len(log) < MaxLog)
    BY <1>2 DEF SyncPublished, SyncFailed
  <2> QED
    <3>1. <<m>> \in Seq(Msgs) /\ (UNCHANGED log \/ (Accept(<<m>>) /\ Len(log) + Len(<<m>>) <= MaxLog))
      BY <2>1, <2>2, OneMessage
    <3> QED
      BY <1>1, <1>2, <1>5, <3>1, AcceptTypes
<1>9. CallOK'
  BY <1>4, <1>5, <1>7, <1>8 DEF CallOK
<1> QED
  BY <1>3, <1>4, <1>8, <1>9, ProducerPartsNext

\* A worker's next state, whatever it does with what it took.
LEMMA WorkerTypes ==
  ASSUME worker \in [Workers -> WorkerStates], NEW w \in Workers, breaker \in PBreakerStates
  PROVE  /\ \A at \in {"sending", "backoff"}, ms \in Seq(Msgs) :
              Hold(w, at, ms) => worker' \in [Workers -> WorkerStates]
         /\ Settled(w) => worker' \in [Workers -> WorkerStates]
         /\ \A loop \in {"main", "drain", "stopped"} : Idle(loop) \in WorkerStates
<1>1. worker[w] \in WorkerStates /\ breaker.state \in Gens
  BY DEF PBreakerStates
<1>2. ASSUME NEW at \in {"sending", "backoff"}, NEW ms \in Seq(Msgs), Hold(w, at, ms)
      PROVE  worker' \in [Workers -> WorkerStates]
  BY <1>1, <1>2 DEF Hold, WorkerStates
<1>3. ASSUME NEW loop \in {"main", "drain", "stopped"}
      PROVE  Idle(loop) \in WorkerStates
  BY DEF Idle, WorkerStates, Gens
<1>4. After(w) \in WorkerStates
  <2>1. worker[w].drained + 1 \in Nat /\ worker[w].loop \in {"main", "drain", "stopped"}
    BY <1>1 DEF WorkerStates
  <2>2. \A n \in Nat, at \in {"giveup", "take"} :
           [Idle("drain") EXCEPT !.drained = n, !.at = at] \in WorkerStates
    BY <1>3 DEF WorkerStates
  <2> QED
    BY <1>3, <2>1, <2>2 DEF After
<1>5. Settled(w) => worker' \in [Workers -> WorkerStates]
  BY <1>4 DEF Settled
<1> QED
  BY <1>2, <1>3, <1>5

\* Every step of a worker.
LEMMA WorkerStepTypes ==
  ASSUME ProducerInv, NEW w \in Workers, WorkerStep(w)
  PROVE  ProducerInv' /\ BrokerGrows
<1>1. CallOK /\ MemoryOK /\ SideOK /\ ReplayOK /\ LogOK /\ FilesOK
  BY ProducerParts DEF CallOK
<1>2. /\ worker \in [Workers -> WorkerStates] /\ breaker \in PBreakerStates
      /\ queue \in Seq(Msgs) /\ Len(queue) \in Nat /\ Len(queue) <= QueueSize /\ QueueSize \in Nat
      /\ worker[w].batch \in Seq(Msgs) /\ worker[w].gen \in Gens
  BY <1>1, LenProperties, ProducerAssumption DEF MemoryOK, CallOK, WorkerStates
<1>3. UNCHANGED <<kind, reachable, life, link, sent, over, snap, replay>>
  BY DEF WorkerStep, Take, Answered, Requeue, StartDrain, StopWorker, brokerVars, files
<1>4. SideOK' /\ ReplayOK' /\ over' \in [Msgs -> {"none", "spawned", "closed", "half"}]
  BY <1>1, <1>3 DEF SideOK, ReplayOK, MemoryOK
<1>5. <<>> \in Seq(Msgs) /\ Len(<<>>) = 0
  OBVIOUS
<1>6. ASSUME UNCHANGED <<log, late>>, breaker' \in PBreakerStates, FilesOK', harm \subseteq harm',
             queue' \in Seq(Msgs), Len(queue') <= QueueSize, worker' \in [Workers -> WorkerStates]
      PROVE  ProducerInv' /\ BrokerGrows
  <2>1. LogOK' /\ BrokerGrows
    BY <1>1, <1>3, <1>6, LogStays
  <2>2. CallOK' /\ MemoryOK'
    BY <1>1, <1>4, <1>6, <2>1 DEF CallOK, MemoryOK
  <2> QED
    BY <1>4, <2>1, <2>2, ProducerPartsNext
<1>7. CASE Take(w)
  <2>1. Taken \in Nat /\ Taken <= Len(queue)
    BY <1>2, ProducerAssumption DEF Taken
  <2> DEFINE ms == SubSeq(queue, 1, Taken)
  <2>2. ms \in Seq(Msgs) /\ SubSeq(queue, Taken + 1, Len(queue)) \in Seq(Msgs)
        /\ Len(SubSeq(queue, Taken + 1, Len(queue))) <= QueueSize
    BY <1>2, <2>1, SubSeqType
  <2>3. /\ queue' = SubSeq(queue, Taken + 1, Len(queue))
        /\ UNCHANGED <<log, late>>
        /\ \/ BreakerAdmits /\ Hold(w, "sending", ms) /\ breaker' = BreakerAdmitted /\ NoDlq
           \/ Rejected(w, ms) /\ UNCHANGED breaker
    BY <1>7 DEF Take, brokerVars
  <2> HIDE DEF ms
  <2>4. CASE BreakerAdmits /\ Hold(w, "sending", ms) /\ breaker' = BreakerAdmitted /\ NoDlq
    BY <1>1, <1>2, <1>6, <2>2, <2>3, <2>4, BreakerTypes, WorkerTypes, DlqTypes
  <2>5. CASE Rejected(w, ms) /\ UNCHANGED breaker
    <3>1. worker' \in [Workers -> WorkerStates]
      BY <1>2, <2>2, <2>5, WorkerTypes DEF Rejected
    <3>2. FilesOK' /\ harm \subseteq harm'
      BY <1>1, <2>2, <2>5, DlqTypes DEF Rejected
    <3> QED
      BY <1>2, <1>6, <2>2, <2>3, <2>5, <3>1, <3>2
  <2> QED
    BY <2>3, <2>4, <2>5
<1>8. CASE Answered(w)
  <2>1. CallOK' /\ BrokerGrows
    BY <1>1, <1>2, <1>3, <1>8, PublishedTypes DEF Answered
  <2>2. worker' \in [Workers -> WorkerStates] /\ UNCHANGED queue
    BY <1>2, <1>8, WorkerTypes DEF Answered
  <2>3. MemoryOK'
    BY <1>1, <1>4, <2>2 DEF MemoryOK
  <2> QED
    BY <1>4, <2>1, <2>3, ProducerPartsNext
<1>9. CASE Requeue(w)
  <2> DEFINE ms == worker[w].batch
             room == QueueSize - Len(queue)
             n == IF Len(ms) < room THEN Len(ms) ELSE room
  <2>1. ms \in Seq(Msgs) /\ Len(ms) \in Nat
    BY <1>2, LenProperties
  <2>2. n \in Nat /\ n <= Len(ms) /\ n <= QueueSize - Len(queue)
    BY <1>2, <2>1
  <2>3. /\ queue' = queue \o SubSeq(ms, 1, n)
        /\ DlqAppend(SubSeq(ms, n + 1, Len(ms)))
        /\ Settled(w) /\ UNCHANGED <<log, late, breaker>>
    BY <1>9 DEF Requeue, Requeued, brokerVars
  <2> HIDE DEF ms, n
  <2>4. SubSeq(ms, 1, n) \in Seq(Msgs) /\ Len(SubSeq(ms, 1, n)) = n /\ SubSeq(ms, n + 1, Len(ms)) \in Seq(Msgs)
    BY <2>1, <2>2, SubSeqType
  <2>5. queue' \in Seq(Msgs) /\ Len(queue') <= QueueSize
    BY <1>2, <2>2, <2>3, <2>4, ConcatProperties
  <2>6. FilesOK' /\ harm \subseteq harm'
    BY <1>1, <2>3, <2>4, DlqTypes
  <2> QED
    BY <1>2, <1>6, <2>3, <2>5, <2>6, WorkerTypes
<1>10. CASE StartDrain(w)
  BY <1>1, <1>2, <1>6, <1>10, WorkerTypes DEF StartDrain, brokerVars, files, FilesOK, faultVars
<1>11. CASE StopWorker(w)
  <2>1. FilesOK' /\ harm \subseteq harm'
    BY <1>1, <1>2, <1>11, DlqTypes DEF StopWorker
  <2>2. worker' \in [Workers -> WorkerStates]
    BY <1>2, <1>11, WorkerTypes DEF StopWorker
  <2> QED
    BY <1>2, <1>5, <1>6, <1>11, <2>1, <2>2 DEF StopWorker, brokerVars
<1> QED
  BY <1>7, <1>8, <1>9, <1>10, <1>11 DEF WorkerStep

\* Every step of an overflow goroutine.
LEMMA OverTypes ==
  ASSUME ProducerInv, NEW m \in Msgs, OverStep(m)
  PROVE  ProducerInv' /\ BrokerGrows
<1>1. CallOK /\ MemoryOK /\ SideOK /\ ReplayOK /\ LogOK /\ FilesOK /\ breaker \in PBreakerStates
  BY ProducerParts DEF CallOK
<1>2. UNCHANGED <<kind, reachable, life, link, sent, queue, worker, snap, replay>>
  BY DEF OverStep, OverStart, OverAnswered, brokerVars
<1>3. SideOK' /\ ReplayOK'
  BY <1>1, <1>2 DEF SideOK, ReplayOK
<1>4. CASE OverStart(m)
  <2>1. BreakerAdmits => breaker.state \in {"closed", "half"}
    BY DEF BreakerAdmits
  <2>2. over' \in [Msgs -> {"none", "spawned", "closed", "half"}] /\ UNCHANGED <<log, late>>
    BY <1>1, <1>4, <2>1 DEF OverStart, MemoryOK, brokerVars
  <2>3. FilesOK' /\ harm \subseteq harm'
    BY <1>1, <1>4, DlqTypes, OneMessage DEF OverStart
  <2>4. breaker' \in PBreakerStates
    BY <1>1, <1>4, BreakerTypes DEF OverStart
  <2>5. LogOK' /\ BrokerGrows
    BY <1>1, <1>2, <2>2, <2>3, LogStays
  <2>6. CallOK' /\ MemoryOK'
    BY <1>1, <1>2, <2>2, <2>3, <2>4, <2>5 DEF CallOK, MemoryOK
  <2> QED
    BY <1>3, <2>5, <2>6, ProducerPartsNext
<1>5. CASE OverAnswered(m)
  <2>1. over[m] \in Gens /\ over' \in [Msgs -> {"none", "spawned", "closed", "half"}]
    BY <1>1, <1>5 DEF OverAnswered, MemoryOK, Gens
  <2>2. CallOK' /\ BrokerGrows
    BY <1>1, <1>2, <1>5, <2>1, OneMessage, PublishedTypes DEF OverAnswered
  <2>3. MemoryOK'
    BY <1>1, <1>2, <2>1 DEF MemoryOK
  <2> QED
    BY <1>3, <2>2, <2>3, ProducerPartsNext
<1> QED
  BY <1>4, <1>5 DEF OverStep

\* Every step of the replay.
LEMMA ReplayTypes ==
  ASSUME ProducerInv, ReplayStep
  PROVE  ProducerInv' /\ BrokerGrows
<1>1. CallOK /\ MemoryOK /\ SideOK /\ ReplayOK /\ LogOK /\ FilesOK /\ breaker \in PBreakerStates
  BY ProducerParts DEF CallOK
<1>2. UNCHANGED <<kind, reachable, life, link, sent, queue, worker, over>>
  BY DEF ReplayStep, ReplayTick, RecoverAppend, RecoverRemove, ReplayRename, ReplayLine, ReplayAnswered,
         ReplayWriteBack, ReplayRemove, ReplayAt
<1>3. SideOK' /\ MemoryOK'
  BY <1>1, <1>2 DEF SideOK, MemoryOK
<1>4. /\ replay \in Replays /\ snap \in Seq(Msgs) /\ dlq \in Seq(Msgs) /\ <<>> \in Seq(Msgs)
      /\ replay.pos \in Nat \ {0} /\ replay.failed \in Seq(Msgs) /\ Len(snap) \in Nat
  BY <1>1, LenProperties DEF ReplayOK, FilesOK, Replays
<1>5. ReplayIdle \in Replays
  BY <1>4 DEF ReplayIdle, Replays, ReplayPlaces, Gens
<1>6. ASSUME NEW at \in ReplayPlaces \ {"sending"}
      PROVE  /\ [ReplayIdle EXCEPT !.at = at] \in Replays /\ [ReplayIdle EXCEPT !.at = at].at # "sending"
             /\ [replay EXCEPT !.at = at] \in Replays /\ [replay EXCEPT !.at = at].at # "sending"
  BY <1>4, <1>5 DEF Replays
<1>7. KeepRest \in Replays /\ KeepRest.at # "sending"
  <2>1. SubSeq(snap, replay.pos, Len(snap)) \in Seq(Msgs)
    BY <1>4, SubSeqType
  <2> QED
    BY <1>4, <2>1 DEF KeepRest, Replays, ReplayPlaces
<1>8. ASSUME UNCHANGED <<log, late>>, breaker' \in PBreakerStates, FilesOK', harm \subseteq harm', ReplayOK'
      PROVE  ProducerInv' /\ BrokerGrows
  <2>1. LogOK' /\ BrokerGrows
    BY <1>1, <1>2, <1>8, LogStays
  <2>2. CallOK'
    BY <1>1, <1>8, <2>1 DEF CallOK
  <2> QED
    BY <1>3, <1>8, <2>1, <2>2, ProducerPartsNext
<1>9. UNCHANGED <<dlq, lost, faultVars>> => FilesOK' /\ harm \subseteq harm'
  BY <1>1 DEF FilesOK, faultVars
<1>10. CASE ReplayTick
  <2>1. ReplayOK'
    BY <1>4, <1>6, <1>10 DEF ReplayTick, ReplayOK, files, ReplayPlaces
  <2> QED
    BY <1>1, <1>8, <1>9, <1>10, <2>1 DEF ReplayTick, files
<1>11. CASE RecoverAppend \/ ReplayWriteBack
  <2>1. ReplayOK'
    BY <1>4, <1>6, <1>11 DEF RecoverAppend, ReplayWriteBack, ReplayOK, ReplayPlaces
  <2>3. ToSet(snap) \subseteq Msgs /\ ToSet(replay.failed) \subseteq Msgs
    BY <1>4, ToSetType
  <2>4. PICK old \in Seq(Msgs) : /\ ToSet(old) \subseteq Msgs
                                 /\ \/ dlq' = dlq \o old /\ UNCHANGED <<lost, faultVars>>
                                    \/ Harm("disk") /\ lost' = lost \cup ToSet(old) /\ UNCHANGED dlq
    BY <1>4, <1>11, <2>3 DEF RecoverAppend, ReplayWriteBack
  <2>5. dlq' \in Seq(Msgs) /\ lost' \subseteq Msgs
    BY <1>1, <2>4, ConcatProperties DEF FilesOK
  <2>6. faults' \in 0 .. MaxFaults /\ harm \subseteq harm'
    BY <1>1, <2>4, FaultAssumption DEF FilesOK, Harm, faultVars
  <2>7. FilesOK' /\ harm \subseteq harm'
    BY <2>5, <2>6 DEF FilesOK
  <2> QED
    BY <1>1, <1>8, <1>11, <2>1, <2>7 DEF RecoverAppend, ReplayWriteBack
<1>12. CASE RecoverRemove \/ ReplayRemove
  <2>1. replay' \in Replays /\ replay'.at # "sending" /\ snap' = <<>>
    <3>1. ReplayIdle.at # "sending"
      BY DEF ReplayIdle
    <3> QED
      BY <1>5, <1>6, <1>12, <3>1 DEF RecoverRemove, ReplayRemove, ReplayPlaces
  <2>2. ReplayOK'
    BY <1>4, <2>1 DEF ReplayOK
  <2> QED
    BY <1>1, <1>8, <1>9, <1>12, <2>2 DEF RecoverRemove, ReplayRemove
<1>13. CASE ReplayRename
  <2>1. ReplayOK' /\ dlq' \in Seq(Msgs)
    BY <1>4, <1>6, <1>13 DEF ReplayRename, ReplayOK, ReplayPlaces
  <2>2. FilesOK' /\ UNCHANGED harm
    BY <1>1, <1>13, <2>1 DEF ReplayRename, FilesOK, faultVars
  <2> QED
    BY <1>1, <1>8, <1>13, <2>1, <2>2 DEF ReplayRename
<1>14. CASE ReplayLine
  <2>1. CASE replay' = KeepRest /\ UNCHANGED breaker
    <3>1. ReplayOK'
      BY <1>4, <1>7, <1>14, <2>1 DEF ReplayLine, ReplayOK, files
    <3> QED
      BY <1>1, <1>8, <1>9, <1>14, <2>1, <3>1 DEF ReplayLine, files
  <2>2. CASE /\ ~ (replay.pos > Len(snap) \/ replay.pos > ReplayBatchMax \/ ~ BreakerAdmits)
             /\ replay' = [replay EXCEPT !.at = "sending", !.gen = breaker.state]
             /\ breaker' = BreakerAdmitted
    <3>1. breaker.state \in Gens /\ breaker' \in PBreakerStates
      BY <1>1, <2>2, BreakerTypes DEF PBreakerStates
    <3>2. replay' \in Replays /\ replay'.pos = replay.pos
      BY <1>4, <2>2, <3>1 DEF Replays, ReplayPlaces
    <3>3. ReplayOK'
      BY <1>4, <1>14, <2>2, <3>2 DEF ReplayLine, ReplayOK, files
    <3> QED
      BY <1>1, <1>8, <1>9, <1>14, <3>1, <3>3 DEF ReplayLine, files
  <2> QED
    BY <1>14, <2>1, <2>2 DEF ReplayLine
<1>15. CASE ReplayAnswered
  <2> DEFINE line == <<snap[replay.pos]>>
  <2>1. replay.at = "sending" /\ replay.pos <= Len(snap) /\ Len(log) < MaxLog /\ UNCHANGED snap
    BY <1>1, <1>15 DEF ReplayAnswered, ReplayAt, ReplayOK
  <2>2. snap[replay.pos] \in Msgs /\ replay.gen \in Gens
    BY <1>4, <2>1, ElementOfSeq DEF Replays
  <2>3. line \in Seq(Msgs) /\ Len(line) = 1
    BY <2>2, OneMessage
  <2>4. Relayed(line) \/ RelayFailed(line)
    BY <1>15 DEF ReplayAnswered
  <2> HIDE DEF line
  <2>5. ReplayOK'
    <3> DEFINE next == [replay EXCEPT !.at = "line", !.pos = @ + 1]
    <3>1. replay' = KeepRest \/ replay' = next
      BY <2>4 DEF Relayed, RelayFailed
    <3>2. next \in Replays /\ next.at = "line"
      <4>1. replay.pos + 1 \in Nat \ {0}
        BY <1>4
      <4> QED
        BY <1>4, <4>1 DEF Replays, ReplayPlaces
    <3> QED
      BY <1>4, <1>7, <2>1, <3>1, <3>2 DEF ReplayOK
  <2>6. breaker' \in PBreakerStates /\ late' \in BOOLEAN
    <3>1. \A ok \in BOOLEAN : BreakerAfter(replay.gen, ok) \in PBreakerStates
      BY <1>1, <2>2, BreakerTypes
    <3>2. late \in BOOLEAN
      BY <1>1 DEF CallOK
    <3> QED
      BY <2>4, <3>1, <3>2 DEF Relayed, RelayFailed, Confirmed, MistakenlyConfirmed
  <2>7. FilesOK' /\ harm \subseteq harm'
    <3>1. CASE Confirmed(line, replay.gen)
      BY <1>1, <2>3, <3>1, DlqTypes DEF Confirmed
    <3>2. CASE MistakenlyConfirmed(line, replay.gen)
      BY <1>1, <2>3, <3>2, ToSetType DEF MistakenlyConfirmed, FilesOK, faultVars
    <3>3. CASE RelayFailed(line)
      BY <1>1, <3>3, FaultAssumption DEF RelayFailed, FilesOK, faultVars, Harm
    <3> QED
      BY <2>4, <3>1, <3>2, <3>3 DEF Relayed
  <2>8. LogOK' /\ BrokerGrows
    <3>1. Len(log) \in Nat /\ MaxLog \in Nat
      BY <1>1, LenProperties, BrokerAssumption DEF LogOK
    <3>2. UNCHANGED log \/ Accept(line)
      BY <2>4 DEF Relayed, RelayFailed, Confirmed, MistakenlyConfirmed
    <3>3. Len(log) + Len(line) <= MaxLog
      BY <2>1, <2>3, <3>1
    <3> QED
      BY <1>1, <1>2, <2>3, <2>7, <3>2, <3>3, AcceptTypes
  <2>9. CallOK'
    BY <2>6, <2>7, <2>8 DEF CallOK
  <2> QED
    BY <1>3, <2>5, <2>8, <2>9, ProducerPartsNext
<1> QED
  BY <1>10, <1>11, <1>12, <1>13, <1>14, <1>15 DEF ReplayStep

\* The process goes, with what it held in memory.
LEMMA DieTypes ==
  ASSUME ProducerInv, Die, harm \subseteq harm', faults' \in 0 .. MaxFaults
  PROVE  ProducerInv' /\ BrokerGrows
<1>1. CallOK /\ MemoryOK /\ SideOK /\ ReplayOK /\ LogOK /\ FilesOK
  BY ProducerParts DEF CallOK
<1>2. <<>> \in Seq(Msgs) /\ Len(<<>>) = 0 /\ 0 <= QueueSize
  BY ProducerAssumption
<1>3. LogOK' /\ BrokerGrows
  BY <1>1, LogStays DEF Die, brokerVars
<1>4. FilesOK'
  <2>1. {m \in Msgs : InMemory(m)} \subseteq Msgs
    OBVIOUS
  <2> QED
    BY <1>1, <2>1 DEF Die, FilesOK, files
<1>5. CallOK'
  BY <1>1, <1>3, <1>4, BreakerTypes DEF CallOK, Die
<1>6. MemoryOK'
  <2>1. Idle("stopped") \in WorkerStates
    BY <1>2 DEF Idle, WorkerStates, Gens
  <2>2. /\ queue' = <<>> /\ worker' = [w \in Workers |-> Idle("stopped")]
        /\ over' = [m \in Msgs |-> "none"]
    BY DEF Die
  <2> QED
    BY <1>2, <2>1, <2>2 DEF MemoryOK
<1>7. SideOK'
  BY <1>1 DEF SideOK, Die, brokerVars
<1>8. ReplayOK'
  <2>1. ReplayIdle \in Replays /\ ReplayIdle.at # "sending"
    BY <1>2 DEF ReplayIdle, Replays, ReplayPlaces, Gens
  <2> QED
    BY <1>1, <2>1 DEF ReplayOK, Die, files
<1> QED
  BY <1>3, <1>5, <1>6, <1>7, <1>8, ProducerPartsNext

\* Close, the end of the process and a new one, the breaker's timer, the broker.
LifeStep == \/ BreakerTimeout \/ Close \/ Exit \/ CloseTimeout \/ Crash \/ Restart
            \/ BrokerDown \/ BrokerUp \/ ConnectionCut

\* Start, Close, exit and crash of the process, outages and the breaker's timeout.
LEMMA LifeTypes ==
  ASSUME ProducerInv, LifeStep
  PROVE  ProducerInv' /\ BrokerGrows
<1>1. CallOK /\ MemoryOK /\ SideOK /\ ReplayOK /\ LogOK /\ FilesOK /\ breaker \in PBreakerStates
  BY ProducerParts DEF CallOK
<1>2. faults \in 0 .. MaxFaults /\ MaxFaults \in Nat
  BY <1>1, FaultAssumption DEF FilesOK
<1>3. /\ Disturb => faults' \in 0 .. MaxFaults /\ UNCHANGED harm
      /\ \A what \in {"timeout", "crash"} : Harm(what) => faults' \in 0 .. MaxFaults /\ harm \subseteq harm'
      /\ UNCHANGED faultVars => faults' \in 0 .. MaxFaults /\ harm \subseteq harm'
  BY <1>2 DEF Disturb, Harm, faultVars
<1>4. CASE Exit \/ CloseTimeout \/ Crash
  BY <1>3, <1>4, DieTypes DEF Exit, CloseTimeout, Crash
<1>5. ASSUME UNCHANGED <<kind, log, dlq, snap, lost>>, harm \subseteq harm', faults' \in 0 .. MaxFaults,
             breaker' \in PBreakerStates, late' \in BOOLEAN, MemoryOK', SideOK', ReplayOK'
      PROVE  ProducerInv' /\ BrokerGrows
  <2>1. LogOK' /\ BrokerGrows
    BY <1>1, <1>5, LogStays
  <2>2. CallOK'
    BY <1>1, <1>5, <2>1 DEF CallOK, FilesOK
  <2> QED
    BY <1>5, <2>1, <2>2, ProducerPartsNext
<1>6. late \in BOOLEAN
  BY <1>1 DEF CallOK
<1>7. CASE BreakerTimeout
  <2>1. /\ UNCHANGED <<kind, log, reachable, life, link, sent, queue, worker, over, dlq, snap, replay, late, lost,
                     faultVars>>
        /\ breaker' = HalfOpen
    BY <1>7 DEF BreakerTimeout, brokerVars, files
  <2>2. MemoryOK' /\ SideOK' /\ ReplayOK'
    BY <1>1, <2>1 DEF MemoryOK, SideOK, ReplayOK
  <2> QED
    BY <1>1, <1>3, <1>5, <1>6, <2>1, <2>2, BreakerTypes
<1>8. CASE Close
  <2>1. /\ UNCHANGED <<kind, log, reachable, link, sent, queue, worker, over, dlq, snap, replay, late, lost, breaker>>
        /\ life' = "closing" /\ Disturb
    BY <1>8 DEF Close, brokerVars, files
  <2>2. MemoryOK' /\ SideOK' /\ ReplayOK'
    BY <1>1, <2>1 DEF MemoryOK, SideOK, ReplayOK
  <2> QED
    BY <1>1, <1>3, <1>5, <1>6, <2>1, <2>2
<1>9. CASE Restart
  <2>1. UNCHANGED <<kind, log, reachable, sent, dlq, snap, lost, faultVars>> /\ Started
    BY <1>9 DEF Restart, brokerVars, files
  <2>2. <<>> \in Seq(Msgs) /\ Len(<<>>) = 0 /\ 0 <= QueueSize
    BY ProducerAssumption
  <2>3. Idle("main") \in WorkerStates /\ Idle("stopped") \in WorkerStates
    BY <2>2 DEF Idle, WorkerStates, Gens
  <2>4. MemoryOK'
    <3>1. /\ queue' = <<>>
          /\ worker' = [w \in Workers |-> Idle(IF Running(w) /\ link' = "up" THEN "main" ELSE "stopped")]
          /\ over' = [m \in Msgs |-> "none"]
      BY <2>1 DEF Started
    <3>2. worker' \in [Workers -> WorkerStates]
      BY <2>3, <3>1
    <3> QED
      BY <2>2, <3>1, <3>2 DEF MemoryOK
  <2>5. ReplayOK'
    <3>1. ReplayIdle \in Replays /\ ReplayIdle.at # "sending"
      BY <2>2 DEF ReplayIdle, Replays, ReplayPlaces, Gens
    <3> QED
      BY <1>1, <2>1, <3>1 DEF ReplayOK, Started
  <2>6. SideOK' /\ breaker' = Closed /\ late' \in BOOLEAN
    BY <1>1, <2>1 DEF SideOK, Started, Dialled
  <2> QED
    BY <1>1, <1>3, <1>5, <2>1, <2>4, <2>5, <2>6, BreakerTypes
<1>10. CASE BrokerDown \/ BrokerUp \/ ConnectionCut
  <2>1. /\ UNCHANGED <<kind, log, life, sent, queue, worker, over, dlq, snap, replay, late, lost, breaker>>
        /\ reachable' \in BOOLEAN /\ link' \in {"up", "cut", "none"} /\ (Disturb \/ UNCHANGED faultVars)
    BY <1>1, <1>10 DEF BrokerDown, BrokerUp, ConnectionCut, brokerVars, prodVars, files, SideOK
  <2>2. MemoryOK' /\ SideOK' /\ ReplayOK'
    BY <1>1, <2>1 DEF MemoryOK, SideOK, ReplayOK
  <2> QED
    BY <1>1, <1>3, <1>5, <1>6, <2>1, <2>2
<1> QED
  BY <1>4, <1>7, <1>8, <1>9, <1>10 DEF LifeStep

\* Every step of the producer preserves its types, and the log only grows.
LEMMA ProducerNextTypes ==
  ASSUME ProducerInv, ProducerNext
  PROVE  ProducerInv' /\ BrokerGrows
<1>1. LifeStep \/ ReplayStep \/ (\E w \in Workers : WorkerStep(w))
      \/ (\E m \in Msgs : Send(m) \/ SendSync(m) \/ OverStep(m))
  BY DEF ProducerNext, LifeStep
<1> QED
  BY <1>1, LifeTypes, ReplayTypes, WorkerStepTypes, SendTypes, SendSyncTypes, OverTypes

\* Every deployment begins with a producer of these types.
LEMMA ProducerInitTypes ==
  ASSUME NEW d \in Deployments, ProducerInit(d.kinds, d.backlog, d.traffic), FaultInit(d.faults)
  PROVE  ProducerInv
<1>1. /\ d.kinds \subseteq Kinds /\ d.backlog \in Seq(Msgs) /\ Len(d.backlog) <= MaxLog
      /\ d.faults \in 0 .. MaxFaults
  BY DeploymentAssumption
<1>2. <<>> \in Seq(Msgs) /\ Len(<<>>) = 0 /\ 0 <= QueueSize
  BY ProducerAssumption
<1>3. Closed \in PBreakerStates
  BY ProducerAssumption DEF Closed, PBreakerStates, Gens
<1>4. CallOK
  <2>1. faults \in 0 .. MaxFaults
    BY <1>1, FaultAssumption DEF FaultInit
  <2> QED
    BY <1>1, <1>2, <1>3, <2>1 DEF ProducerInit, CallOK, LogOK, FilesOK
<1>5. MemoryOK
  <2>1. Idle("main") \in WorkerStates /\ Idle("stopped") \in WorkerStates
    BY <1>2 DEF Idle, WorkerStates, Gens
  <2>2. /\ queue = <<>> /\ worker = [w \in Workers |-> Idle("stopped")]
        /\ over = [m \in Msgs |-> "none"]
    BY DEF ProducerInit
  <2> QED
    BY <1>2, <2>1, <2>2 DEF MemoryOK
<1>6. SideOK
  <2>1. kind \in Kinds /\ reachable \in BOOLEAN /\ life \in {"absent", "up", "closing", "gone"} /\ link = "none"
    BY <1>1 DEF ProducerInit
  <2>2. sent \in [Msgs -> {"never", "no", "intime", "afterClose", "toNop"}]
    BY DEF ProducerInit
  <2> QED
    BY <2>1, <2>2 DEF SideOK
<1>7. ReplayOK
  <2>1. ReplayIdle \in Replays /\ ReplayIdle.at # "sending"
    BY <1>2 DEF ReplayIdle, Replays, ReplayPlaces, Gens
  <2> QED
    BY <1>2, <2>1 DEF ReplayOK, ProducerInit
<1> QED
  BY <1>4, <1>5, <1>6, <1>7, ProducerParts

-----------------------------------------------------------------------------
(* The producer: what it keeps.                                              *)

\* A channel holds a stray confirmation only of rabbitmq, and after a late one.
LateOK == late => kind = "rabbitmq" /\ "reply" \in harm

\* What DiskIsDurable excepts.
DiskExcused == "disk" \in harm \/ (kind = "rabbitmq" /\ "reply" \in harm)

\* Where the lines of the snapshot are besides, at each point of the replay: it may be removed
\* once they are all in the main file or at the broker.
SnapCovered ==
    /\ replay.at = "recovered" => ToSet(snap) \subseteq ToSet(dlq)
    /\ replay.at \in {"line", "sending"} =>
          \A i \in 1 .. Len(snap) : i < replay.pos => snap[i] \in ToSet(log)
    /\ replay.at = "writeback" => ToSet(snap) \subseteq ToSet(replay.failed) \cup ToSet(log)
    /\ replay.at = "remove" => ToSet(snap) \subseteq ToSet(dlq) \cup ToSet(log)

DiskOK == (replay.at = "rename" => snap = <<>>) /\ (DiskExcused \/ SnapCovered)

\* A worker without a batch holds none, and one that has stopped has none.
BatchOK ==
    \A w \in Workers :
        /\ worker[w].at \in {"take", "giveup"} => worker[w].batch = <<>>
        /\ worker[w].loop = "stopped" => worker[w].at = "take"

\* A producer that connected has a worker in its main loop until Close, and where none runs any
\* more, or none ever did, only messages sent after Close are queued.
LoopOK ==
    Buffered(kind) =>
        /\ life = "up" /\ link # "none" => \E w \in Workers : worker[w].loop = "main"
        /\ life \in {"up", "closing"} /\ (\A w \in Workers : worker[w].loop = "stopped")
              => \A m \in ToSet(queue) : sent[m] = "afterClose"

Somewhere(m) == m \in ToSet(log) \/ InMemory(m) \/ OnDisk(m)

Kept ==
    Buffered(kind) /\ harm \cap ProducerHarm = {} =>
        \A m \in Msgs : sent[m] = "intime" => Somewhere(m)

\* A process that is gone holds nothing and replays nothing.
GoneOK == life = "gone" => replay = ReplayIdle /\ \A m \in Msgs : ~InMemory(m)

KeepInv == LateOK /\ DiskOK /\ BatchOK /\ LoopOK /\ GoneOK /\ Kept

\* The broker keeps what it has.
LEMMA LogGrows ==
  ASSUME log \in Seq(Msgs), BrokerGrows
  PROVE  ToSet(log) \subseteq ToSet(log')
<1>1. /\ log' \in Seq(Msgs) /\ Len(log) <= Len(log') /\ \A i \in 1 .. Len(log) : log'[i] = log[i]
      /\ Len(log) \in Nat /\ Len(log') \in Nat
  BY LenProperties DEF BrokerGrows
<1> SUFFICES ASSUME NEW x \in ToSet(log) PROVE x \in ToSet(log')
  OBVIOUS
<1>2. PICK i \in 1 .. Len(log) : log[i] = x
  BY Elements
<1>3. i \in 1 .. Len(log') /\ log'[i] = x
  BY <1>1, <1>2
<1> QED
  BY <1>1, <1>3, Elements

\* append loses nothing the file had, and nothing of what it is given unless the file is full
\* or cannot be written.
LEMMA DlqKeeps ==
  ASSUME FilesOK, NEW ms \in Seq(Msgs)
  PROVE  /\ DlqLinesAdded(ms) => ToSet(dlq) \subseteq ToSet(dlq')
         /\ NoDlq => ToSet(dlq') = ToSet(dlq)
         /\ DlqAppend(ms) =>
               /\ ToSet(dlq) \subseteq ToSet(dlq')
               /\ {"disk", "full"} \cap harm' = {} => ToSet(dlq') = ToSet(dlq) \cup ToSet(ms)
<1>1. Len(ms) \in Nat /\ Len(dlq) \in Nat /\ DlqLines \in Nat /\ dlq \in Seq(Msgs)
  BY LenProperties, ProducerAssumption DEF FilesOK
<1>2. DlqRoom(ms) \in Nat /\ DlqRoom(ms) <= Len(ms)
  BY <1>1 DEF DlqRoom
<1> DEFINE head == SubSeq(ms, 1, DlqRoom(ms))
<1>3. head \in Seq(Msgs) /\ (DlqRoom(ms) = Len(ms) => ToSet(head) = ToSet(ms))
  BY <1>2, CutElements
<1>4. ASSUME DlqLinesAdded(ms) PROVE ToSet(dlq') = ToSet(dlq) \cup ToSet(head)
  <2>1. dlq' = dlq \o head
    BY <1>4 DEF DlqLinesAdded
  <2> HIDE DEF head
  <2>2. ToSet(dlq \o head) = ToSet(dlq) \cup ToSet(head)
    BY <1>1, <1>3, ConcatElements
  <2> QED
    BY <2>1, <2>2
<1> HIDE DEF head
<1>5. NoDlq => ToSet(dlq') = ToSet(dlq)
  BY DEF NoDlq
<1>6. ASSUME DlqAppend(ms)
      PROVE  /\ ToSet(dlq) \subseteq ToSet(dlq')
             /\ {"disk", "full"} \cap harm' = {} => ToSet(dlq') = ToSet(dlq) \cup ToSet(ms)
  <2>1. CASE Harm("disk") /\ UNCHANGED dlq
    BY <2>1 DEF Harm
  <2>2. CASE DlqLinesAdded(ms) /\ harm' = IF DlqRoom(ms) < Len(ms) THEN harm \cup {"full"} ELSE harm
    <3>1. {"disk", "full"} \cap harm' = {} => ~(DlqRoom(ms) < Len(ms))
      BY <2>2
    <3>2. ~(DlqRoom(ms) < Len(ms)) => DlqRoom(ms) = Len(ms)
      BY <1>1, <1>2
    <3> QED
      BY <1>3, <1>4, <2>2, <3>1, <3>2
  <2> QED
    BY <1>6, <2>1, <2>2 DEF DlqAppend
<1> QED
  BY <1>4, <1>5, <1>6

\* The answer to a call: what was sent is at the broker or in the file.
LEMMA PublishedKeeps ==
  ASSUME CallOK, LateOK, NEW ms \in Seq(Msgs), NEW gen \in Gens, Published(ms, gen), UNCHANGED kind
  PROVE  /\ LateOK' /\ ToSet(dlq) \subseteq ToSet(dlq')
         /\ harm' \cap ProducerHarm = {} => ToSet(ms) \subseteq ToSet(log') \cup ToSet(dlq')
<1>1. FilesOK /\ log \in Seq(Msgs) /\ harm \subseteq harm'
  BY PublishedTypes DEF CallOK, LogOK, BrokerGrows
<1>2. ASSUME Accept(ms) PROVE ToSet(ms) \subseteq ToSet(log')
  BY <1>1, <1>2, ConcatElements DEF Accept
<1>3. CASE Confirmed(ms, gen)
  <2>1. Accept(ms) /\ NoDlq /\ UNCHANGED late
    BY <1>3 DEF Confirmed
  <2> QED
    BY <1>1, <1>2, <2>1, DlqKeeps DEF LateOK
<1>4. CASE Unstored(ms, gen)
  <2>1. DlqAppend(ms) /\ late' = FALSE
    BY <1>4 DEF Unstored
  <2>2. harm' \cap ProducerHarm = {} => {"disk", "full"} \cap harm' = {}
    BY DEF ProducerHarm
  <2> QED
    BY <1>1, <2>1, <2>2, DlqKeeps DEF LateOK
<1>5. CASE Unconfirmed(ms, gen)
  <2>1. Accept(ms) /\ DlqLinesAdded(ms) /\ Harm("reply") /\ late' = (kind = "rabbitmq")
    BY <1>5 DEF Unconfirmed
  <2>2. "reply" \in harm'
    BY <2>1 DEF Harm
  <2> QED
    BY <1>1, <1>2, <2>1, <2>2, DlqKeeps DEF LateOK
<1>6. CASE MistakenlyConfirmed(ms, gen)
  <2>1. late /\ late' = FALSE /\ UNCHANGED dlq
    BY <1>6 DEF MistakenlyConfirmed
  <2>2. "reply" \in harm'
    BY <1>1, <2>1 DEF LateOK
  <2> QED
    BY <2>1, <2>2 DEF LateOK, ProducerHarm
<1> QED
  BY <1>3, <1>4, <1>5, <1>6 DEF Published

\* A step that leaves the replay alone and only adds to the file.
LEMMA DiskStays ==
  ASSUME ProducerInv, DiskOK, BrokerGrows, UNCHANGED <<snap, replay>>, ToSet(dlq) \subseteq ToSet(dlq')
  PROVE  DiskOK'
<1>1. ToSet(log) \subseteq ToSet(log')
  BY LogGrows DEF ProducerInv, ProducerTypeOK, BrokerTypeOK
<1>2. DiskExcused => DiskExcused'
  BY DEF DiskExcused, BrokerGrows
<1>3. SnapCovered => SnapCovered'
  BY <1>1 DEF SnapCovered
<1> QED
  BY <1>2, <1>3 DEF DiskOK

\* Messages stay where they are looked for when memory only moves them.
LEMMA KeptStays ==
  ASSUME ProducerInv, Kept, BrokerGrows,
         harm' \cap ProducerHarm = {} /\ Buffered(kind) =>
            \A m \in Msgs : sent'[m] = "intime" =>
                \/ sent[m] = "intime" /\ (OnDisk(m) \/ InMemory(m) => Somewhere(m)')
                \/ Somewhere(m)'
  PROVE  Kept'
<1>1. ToSet(log) \subseteq ToSet(log')
  BY LogGrows DEF ProducerInv, ProducerTypeOK, BrokerTypeOK
<1>2. harm' \cap ProducerHarm = {} => harm \cap ProducerHarm = {}
  BY DEF BrokerGrows
<1>3. Buffered(kind') <=> Buffered(kind)
  BY DEF BrokerGrows, Buffered
<1> SUFFICES ASSUME Buffered(kind), harm' \cap ProducerHarm = {}, NEW m \in Msgs, sent'[m] = "intime"
             PROVE  Somewhere(m)'
  BY <1>3 DEF Kept
<1>4. CASE sent[m] = "intime" /\ (OnDisk(m) \/ InMemory(m) => Somewhere(m)')
  <2>1. Somewhere(m)
    BY <1>2, <1>4 DEF Kept
  <2>2. m \in ToSet(log) => Somewhere(m)'
    BY <1>1 DEF Somewhere
  <2> QED
    BY <1>4, <2>1, <2>2 DEF Somewhere
<1> QED
  BY <1>4

\* What DiskIsDurable says of one step, with the broker's log as a set.
DiskStep ==
    \A m \in Msgs : OnDisk(m) /\ "disk" \notin harm' /\ ~(kind = "rabbitmq" /\ "reply" \in harm)
                    => m \in ToSet(dlq') \cup ToSet(snap') \cup ToSet(log')

\* Steps that leave the snapshot alone and only add to the file.
LEMMA DiskStepStays ==
  ASSUME UNCHANGED snap, ToSet(dlq) \subseteq ToSet(dlq')
  PROVE  DiskStep
BY DEF DiskStep, OnDisk

\* A worker's step changes that worker only: it holds what it took, or nothing.
LEMMA WorkerMoves ==
  ASSUME worker \in [Workers -> WorkerStates], NEW w \in Workers, breaker \in PBreakerStates
  PROVE  /\ \A at \in {"sending", "backoff"}, ms \in Seq(Msgs) : Hold(w, at, ms) =>
               /\ worker'[w].at = at /\ worker'[w].batch = ms /\ worker'[w].loop = worker[w].loop
               /\ \A v \in Workers \ {w} : worker'[v] = worker[v]
         /\ Settled(w) =>
               /\ worker'[w].at \in {"take", "giveup"} /\ worker'[w].batch = <<>>
               /\ worker'[w].loop = worker[w].loop
               /\ \A v \in Workers \ {w} : worker'[v] = worker[v]
         /\ \A loop \in {"drain", "stopped"} : worker' = [worker EXCEPT ![w] = Idle(loop)] =>
               /\ worker'[w].at = "take" /\ worker'[w].batch = <<>> /\ worker'[w].loop = loop
               /\ \A v \in Workers \ {w} : worker'[v] = worker[v]
<1>1. worker[w] \in WorkerStates
  OBVIOUS
<1>2. ASSUME NEW at \in {"sending", "backoff"}, NEW ms \in Seq(Msgs), Hold(w, at, ms)
      PROVE  /\ worker'[w].at = at /\ worker'[w].batch = ms /\ worker'[w].loop = worker[w].loop
             /\ \A v \in Workers \ {w} : worker'[v] = worker[v]
  BY <1>1, <1>2 DEF Hold, WorkerStates
<1>3. After(w).at \in {"take", "giveup"} /\ After(w).batch = <<>> /\ After(w).loop = worker[w].loop
  BY <1>1 DEF After, Idle, WorkerStates
<1>4. ASSUME Settled(w)
      PROVE  /\ worker'[w].at \in {"take", "giveup"} /\ worker'[w].batch = <<>>
             /\ worker'[w].loop = worker[w].loop
             /\ \A v \in Workers \ {w} : worker'[v] = worker[v]
  <2>1. worker'[w] = After(w) /\ \A v \in Workers \ {w} : worker'[v] = worker[v]
    BY <1>4 DEF Settled
  <2> QED
    BY <1>3, <2>1
<1>5. ASSUME NEW loop \in {"drain", "stopped"}, worker' = [worker EXCEPT ![w] = Idle(loop)]
      PROVE  /\ worker'[w].at = "take" /\ worker'[w].batch = <<>> /\ worker'[w].loop = loop
             /\ \A v \in Workers \ {w} : worker'[v] = worker[v]
  BY <1>5 DEF Idle
<1> QED
  BY <1>2, <1>4, <1>5

\* A worker's step keeps what is kept if it passes on what it held and what it took.
LEMMA WorkerKeeps ==
  ASSUME ProducerInv, KeepInv, BrokerGrows, NEW w \in Workers, LateOK',
         life # "gone", UNCHANGED <<life, link, sent, over, snap, replay>>, ToSet(dlq) \subseteq ToSet(dlq'),
         \A v \in Workers \ {w} : worker'[v] = worker[v],
         worker'[w].at \in {"take", "giveup"} => worker'[w].batch = <<>>,
         worker'[w].loop = "stopped" => worker'[w].at = "take" /\ queue' = <<>>,
         life = "up" /\ worker[w].loop = "main" => worker'[w].loop = "main",
         harm' \cap ProducerHarm = {} =>
            ToSet(queue) \cup ToSet(worker[w].batch)
                \subseteq ToSet(queue') \cup ToSet(worker'[w].batch) \cup ToSet(log') \cup ToSet(dlq')
  PROVE  KeepInv'
<1>1. LateOK /\ DiskOK /\ BatchOK /\ LoopOK /\ GoneOK /\ Kept
  BY DEF KeepInv
<1>2. DiskOK'
  BY <1>1, DiskStays
<1>3. BatchOK'
  BY <1>1 DEF BatchOK
<1>4. LoopOK'
  <2>1. Buffered(kind)' <=> Buffered(kind)
    BY DEF BrokerGrows, Buffered
  <2>2. Buffered(kind) /\ life' = "up" /\ link' # "none" => \E v \in Workers : worker'[v].loop = "main"
    BY <1>1 DEF LoopOK
  <2>3. (\A v \in Workers : worker'[v].loop = "stopped") => queue' = <<>>
    OBVIOUS
  <2>4. queue' = <<>> => \A m \in ToSet(queue') : sent'[m] = "afterClose"
    BY NoElements
  <2> QED
    BY <2>1, <2>2, <2>3, <2>4 DEF LoopOK
<1>5. Kept'
  <2> SUFFICES ASSUME harm' \cap ProducerHarm = {}, NEW m \in Msgs, OnDisk(m) \/ InMemory(m)
               PROVE  Somewhere(m)'
    BY <1>1, KeptStays
  <2>1. CASE OnDisk(m)
    BY <2>1 DEF OnDisk, Somewhere
  <2>2. CASE over[m] # "none"
    BY <2>2 DEF InMemory, Somewhere
  <2>3. ASSUME NEW v \in Workers, v # w, m \in ToSet(worker[v].batch) PROVE Somewhere(m)'
    BY <2>3 DEF InMemory, Somewhere
  <2>4. CASE m \in ToSet(queue) \/ m \in ToSet(worker[w].batch)
    BY <2>4 DEF InMemory, OnDisk, Somewhere
  <2> QED
    BY <2>1, <2>2, <2>3, <2>4 DEF InMemory
<1>6. GoneOK'
  BY DEF GoneOK
<1> QED
  BY <1>2, <1>3, <1>4, <1>5, <1>6 DEF KeepInv

\* Every step of a worker.
LEMMA WorkerStepKeeps ==
  ASSUME ProducerInv, KeepInv, NEW w \in Workers, WorkerStep(w)
  PROVE  KeepInv' /\ DiskStep
<1>1. CallOK /\ MemoryOK /\ FilesOK /\ LateOK /\ BatchOK
  BY ProducerParts DEF CallOK, KeepInv
<1>2. /\ worker \in [Workers -> WorkerStates] /\ breaker \in PBreakerStates
      /\ queue \in Seq(Msgs) /\ Len(queue) \in Nat /\ Len(queue) <= QueueSize /\ QueueSize \in Nat
      /\ worker[w].batch \in Seq(Msgs) /\ worker[w].gen \in Gens
  BY <1>1, LenProperties, ProducerAssumption DEF MemoryOK, CallOK, WorkerStates
<1>3. life # "gone" /\ UNCHANGED <<kind, life, link, sent, over, snap, replay>>
  BY DEF WorkerStep, Take, Answered, Requeue, StartDrain, StopWorker, brokerVars, files
<1>4. BrokerGrows /\ harm \subseteq harm'
  BY WorkerStepTypes DEF BrokerGrows
<1>5. UNCHANGED late => LateOK'
  BY <1>1, <1>3, <1>4 DEF LateOK
<1>6. harm' \cap ProducerHarm = {} => {"disk", "full"} \cap harm' = {}
  BY DEF ProducerHarm
<1>7. CASE Take(w)
  <2>1. Taken \in Nat /\ Taken <= Len(queue)
    BY <1>2, ProducerAssumption DEF Taken
  <2> DEFINE ms == SubSeq(queue, 1, Taken)
             rest == SubSeq(queue, Taken + 1, Len(queue))
  <2>2. ms \in Seq(Msgs) /\ ToSet(queue) = ToSet(ms) \cup ToSet(rest)
    BY <1>2, <2>1, CutElements
  <2>3. /\ queue' = rest /\ UNCHANGED late
        /\ worker[w].at = "take" /\ worker[w].loop # "stopped"
        /\ \/ Hold(w, "sending", ms) /\ NoDlq
           \/ Hold(w, "backoff", ms) /\ NoDlq
           \/ Settled(w) /\ DlqAppend(ms)
    BY <1>7 DEF Take, Rejected
  <2> HIDE DEF ms, rest
  <2>4. ToSet(worker[w].batch) = {}
    BY <1>1, <2>3, NoElements DEF BatchOK
  <2>5. CASE (Hold(w, "sending", ms) \/ Hold(w, "backoff", ms)) /\ NoDlq
    <3>1. ToSet(dlq) \subseteq ToSet(dlq')
      BY <1>1, <2>2, <2>5, DlqKeeps
    <3>2. /\ worker'[w].at \in {"sending", "backoff"} /\ worker'[w].batch = ms
          /\ worker'[w].loop = worker[w].loop /\ \A v \in Workers \ {w} : worker'[v] = worker[v]
      BY <1>2, <2>2, <2>5, WorkerMoves
    <3>3. KeepInv'
      BY <1>3, <1>4, <1>5, <2>2, <2>3, <2>4, <3>1, <3>2, WorkerKeeps
    <3> QED
      BY <1>3, <3>1, <3>3, DiskStepStays
  <2>6. CASE Settled(w) /\ DlqAppend(ms)
    <3>1. /\ ToSet(dlq) \subseteq ToSet(dlq')
          /\ harm' \cap ProducerHarm = {} => ToSet(ms) \subseteq ToSet(dlq')
      BY <1>1, <1>6, <2>2, <2>6, DlqKeeps
    <3>2. /\ worker'[w].at \in {"take", "giveup"} /\ worker'[w].batch = <<>>
          /\ worker'[w].loop = worker[w].loop /\ \A v \in Workers \ {w} : worker'[v] = worker[v]
      BY <1>2, <2>6, WorkerMoves
    <3>3. KeepInv'
      BY <1>3, <1>4, <1>5, <2>2, <2>3, <2>4, <3>1, <3>2, WorkerKeeps
    <3> QED
      BY <1>3, <3>1, <3>3, DiskStepStays
  <2> QED
    BY <2>3, <2>5, <2>6
<1>8. CASE Answered(w)
  <2>1. worker[w].at = "sending" /\ Published(worker[w].batch, worker[w].gen) /\ Settled(w) /\ UNCHANGED queue
    BY <1>8 DEF Answered
  <2>2. /\ LateOK' /\ ToSet(dlq) \subseteq ToSet(dlq')
        /\ harm' \cap ProducerHarm = {} => ToSet(worker[w].batch) \subseteq ToSet(log') \cup ToSet(dlq')
    BY <1>1, <1>2, <1>3, <2>1, PublishedKeeps
  <2>3. /\ worker'[w].at \in {"take", "giveup"} /\ worker'[w].batch = <<>>
        /\ worker'[w].loop = worker[w].loop /\ \A v \in Workers \ {w} : worker'[v] = worker[v]
    BY <1>2, <2>1, WorkerMoves
  <2>4. worker[w].loop # "stopped"
    BY <1>1, <2>1 DEF BatchOK
  <2>5. KeepInv'
    BY <1>3, <1>4, <2>1, <2>2, <2>3, <2>4, WorkerKeeps
  <2> QED
    BY <1>3, <2>2, <2>5, DiskStepStays
<1>9. CASE Requeue(w)
  <2> DEFINE ms == worker[w].batch
             room == QueueSize - Len(queue)
             n == IF Len(ms) < room THEN Len(ms) ELSE room
             head == SubSeq(ms, 1, n)
             rest == SubSeq(ms, n + 1, Len(ms))
  <2>1. ms \in Seq(Msgs) /\ Len(ms) \in Nat
    BY <1>2, LenProperties
  <2>2. n \in Nat /\ n <= Len(ms)
    BY <1>2, <2>1
  <2>3. /\ queue' = queue \o head /\ DlqAppend(rest)
        /\ worker[w].at = "backoff" /\ Settled(w) /\ UNCHANGED late
    BY <1>9 DEF Requeue, Requeued
  <2>4. head \in Seq(Msgs) /\ rest \in Seq(Msgs) /\ ToSet(ms) = ToSet(head) \cup ToSet(rest)
    <3> HIDE DEF ms, n
    <3> QED
      BY <2>1, <2>2, CutElements
  <2>5. ms = worker[w].batch
    OBVIOUS
  <2> HIDE DEF ms, n, head, rest
  <2>6. ToSet(queue') = ToSet(queue) \cup ToSet(head)
    BY <1>2, <2>3, <2>4, ConcatElements
  <2>7. /\ ToSet(dlq) \subseteq ToSet(dlq')
        /\ harm' \cap ProducerHarm = {} => ToSet(rest) \subseteq ToSet(dlq')
    BY <1>1, <1>6, <2>3, <2>4, DlqKeeps
  <2>8. /\ worker'[w].at \in {"take", "giveup"} /\ worker'[w].batch = <<>>
        /\ worker'[w].loop = worker[w].loop /\ \A v \in Workers \ {w} : worker'[v] = worker[v]
    BY <1>2, <2>3, WorkerMoves
  <2>9. worker[w].loop # "stopped"
    BY <1>1, <2>3 DEF BatchOK
  <2>10. harm' \cap ProducerHarm = {} =>
            ToSet(queue) \cup ToSet(worker[w].batch)
                \subseteq ToSet(queue') \cup ToSet(worker'[w].batch) \cup ToSet(log') \cup ToSet(dlq')
    BY <2>4, <2>5, <2>6, <2>7
  <2>11. KeepInv'
    BY <1>3, <1>4, <1>5, <2>3, <2>7, <2>8, <2>9, <2>10, WorkerKeeps
  <2> QED
    BY <1>3, <2>7, <2>11, DiskStepStays
<1>10. CASE StartDrain(w)
  <2>1. /\ life = "closing" /\ worker[w].at = "take" /\ worker' = [worker EXCEPT ![w] = Idle("drain")]
        /\ UNCHANGED <<queue, late, dlq>>
    BY <1>10 DEF StartDrain, files
  <2>2. /\ worker'[w].at = "take" /\ worker'[w].batch = <<>> /\ worker'[w].loop = "drain"
        /\ \A v \in Workers \ {w} : worker'[v] = worker[v]
    BY <1>2, <2>1, WorkerMoves
  <2>3. ToSet(worker[w].batch) = {} /\ ToSet(dlq) \subseteq ToSet(dlq')
    BY <1>1, <2>1, NoElements DEF BatchOK
  <2>4. KeepInv'
    BY <1>3, <1>4, <1>5, <2>1, <2>2, <2>3, WorkerKeeps
  <2> QED
    BY <1>3, <2>3, <2>4, DiskStepStays
<1>11. CASE StopWorker(w)
  <2>1. /\ worker[w].loop = "drain" /\ worker' = [worker EXCEPT ![w] = Idle("stopped")]
        /\ queue' = <<>> /\ UNCHANGED late /\ worker[w].at \in {"take", "giveup"}
        /\ (queue = <<>> /\ NoDlq) \/ DlqAppend(queue)
    BY <1>11 DEF StopWorker
  <2>2. /\ worker'[w].at = "take" /\ worker'[w].batch = <<>> /\ worker'[w].loop = "stopped"
        /\ \A v \in Workers \ {w} : worker'[v] = worker[v]
    BY <1>2, <2>1, WorkerMoves
  <2>3. ToSet(worker[w].batch) = {}
    BY <1>1, <2>1, NoElements DEF BatchOK
  <2>4. /\ ToSet(dlq) \subseteq ToSet(dlq')
        /\ harm' \cap ProducerHarm = {} => ToSet(queue) \subseteq ToSet(dlq')
    <3>1. CASE queue = <<>> /\ NoDlq
      BY <1>1, <1>2, <3>1, DlqKeeps, NoElements
    <3>2. CASE DlqAppend(queue)
      BY <1>1, <1>2, <1>6, <3>2, DlqKeeps
    <3> QED
      BY <2>1, <3>1, <3>2
  <2>5. KeepInv'
    BY <1>3, <1>4, <1>5, <2>1, <2>2, <2>3, <2>4, WorkerKeeps
  <2> QED
    BY <1>3, <2>4, <2>5, DiskStepStays
<1> QED
  BY <1>7, <1>8, <1>9, <1>10, <1>11 DEF WorkerStep

\* Send and the overflow goroutines leave the workers alone.
LEMMA SendKeeps ==
  ASSUME ProducerInv, KeepInv, NEW m \in Msgs, Send(m)
  PROVE  KeepInv' /\ DiskStep
<1>1. /\ LateOK /\ DiskOK /\ BatchOK /\ LoopOK /\ GoneOK /\ Kept /\ FilesOK /\ queue \in Seq(Msgs)
      /\ over \in [Msgs -> {"none", "spawned", "closed", "half"}]
      /\ sent \in [Msgs -> {"never", "no", "intime", "afterClose", "toNop"}]
      /\ life \in {"up", "closing"}
  BY ProducerParts DEF KeepInv, CallOK, MemoryOK, SideOK, Send
<1>2. UNCHANGED <<kind, life, link, worker, snap, replay, late>>
  BY DEF Send
<1>3. BrokerGrows /\ harm \subseteq harm'
  BY SendTypes DEF BrokerGrows
<1>4. LateOK' /\ BatchOK' /\ GoneOK'
  BY <1>1, <1>2, <1>3 DEF LateOK, BatchOK, GoneOK
<1>5. /\ \A k \in Msgs : k # m => sent'[k] = sent[k]
      /\ sent'[m] = IF Buffered(kind) /\ ~HasBuffer THEN "toNop"
                    ELSE IF life = "up" THEN "intime" ELSE "afterClose"
  BY <1>1 DEF Send, Sent
<1>6. harm' \cap ProducerHarm = {} => {"disk", "full"} \cap harm' = {}
  BY DEF ProducerHarm
<1>7. CASE ~Buffered(kind)
  <2>1. ~Buffered(kind)' /\ UNCHANGED dlq
    BY <1>2, <1>7 DEF Buffered, HasBuffer, Send, SendUnbuffered
  <2>2. LoopOK' /\ Kept'
    BY <2>1 DEF LoopOK, Kept
  <2>3. DiskOK' /\ DiskStep
    BY <1>1, <1>2, <1>3, <2>1, DiskStays, DiskStepStays
  <2> QED
    BY <1>4, <2>2, <2>3 DEF KeepInv
\* A nopProducer: nothing that is kept changes, and the message does not count.
<1>9. CASE Buffered(kind) /\ ~HasBuffer
  <2>1. UNCHANGED <<queue, over, dlq, harm>> /\ sent'[m] = "toNop" /\ link = "none"
    BY <1>5, <1>9 DEF Send, SendUnbuffered, faultVars, HasBuffer
  <2>2. DiskOK' /\ DiskStep
    BY <1>1, <1>2, <1>3, <2>1, DiskStays, DiskStepStays
  <2>3. LoopOK'
    <3>1. sent[m] = "no" /\ ToSet(queue) \subseteq Msgs
      BY <1>1, ToSetType DEF Send
    <3> QED
      BY <1>1, <1>2, <1>5, <1>9, <2>1, <3>1 DEF LoopOK, Buffered
  <2>4. Kept'
    <3>1. ASSUME NEW k \in Msgs, OnDisk(k) \/ InMemory(k) PROVE Somewhere(k)'
      BY <1>2, <2>1, <3>1 DEF Somewhere, OnDisk, InMemory
    <3> QED
      BY <1>1, <1>3, <1>5, <2>1, <3>1, KeptStays
  <2> QED
    BY <1>4, <2>2, <2>3, <2>4 DEF KeepInv
<1>8. CASE HasBuffer
  <2>1. SendBuffered(m) /\ Buffered(kind) /\ link # "none"
    BY <1>8 DEF Send, HasBuffer
  <2>2. /\ ToSet(dlq) \subseteq ToSet(dlq')
        /\ ToSet(queue) \subseteq ToSet(queue') /\ ToSet(queue') \subseteq ToSet(queue) \cup {m}
        /\ \A k \in Msgs : over[k] # "none" => over'[k] # "none"
        /\ harm' \cap ProducerHarm = {} =>
              m \in ToSet(queue') \/ over'[m] # "none" \/ m \in ToSet(dlq')
    <3>1. CASE queue' = Append(queue, m) /\ UNCHANGED over /\ NoDlq
      <4>1. ToSet(queue') = ToSet(queue) \cup {m}
        BY <1>1, <3>1, AppendElements
      <4> QED
        BY <1>1, <3>1, <4>1 DEF NoDlq
    <3>2. CASE over' = [over EXCEPT ![m] = "spawned"] /\ UNCHANGED queue /\ NoDlq
      BY <1>1, <3>2 DEF NoDlq
    <3>3. CASE UNCHANGED <<queue, over>> /\ DlqAppend(<<m>>)
      <4>1. <<m>> \in Seq(Msgs) /\ ToSet(<<m>>) = {m}
        BY OneMessage, OneElement
      <4>2. /\ ToSet(dlq) \subseteq ToSet(dlq')
            /\ {"disk", "full"} \cap harm' = {} => ToSet(dlq') = ToSet(dlq) \cup ToSet(<<m>>)
        BY <1>1, <3>3, <4>1, DlqKeeps
      <4> QED
        BY <1>6, <3>3, <4>1, <4>2
    <3> QED
      BY <2>1, <3>1, <3>2, <3>3 DEF SendBuffered
  <2>3. DiskOK' /\ DiskStep
    BY <1>1, <1>2, <1>3, <2>2, DiskStays, DiskStepStays
  <2>4. LoopOK'
    <3>1. ToSet(queue) \subseteq Msgs
      BY <1>1, ToSetType
    <3>2. life # "up" => sent'[m] = "afterClose"
      BY <1>5, <1>8
    <3> QED
      BY <1>1, <1>2, <1>5, <2>1, <2>2, <3>1, <3>2 DEF LoopOK, Buffered
  <2>5. Kept'
    <3> SUFFICES ASSUME harm' \cap ProducerHarm = {}, NEW k \in Msgs
                 PROVE  /\ k # m /\ (OnDisk(k) \/ InMemory(k)) => Somewhere(k)'
                        /\ Somewhere(m)'
      BY <1>1, <1>3, <1>5, KeptStays
    <3>1. Somewhere(m)'
      BY <2>2 DEF Somewhere, InMemory, OnDisk
    <3>2. OnDisk(k) => Somewhere(k)'
      BY <1>2, <2>2 DEF Somewhere, OnDisk
    <3>3. InMemory(k) => Somewhere(k)'
      BY <1>2, <2>2 DEF Somewhere, InMemory
    <3> QED
      BY <3>1, <3>2, <3>3
  <2> QED
    BY <1>4, <2>3, <2>4, <2>5 DEF KeepInv
<1> QED
  BY <1>7, <1>8, <1>9

\* SendSync gives its caller either a published message or an error.
LEMMA SendSyncKeeps ==
  ASSUME ProducerInv, KeepInv, NEW m \in Msgs, SendSync(m)
  PROVE  KeepInv' /\ DiskStep
<1>1. /\ LateOK /\ DiskOK /\ BatchOK /\ LoopOK /\ GoneOK /\ Kept /\ life = "up" /\ log \in Seq(Msgs)
      /\ sent \in [Msgs -> {"never", "no", "intime", "afterClose", "toNop"}]
  BY ProducerParts DEF KeepInv, CallOK, LogOK, SideOK, SendSync
<1>2. UNCHANGED <<kind, life, link, queue, worker, over, dlq, snap, replay>> /\ HasBuffer
  BY DEF SendSync, files
<1>3. BrokerGrows /\ harm \subseteq harm'
  BY SendSyncTypes DEF BrokerGrows
<1>4. DiskOK' /\ DiskStep /\ BatchOK'
  BY <1>1, <1>2, <1>3, DiskStays, DiskStepStays DEF BatchOK
<1>5. LoopOK' /\ GoneOK'
  BY <1>1, <1>2 DEF LoopOK, GoneOK, HasBuffer, Buffered
<1>6. LateOK'
  <2>1. late' => late \/ (kind = "rabbitmq" /\ Harm("reply"))
    BY DEF SendSync, SyncPublished, SyncFailed
  <2> QED
    BY <1>1, <1>2, <1>3, <2>1 DEF LateOK, Harm
<1>7. harm' \cap ProducerHarm = {} /\ sent'[m] = "intime" => sent[m] = "intime" \/ m \in ToSet(log')
  <2>1. CASE SyncFailed(m)
    BY <2>1 DEF SyncFailed
  <2>2. CASE SyncPublished(m) /\ Accept(<<m>>)
    <3>1. ToSet(log') = ToSet(log) \cup {m}
      BY <1>1, <2>2, OneMessage, OneElement, ConcatElements DEF Accept
    <3> QED
      BY <3>1
  <2>3. CASE late
    BY <1>1, <1>3, <2>3 DEF LateOK, ProducerHarm
  <2> QED
    BY <2>1, <2>2, <2>3 DEF SendSync, SyncPublished
<1>8. \A k \in Msgs : k # m => sent'[k] = sent[k]
  BY <1>1 DEF SendSync, SyncPublished, SyncFailed, Sent
<1>9. Kept'
  <2>1. ASSUME NEW k \in Msgs, OnDisk(k) \/ InMemory(k) PROVE Somewhere(k)'
    BY <1>2, <2>1 DEF OnDisk, InMemory, Somewhere
  <2>2. \A k \in Msgs : k \in ToSet(log') => Somewhere(k)'
    BY DEF Somewhere
  <2> QED
    BY <1>1, <1>3, <1>7, <1>8, <2>1, <2>2, KeptStays
<1> QED
  BY <1>4, <1>5, <1>6, <1>9 DEF KeepInv

\* Every step of an overflow goroutine.
LEMMA OverKeeps ==
  ASSUME ProducerInv, KeepInv, NEW m \in Msgs, OverStep(m)
  PROVE  KeepInv' /\ DiskStep
<1>1. /\ LateOK /\ DiskOK /\ BatchOK /\ LoopOK /\ GoneOK /\ Kept /\ CallOK /\ FilesOK
      /\ over \in [Msgs -> {"none", "spawned", "closed", "half"}]
  BY ProducerParts DEF KeepInv, CallOK, MemoryOK
<1>2. life # "gone" /\ UNCHANGED <<kind, life, link, sent, queue, worker, snap, replay>>
  BY DEF OverStep, OverStart, OverAnswered, brokerVars
<1>3. BrokerGrows /\ harm \subseteq harm'
  BY OverTypes DEF BrokerGrows
<1>4. <<m>> \in Seq(Msgs) /\ ToSet(<<m>>) = {m}
  BY OneMessage, OneElement
<1>5. /\ LateOK' /\ ToSet(dlq) \subseteq ToSet(dlq')
      /\ \A k \in Msgs : k # m => over'[k] = over[k]
      /\ harm' \cap ProducerHarm = {} => over'[m] # "none" \/ m \in ToSet(log') \cup ToSet(dlq')
  <2>1. CASE OverStart(m)
    <3>1. UNCHANGED late => LateOK'
      BY <1>1, <1>2, <1>3 DEF LateOK
    <3>2. harm' \cap ProducerHarm = {} => {"disk", "full"} \cap harm' = {}
      BY DEF ProducerHarm
    <3>3. UNCHANGED late
      BY <2>1 DEF OverStart
    <3>4. CASE BreakerAdmits /\ over' = [over EXCEPT ![m] = breaker.state] /\ NoDlq
      <4>1. breaker.state # "none"
        BY <3>4 DEF BreakerAdmits
      <4> QED
        BY <1>1, <3>1, <3>3, <3>4, <4>1 DEF NoDlq
    <3>5. CASE over' = [over EXCEPT ![m] = "none"] /\ DlqAppend(<<m>>)
      <4>1. /\ ToSet(dlq) \subseteq ToSet(dlq')
            /\ {"disk", "full"} \cap harm' = {} => ToSet(dlq') = ToSet(dlq) \cup ToSet(<<m>>)
        BY <1>1, <1>4, <3>5, DlqKeeps
      <4> QED
        BY <1>1, <1>4, <3>1, <3>2, <3>3, <3>5, <4>1
    <3> QED
      BY <2>1, <3>4, <3>5 DEF OverStart
  <2>2. CASE OverAnswered(m)
    <3>1. over[m] \in Gens /\ Published(<<m>>, over[m]) /\ over' = [over EXCEPT ![m] = "none"]
      BY <2>2 DEF OverAnswered, Gens
    <3>2. /\ LateOK' /\ ToSet(dlq) \subseteq ToSet(dlq')
          /\ harm' \cap ProducerHarm = {} => ToSet(<<m>>) \subseteq ToSet(log') \cup ToSet(dlq')
      BY <1>1, <1>2, <1>4, <3>1, PublishedKeeps
    <3> QED
      BY <1>1, <1>4, <3>1, <3>2
  <2> QED
    BY <2>1, <2>2 DEF OverStep
<1>6. DiskOK' /\ DiskStep
  BY <1>1, <1>2, <1>3, <1>5, DiskStays, DiskStepStays
<1>7. BatchOK' /\ LoopOK' /\ GoneOK'
  BY <1>1, <1>2 DEF BatchOK, LoopOK, GoneOK
<1>8. Kept'
  <2> SUFFICES ASSUME harm' \cap ProducerHarm = {}, NEW k \in Msgs, OnDisk(k) \/ InMemory(k)
               PROVE  Somewhere(k)'
    BY <1>1, <1>2, <1>3, KeptStays
  <2>1. OnDisk(k) => Somewhere(k)'
    BY <1>2, <1>5 DEF Somewhere, OnDisk
  <2>2. k = m => Somewhere(k)'
    BY <1>5 DEF Somewhere, InMemory, OnDisk
  <2>3. k # m /\ InMemory(k) => Somewhere(k)'
    BY <1>2, <1>5 DEF Somewhere, InMemory
  <2> QED
    BY <2>1, <2>2, <2>3
<1> QED
  BY <1>5, <1>6, <1>7, <1>8 DEF KeepInv

\* The lines that are kept and those that were relayed are all the lines.
LEMMA RestCovers ==
  ASSUME NEW s \in Seq(Msgs), NEW from \in Nat \ {0}, NEW S,
         \A i \in 1 .. Len(s) : i < from => s[i] \in S
  PROVE  ToSet(s) \subseteq ToSet(SubSeq(s, from, Len(s))) \cup S
<1>1. Len(s) \in Nat
  BY LenProperties
<1>2. CASE from <= Len(s)
  <2>1. from - 1 \in Nat /\ from - 1 <= Len(s) /\ (from - 1) + 1 = from
    BY <1>1, <1>2
  <2>2. ToSet(SubSeq(s, (from - 1) + 1, Len(s))) = {s[i] : i \in (from - 1) + 1 .. Len(s)}
    BY <2>1, CutElements
  <2>3. ToSet(SubSeq(s, from, Len(s))) = {s[i] : i \in from .. Len(s)}
    BY <2>1, <2>2
  <2>4. \A i \in 1 .. Len(s) : i < from \/ i \in from .. Len(s)
    BY <1>1
  <2> QED
    BY <2>3, <2>4, Elements
<1>3. CASE ~(from <= Len(s))
  <2>1. \A i \in 1 .. Len(s) : i < from
    BY <1>1, <1>3
  <2> QED
    BY <2>1, Elements
<1> QED
  BY <1>2, <1>3

\* Each step of the replay: the snapshot goes only when its lines are somewhere else.
LEMMA ReplayDisk ==
  ASSUME ProducerInv, LateOK, DiskOK, ReplayStep
  PROVE  LateOK' /\ DiskOK' /\ DiskStep
<1>1. /\ CallOK /\ FilesOK /\ log \in Seq(Msgs) /\ dlq \in Seq(Msgs) /\ snap \in Seq(Msgs)
      /\ replay \in Replays /\ replay.pos \in Nat \ {0} /\ replay.failed \in Seq(Msgs) /\ replay.gen \in Gens
      /\ replay.at = "sending" => replay.pos <= Len(snap)
  BY ProducerParts DEF CallOK, LogOK, FilesOK, ReplayOK, Replays
<1>2. /\ BrokerGrows /\ UNCHANGED kind /\ harm \subseteq harm' /\ ToSet(log) \subseteq ToSet(log')
  BY <1>1, ReplayTypes, LogGrows DEF BrokerGrows
<1>3. UNCHANGED late => LateOK'
  BY <1>2 DEF LateOK
<1>4. DiskExcused => DiskExcused'
  BY <1>2 DEF DiskExcused
<1>5. DiskExcused => DiskStep
  BY <1>2 DEF DiskExcused, DiskStep
<1>6. ReplayIdle.at = "idle" /\ ReplayIdle.pos = 1
  BY DEF ReplayIdle
<1>7. KeepRest.at = "writeback" /\ KeepRest.failed = SubSeq(snap, replay.pos, Len(snap))
  BY <1>1 DEF KeepRest, Replays
<1>8. CASE ReplayTick
  <2>1. /\ UNCHANGED <<log, dlq, snap, late>>
        /\ replay' = [ReplayIdle EXCEPT !.at = IF snap # <<>> THEN "recover" ELSE "rename"]
    BY <1>8 DEF ReplayTick, files
  <2>2. replay'.at = IF snap # <<>> THEN "recover" ELSE "rename"
    BY <2>1 DEF ReplayIdle
  <2>3. SnapCovered' /\ (replay'.at = "rename" => snap' = <<>>)
    BY <2>1, <2>2 DEF SnapCovered
  <2>4. DiskStep
    BY <2>1, DiskStepStays
  <2> QED
    BY <1>3, <2>1, <2>3, <2>4 DEF DiskOK
<1>9. CASE RecoverAppend
  <2>1. /\ UNCHANGED <<snap, late>> /\ replay' = [replay EXCEPT !.at = "recovered"]
        /\ \/ dlq' = dlq \o snap
           \/ Harm("disk") /\ UNCHANGED dlq
    BY <1>9 DEF RecoverAppend
  <2>2. replay'.at = "recovered"
    BY <1>1, <2>1 DEF Replays
  <2>3. ToSet(dlq) \subseteq ToSet(dlq') /\ (ToSet(snap) \subseteq ToSet(dlq') \/ "disk" \in harm')
    <3>1. ToSet(dlq \o snap) = ToSet(dlq) \cup ToSet(snap)
      BY <1>1, ConcatElements
    <3> QED
      BY <2>1, <3>1 DEF Harm
  <2>4. DiskExcused' \/ SnapCovered'
    BY <2>1, <2>2, <2>3 DEF DiskExcused, SnapCovered
  <2>5. DiskStep
    BY <2>1, <2>3, DiskStepStays
  <2> QED
    BY <1>3, <2>1, <2>2, <2>4, <2>5 DEF DiskOK
<1>10. CASE RecoverRemove
  <2>1. replay.at = "recovered" /\ snap' = <<>> /\ UNCHANGED <<dlq, late>> /\ replay' = [replay EXCEPT !.at = "rename"]
    BY <1>10 DEF RecoverRemove, ReplayAt
  <2>2. replay'.at = "rename"
    BY <1>1, <2>1 DEF Replays
  <2>3. DiskOK'
    BY <2>1, <2>2 DEF DiskOK, SnapCovered
  <2>4. SnapCovered => DiskStep
    BY <2>1 DEF SnapCovered, DiskStep, OnDisk
  <2> QED
    BY <1>3, <1>5, <2>1, <2>3, <2>4 DEF DiskOK
<1>11. CASE ReplayRename
  <2>1. /\ replay.at = "rename" /\ snap' = dlq /\ UNCHANGED late
        /\ replay' = [ReplayIdle EXCEPT !.at = IF dlq = <<>> THEN "idle" ELSE "line"]
    BY <1>11 DEF ReplayRename, ReplayAt
  <2>2. replay'.at \in {"idle", "line"} /\ replay'.pos = 1
    BY <2>1 DEF ReplayIdle
  <2>3. SnapCovered'
    <3>1. Len(dlq) \in Nat
      BY <1>1, LenProperties
    <3>2. \A i \in 1 .. Len(snap') : ~(i < replay'.pos)
      BY <2>1, <2>2, <3>1
    <3> QED
      BY <2>2, <3>2 DEF SnapCovered
  <2>4. ToSet(snap) = {}
    BY <2>1, NoElements DEF DiskOK
  <2>5. DiskStep
    BY <2>1, <2>4 DEF DiskStep, OnDisk
  <2> QED
    BY <1>3, <2>1, <2>2, <2>3, <2>5 DEF DiskOK
<1>12. ASSUME replay.at \in {"line", "sending"}, replay' = KeepRest, UNCHANGED <<snap, dlq>>
       PROVE  DiskOK' /\ DiskStep
  <2>1. SnapCovered => SnapCovered'
    <3> SUFFICES ASSUME SnapCovered PROVE SnapCovered'
      OBVIOUS
    <3>1. \A i \in 1 .. Len(snap) : i < replay.pos => snap[i] \in ToSet(log)
      BY <1>12 DEF SnapCovered
    <3>2. ToSet(snap) \subseteq ToSet(SubSeq(snap, replay.pos, Len(snap))) \cup ToSet(log)
      BY <1>1, <3>1, RestCovers
    <3>3. replay'.at = "writeback" /\ ToSet(snap) \subseteq ToSet(replay'.failed) \cup ToSet(log')
      BY <1>2, <1>7, <1>12, <3>2
    <3> QED
      BY <1>12, <3>3 DEF SnapCovered
  <2>2. replay'.at # "rename"
    BY <1>7, <1>12
  <2>3. DiskStep
    BY <1>12, DiskStepStays
  <2> QED
    BY <1>4, <2>1, <2>2, <2>3 DEF DiskOK
<1>13. CASE ReplayLine
  <2>1. replay.at = "line" /\ UNCHANGED <<log, snap, dlq, late>>
    BY <1>13 DEF ReplayLine, ReplayAt, files
  <2>2. CASE replay' = KeepRest
    BY <1>3, <1>12, <2>1, <2>2
  <2>3. CASE replay' = [replay EXCEPT !.at = "sending", !.gen = breaker.state]
    <3>1. replay'.at = "sending" /\ replay'.pos = replay.pos
      BY <1>1, <2>3 DEF Replays
    <3>2. SnapCovered => SnapCovered'
      BY <2>1, <3>1 DEF SnapCovered
    <3>3. DiskStep
      BY <2>1, DiskStepStays
    <3> QED
      BY <1>3, <1>4, <2>1, <3>1, <3>2, <3>3 DEF DiskOK
  <2> QED
    BY <1>13, <2>2, <2>3 DEF ReplayLine
<1>14. CASE ReplayAnswered
  <2> DEFINE x == snap[replay.pos]
  <2>1. replay.at = "sending" /\ UNCHANGED snap /\ (Relayed(<<x>>) \/ RelayFailed(<<x>>))
    BY <1>14 DEF ReplayAnswered, ReplayAt
  <2>2. x \in Msgs /\ replay.pos <= Len(snap)
    BY <1>1, <2>1, ElementOfSeq
  <2>3. <<x>> \in Seq(Msgs) /\ ToSet(<<x>>) = {x}
    BY <2>2, OneMessage, OneElement
  <2>4. CASE RelayFailed(<<x>>)
    <3>1. replay' = KeepRest /\ UNCHANGED dlq /\ (late' => kind = "rabbitmq" /\ Harm("reply"))
      BY <2>4 DEF RelayFailed
    <3>2. LateOK'
      BY <1>2, <3>1 DEF LateOK, Harm
    <3> QED
      BY <1>12, <2>1, <3>1, <3>2
  <2>5. CASE Relayed(<<x>>)
    <3>1. /\ replay' = [replay EXCEPT !.at = "line", !.pos = @ + 1]
          /\ \/ Accept(<<x>>) /\ NoDlq /\ UNCHANGED late
             \/ late /\ late' = FALSE /\ UNCHANGED dlq
      BY <2>5 DEF Relayed, Confirmed, MistakenlyConfirmed
    <3>2. replay'.at = "line" /\ replay'.pos = replay.pos + 1
      BY <1>1, <3>1 DEF Replays
    <3>3. UNCHANGED dlq /\ LateOK'
      BY <1>3, <3>1 DEF NoDlq, LateOK
    <3>4. DiskStep
      BY <2>1, <3>3, DiskStepStays
    <3>5. late => DiskExcused'
      BY <1>2 DEF LateOK, DiskExcused
    <3>6. SnapCovered /\ Accept(<<x>>) => SnapCovered'
      <4> SUFFICES ASSUME SnapCovered, Accept(<<x>>),
                          NEW i \in 1 .. Len(snap), i < replay.pos + 1
                   PROVE  snap[i] \in ToSet(log')
        BY <2>1, <3>2 DEF SnapCovered
      <4>1. x \in ToSet(log')
        <5>1. ToSet(log \o <<x>>) = ToSet(log) \cup ToSet(<<x>>)
          BY <1>1, <2>3, ConcatElements
        <5> QED
          BY <2>3, <5>1 DEF Accept
      <4>2. i < replay.pos \/ i = replay.pos
        BY <1>1
      <4>3. i < replay.pos => snap[i] \in ToSet(log)
        BY <2>1 DEF SnapCovered
      <4> QED
        BY <1>2, <4>1, <4>2, <4>3
    <3>7. DiskExcused' \/ SnapCovered'
      BY <1>4, <3>1, <3>5, <3>6 DEF DiskOK
    <3> QED
      BY <3>2, <3>3, <3>4, <3>7 DEF DiskOK
  <2> QED
    BY <2>1, <2>4, <2>5
<1>15. CASE ReplayWriteBack
  <2>1. /\ replay.at = "writeback" /\ UNCHANGED <<snap, late>> /\ replay' = [replay EXCEPT !.at = "remove"]
        /\ \/ dlq' = dlq \o replay.failed
           \/ Harm("disk") /\ UNCHANGED dlq
    BY <1>15 DEF ReplayWriteBack, ReplayAt
  <2>2. replay'.at = "remove"
    BY <1>1, <2>1 DEF Replays
  <2>3. ToSet(dlq) \subseteq ToSet(dlq') /\ (ToSet(replay.failed) \subseteq ToSet(dlq') \/ "disk" \in harm')
    <3>1. ToSet(dlq \o replay.failed) = ToSet(dlq) \cup ToSet(replay.failed)
      BY <1>1, ConcatElements
    <3> QED
      BY <2>1, <3>1 DEF Harm
  <2>4. SnapCovered /\ "disk" \notin harm' => SnapCovered'
    BY <1>2, <2>1, <2>2, <2>3 DEF SnapCovered
  <2>5. "disk" \in harm' => DiskExcused'
    BY DEF DiskExcused
  <2>6. DiskStep
    BY <2>1, <2>3, DiskStepStays
  <2> QED
    BY <1>3, <1>4, <2>1, <2>2, <2>4, <2>5, <2>6 DEF DiskOK
<1>16. CASE ReplayRemove
  <2>1. replay.at = "remove" /\ snap' = <<>> /\ UNCHANGED <<dlq, log, late>> /\ replay' = ReplayIdle
    BY <1>16 DEF ReplayRemove, ReplayAt
  <2>2. DiskOK'
    BY <1>6, <2>1 DEF DiskOK, SnapCovered
  <2>3. SnapCovered => DiskStep
    BY <2>1 DEF SnapCovered, DiskStep, OnDisk
  <2> QED
    BY <1>3, <1>5, <2>1, <2>2, <2>3 DEF DiskOK
<1> QED
  BY <1>8, <1>9, <1>10, <1>11, <1>13, <1>14, <1>15, <1>16 DEF ReplayStep

\* Every step of the replay.
LEMMA ReplayKeeps ==
  ASSUME ProducerInv, KeepInv, ReplayStep
  PROVE  KeepInv' /\ DiskStep
<1>1. LateOK /\ DiskOK /\ BatchOK /\ LoopOK /\ GoneOK /\ Kept
  BY DEF KeepInv
<1>2. life # "gone" /\ UNCHANGED <<kind, life, link, sent, queue, worker, over>>
  BY DEF ReplayStep, ReplayTick, RecoverAppend, RecoverRemove, ReplayRename, ReplayLine, ReplayAnswered,
         ReplayWriteBack, ReplayRemove, ReplayAt
<1>3. LateOK' /\ DiskOK' /\ DiskStep
  BY <1>1, ReplayDisk
<1>4. BatchOK' /\ LoopOK' /\ GoneOK'
  BY <1>1, <1>2 DEF BatchOK, LoopOK, GoneOK
<1>5. BrokerGrows /\ harm \subseteq harm'
  BY ReplayTypes DEF BrokerGrows
<1>6. Kept'
  <2> SUFFICES ASSUME harm' \cap ProducerHarm = {}, NEW m \in Msgs, OnDisk(m) \/ InMemory(m)
               PROVE  Somewhere(m)'
    BY <1>1, <1>2, <1>5, KeptStays
  <2>1. "disk" \notin harm' /\ "reply" \notin harm
    BY <1>5 DEF ProducerHarm
  <2>2. OnDisk(m) => Somewhere(m)'
    BY <1>3, <2>1 DEF DiskStep, Somewhere, OnDisk
  <2>3. InMemory(m) => Somewhere(m)'
    BY <1>2 DEF InMemory, Somewhere
  <2> QED
    BY <2>2, <2>3
<1> QED
  BY <1>3, <1>4, <1>6 DEF KeepInv

\* The end of the process: what was in memory is lost only when it did not end by itself.
LEMMA DieKeeps ==
  ASSUME ProducerInv, KeepInv, Die, BrokerGrows,
         Buffered(kind) /\ harm' \cap ProducerHarm = {} =>
            \A m \in Msgs : sent[m] = "intime" => ~InMemory(m)
  PROVE  KeepInv' /\ DiskStep
<1>1. LateOK /\ DiskOK /\ BatchOK /\ LoopOK /\ GoneOK /\ Kept
  BY DEF KeepInv
<1>2. /\ UNCHANGED <<dlq, snap, sent>> /\ life' = "gone" /\ late' = FALSE /\ replay' = ReplayIdle
      /\ worker' = [w \in Workers |-> Idle("stopped")]
  BY DEF Die, files
<1>3. DiskStep
  BY <1>2, DiskStepStays
<1>4. DiskOK'
  <2>1. replay'.at = "idle"
    BY <1>2 DEF ReplayIdle
  <2> QED
    BY <2>1 DEF DiskOK, SnapCovered
<1>5. LateOK' /\ LoopOK'
  BY <1>2 DEF LateOK, LoopOK
<1>6. BatchOK'
  <2>1. Idle("stopped").at = "take" /\ Idle("stopped").batch = <<>>
    BY DEF Idle
  <2> QED
    BY <1>2, <2>1 DEF BatchOK
<1>7. Kept'
  <2> SUFFICES ASSUME Buffered(kind), harm' \cap ProducerHarm = {}, NEW m \in Msgs, sent[m] = "intime",
                      OnDisk(m) \/ InMemory(m)
               PROVE  Somewhere(m)'
    BY <1>1, <1>2, KeptStays
  <2> QED
    BY <1>2 DEF OnDisk, Somewhere
<1>8. GoneOK'
  <2>1. /\ queue' = <<>> /\ \A m \in Msgs : over'[m] = "none"
        /\ \A w \in Workers : worker'[w].batch = <<>>
    BY <1>2 DEF Die, Idle
  <2> QED
    BY <1>2, <2>1, NoElements DEF GoneOK, InMemory
<1> QED
  BY <1>3, <1>4, <1>5, <1>6, <1>7, <1>8 DEF KeepInv

\* A process that starts: every worker holds nothing, and one is in its loop if it connected.
LEMMA StartedLoops ==
  ASSUME NEW f, NEW up \in BOOLEAN, f = [w \in Workers |-> Idle(IF Running(w) /\ up THEN "main" ELSE "stopped")]
  PROVE  /\ \A w \in Workers : f[w].at = "take" /\ f[w].batch = <<>>
         /\ Buffered(kind) /\ up => \E w \in Workers : f[w].loop = "main"
<1>1. \A w \in Workers : f[w] = Idle(IF Running(w) /\ up THEN "main" ELSE "stopped")
  OBVIOUS
<1>2. \A w \in Workers : f[w].at = "take" /\ f[w].batch = <<>>
  BY <1>1 DEF Idle
<1>3. Buffered(kind) => \E w \in Workers : Running(w)
  <2>1. (CHOOSE v \in Workers : TRUE) \in Workers
    BY ProducerAssumption
  <2> QED
    BY <2>1 DEF Buffered, Running, LoopGoroutine
<1>4. \A w \in Workers : Running(w) /\ up => f[w].loop = "main"
  BY <1>1 DEF Idle
<1> QED
  BY <1>2, <1>3, <1>4

\* Start, Close, exit and crash of the process, outages and the breaker's timeout.
LEMMA LifeKeeps ==
  ASSUME ProducerInv, KeepInv, LifeStep
  PROVE  KeepInv' /\ DiskStep
<1>1. LateOK /\ DiskOK /\ BatchOK /\ LoopOK /\ GoneOK /\ Kept
  BY DEF KeepInv
<1>2. BrokerGrows /\ UNCHANGED kind /\ harm \subseteq harm' /\ queue \in Seq(Msgs)
  BY LifeTypes, ProducerParts DEF BrokerGrows, MemoryOK
<1>3. CASE Exit
  <2>1. Quiet /\ Die /\ life = "closing"
    BY <1>3 DEF Exit
  <2>2. ASSUME Buffered(kind), NEW m \in Msgs, sent[m] = "intime" PROVE ~InMemory(m)
    <3>1. over[m] = "none"
      BY <2>1 DEF Quiet, Overflowing
    <3>2. \A w \in Workers : ToSet(worker[w].batch) = {}
      <4>1. \A w \in Workers : worker[w].batch = <<>>
        BY <1>1, <2>1 DEF Quiet, BatchOK
      <4> QED
        BY <4>1, NoElements
    <3>3. m \notin ToSet(queue)
      BY <1>1, <2>1, <2>2 DEF Quiet, LoopOK
    <3> QED
      BY <3>1, <3>2, <3>3 DEF InMemory
  <2> QED
    BY <1>2, <2>1, <2>2, DieKeeps
<1>4. CASE CloseTimeout \/ Crash
  <2>1. Die /\ (Harm("timeout") \/ Harm("crash"))
    BY <1>4 DEF CloseTimeout, Crash
  <2>2. harm' \cap ProducerHarm # {}
    BY <2>1 DEF Harm, ProducerHarm
  <2> QED
    BY <1>2, <2>1, <2>2, DieKeeps
<1>5. ASSUME UNCHANGED <<sent, dlq, snap, queue, over, worker, late, replay>>, LoopOK', GoneOK'
      PROVE  KeepInv' /\ DiskStep
  <2>1. LateOK' /\ BatchOK'
    BY <1>1, <1>2, <1>5 DEF LateOK, BatchOK
  <2>2. DiskOK' /\ DiskStep
    BY <1>1, <1>2, <1>5, DiskStays, DiskStepStays
  <2>3. Kept'
    <3>1. ASSUME NEW m \in Msgs, OnDisk(m) \/ InMemory(m) PROVE Somewhere(m)'
      BY <1>5, <3>1 DEF OnDisk, InMemory, Somewhere
    <3> QED
      BY <1>1, <1>2, <1>5, <3>1, KeptStays
  <2> QED
    BY <1>5, <2>1, <2>2, <2>3 DEF KeepInv
<1>6. CASE BreakerTimeout \/ BrokerDown \/ BrokerUp \/ ConnectionCut
  <2>1. /\ UNCHANGED <<life, sent, dlq, snap, queue, over, worker, late, replay>>
        /\ link' # "none" => link # "none"
    BY <1>6 DEF BreakerTimeout, BrokerDown, BrokerUp, ConnectionCut, prodVars, files
  <2>2. LoopOK' /\ GoneOK'
    BY <1>1, <1>2, <2>1 DEF LoopOK, GoneOK, InMemory
  <2> QED
    BY <1>5, <2>1, <2>2
<1>7. CASE Close
  <2>1. UNCHANGED <<sent, dlq, snap, queue, over, worker, late, replay>> /\ life = "up" /\ life' = "closing"
    BY <1>7 DEF Close, files
  <2>3. UNCHANGED link
    BY <1>7 DEF Close
  <2>2. LoopOK' /\ GoneOK'
    BY <1>1, <1>2, <2>1, <2>3 DEF LoopOK, GoneOK, InMemory
  <2> QED
    BY <1>5, <2>1, <2>2
<1>8. CASE Restart
  <2>1. /\ life = "gone" /\ life' = "up" /\ UNCHANGED <<dlq, snap, sent>> /\ late' = FALSE /\ replay' = ReplayIdle
        /\ worker' = [w \in Workers |-> Idle(IF Running(w) /\ link' = "up" THEN "main" ELSE "stopped")]
        /\ link' \in {"up", "none"} /\ queue' = <<>>
    BY <1>8 DEF Restart, Started, Dialled, files
  <2>2. /\ \A w \in Workers : worker'[w].at = "take" /\ worker'[w].batch = <<>>
        /\ Buffered(kind) /\ link' = "up" => \E w \in Workers : worker'[w].loop = "main"
    BY <2>1, StartedLoops, (link' = "up") \in BOOLEAN
  <2>3. LateOK' /\ BatchOK' /\ LoopOK' /\ GoneOK'
    BY <1>2, <2>1, <2>2, NoElements DEF LateOK, BatchOK, LoopOK, GoneOK, Buffered
  <2>4. DiskOK' /\ DiskStep
    <3>1. replay'.at = "idle"
      BY <2>1 DEF ReplayIdle
    <3> QED
      BY <2>1, <3>1, DiskStepStays DEF DiskOK, SnapCovered
  <2>5. Kept'
    <3>1. ASSUME NEW m \in Msgs, OnDisk(m) \/ InMemory(m) PROVE Somewhere(m)'
      BY <1>1, <2>1, <3>1 DEF GoneOK, OnDisk, Somewhere
    <3> QED
      BY <1>1, <1>2, <2>1, <3>1, KeptStays
  <2> QED
    BY <2>3, <2>4, <2>5 DEF KeepInv
<1> QED
  BY <1>3, <1>4, <1>6, <1>7, <1>8 DEF LifeStep

\* Every step of the producer keeps what was sent somewhere, and lines on the disk.
LEMMA ProducerKeeps ==
  ASSUME ProducerInv, KeepInv, ProducerNext
  PROVE  KeepInv' /\ DiskStep
<1>1. LifeStep \/ ReplayStep \/ (\E w \in Workers : WorkerStep(w))
      \/ (\E m \in Msgs : Send(m) \/ SendSync(m) \/ OverStep(m))
  BY DEF ProducerNext, LifeStep
<1> QED
  BY <1>1, LifeKeeps, ReplayKeeps, WorkerStepKeeps, SendKeeps, SendSyncKeeps, OverKeeps

\* Nothing has been sent at the start.
LEMMA KeepInit ==
  ASSUME NEW d \in Deployments, ProducerInit(d.kinds, d.backlog, d.traffic)
  PROVE  KeepInv
<1>1. /\ late = FALSE /\ replay = ReplayIdle /\ snap = <<>> /\ life \in {"gone", "absent"} /\ log = d.backlog
      /\ worker = [w \in Workers |-> Idle("stopped")] /\ queue = <<>> /\ over = [m \in Msgs |-> "none"]
      /\ \A m \in Msgs : sent[m] = "intime" => m \in ToSet(d.backlog)
  BY DEF ProducerInit
<1>2. \A w \in Workers : worker[w].at = "take" /\ worker[w].batch = <<>>
  BY <1>1 DEF Idle
<1>3. LateOK /\ BatchOK /\ LoopOK /\ GoneOK
  BY <1>1, <1>2, NoElements DEF LateOK, BatchOK, LoopOK, GoneOK, InMemory
<1>4. DiskOK
  BY <1>1 DEF DiskOK, SnapCovered, ReplayIdle
<1>5. Kept
  BY <1>1 DEF Kept, Somewhere
<1> QED
  BY <1>3, <1>4, <1>5 DEF KeepInv

\* Steps of the consumer and of the task service.
LEMMA OthersKeep ==
  ASSUME ProducerInv, KeepInv, UNCHANGED <<brokerVars, prodVars>>, harm \subseteq harm'
  PROVE  KeepInv' /\ DiskStep
<1>1. /\ UNCHANGED <<kind, log, life, link, sent, queue, worker, over, dlq, snap, replay, late>>
      /\ LateOK /\ DiskOK /\ BatchOK /\ LoopOK /\ GoneOK /\ Kept
  BY DEF brokerVars, prodVars, files, KeepInv
<1>2. BrokerGrows
  BY <1>1, LogStays, ProducerParts DEF CallOK
<1>3. LateOK' /\ BatchOK'
  BY <1>1 DEF LateOK, BatchOK
<1>4. LoopOK' /\ GoneOK'
  BY <1>1 DEF LoopOK, GoneOK, InMemory
<1>5. DiskOK' /\ DiskStep
  BY <1>1, <1>2, DiskStays, DiskStepStays
<1>6. Kept'
  <2>1. ASSUME NEW m \in Msgs, OnDisk(m) \/ InMemory(m) PROVE Somewhere(m)'
    BY <1>1, <2>1 DEF OnDisk, InMemory, Somewhere
  <2> QED
    BY <1>1, <1>2, <2>1, KeptStays
<1> QED
  BY <1>3, <1>4, <1>5, <1>6 DEF KeepInv

-----------------------------------------------------------------------------
(* The producer: nothing is in two places.                                   *)

Clean == harm \cap {"reply", "crash", "timeout"} = {}

\* The lines of the snapshot that are still to be relayed or written back.
Live == IF replay.at \in {"line", "sending"} THEN SubSeq(snap, replay.pos, Len(snap))
        ELSE IF replay.at = "writeback" THEN replay.failed ELSE <<>>

Held(m) == \E w \in Workers : m \in ToSet(worker[w].batch)

Anywhere(m) == \/ m \in ToSet(log) \/ m \in ToSet(queue) \/ m \in ToSet(dlq) \/ m \in ToSet(Live)
               \/ over[m] # "none" \/ Held(m)

\* A message is at the broker, queued, filed, in the replay, in an overflow goroutine or held by
\* one worker, and never in two of these places; before it is sent it is in none.
OnePlace(m) ==
    /\ m \in ToSet(log) =>
          m \notin ToSet(queue) \cup ToSet(dlq) \cup ToSet(Live) /\ over[m] = "none" /\ ~Held(m)
    /\ m \in ToSet(queue) =>
          m \notin ToSet(dlq) \cup ToSet(Live) /\ over[m] = "none" /\ ~Held(m)
    /\ m \in ToSet(dlq) => m \notin ToSet(Live) /\ over[m] = "none" /\ ~Held(m)
    /\ m \in ToSet(Live) => over[m] = "none" /\ ~Held(m)
    /\ over[m] # "none" => ~Held(m)
    /\ \A v, w \in Workers : m \in ToSet(worker[v].batch) /\ m \in ToSet(worker[w].batch) => v = w
    /\ sent[m] \in {"never", "no"} => ~Anywhere(m)

\* And once there.
NoRepeats ==
    /\ IsInjective(log) /\ IsInjective(queue) /\ IsInjective(dlq) /\ IsInjective(Live)
    /\ \A w \in Workers : IsInjective(worker[w].batch)

\* Without a crash no snapshot is left over.
NoLeftover == replay.at \notin {"recover", "recovered"} /\ (replay.at = "idle" => snap = <<>>)

OnceInv == life # "absent" /\ Clean => NoLeftover /\ NoRepeats /\ \A m \in Msgs : OnePlace(m)

\* Filing messages that are not in the file repeats no line.
LEMMA DlqOnce ==
  ASSUME FilesOK, NEW ms \in Seq(Msgs), IsInjective(dlq), IsInjective(ms),
         ToSet(dlq) \cap ToSet(ms) = {}, DlqAppend(ms)
  PROVE  IsInjective(dlq') /\ ToSet(dlq') \subseteq ToSet(dlq) \cup ToSet(ms)
<1>1. Len(ms) \in Nat /\ Len(dlq) \in Nat /\ DlqLines \in Nat /\ dlq \in Seq(Msgs)
  BY LenProperties, ProducerAssumption DEF FilesOK
<1>2. DlqRoom(ms) \in Nat /\ DlqRoom(ms) <= Len(ms)
  BY <1>1 DEF DlqRoom
<1> DEFINE head == SubSeq(ms, 1, DlqRoom(ms))
<1>3. head \in Seq(Msgs) /\ ToSet(head) \subseteq ToSet(ms) /\ IsInjective(head)
  BY <1>2, CutElements, CutIsOnce
<1>4. dlq' = dlq \/ dlq' = dlq \o head
  BY DEF DlqAppend, DlqLinesAdded
<1> HIDE DEF head
<1>5. IsInjective(dlq \o head) /\ ToSet(dlq \o head) = ToSet(dlq) \cup ToSet(head)
  BY <1>1, <1>3, ConcatIsOnce, ConcatElements
<1> QED
  BY <1>3, <1>4, <1>5

\* A publication with an answer in time puts its messages into one place, log or file.
LEMMA PublishedOnce ==
  ASSUME CallOK, LateOK, NEW ms \in Seq(Msgs), NEW gen \in Gens, Published(ms, gen), UNCHANGED kind,
         Clean', harm \subseteq harm', IsInjective(log), IsInjective(dlq), IsInjective(ms),
         ToSet(log) \cap ToSet(ms) = {}, ToSet(dlq) \cap ToSet(ms) = {}, ToSet(log) \cap ToSet(dlq) = {}
  PROVE  /\ IsInjective(log') /\ IsInjective(dlq') /\ ToSet(log') \cap ToSet(dlq') = {}
         /\ ToSet(log') \subseteq ToSet(log) \cup ToSet(ms)
         /\ ToSet(dlq') \subseteq ToSet(dlq) \cup ToSet(ms)
<1>1. FilesOK /\ log \in Seq(Msgs)
  BY DEF CallOK, LogOK
<1>2. CASE Confirmed(ms, gen)
  <2>1. log' = log \o ms /\ dlq' = dlq
    BY <1>2 DEF Confirmed, Accept, NoDlq
  <2>2. IsInjective(log \o ms) /\ ToSet(log \o ms) = ToSet(log) \cup ToSet(ms)
    BY <1>1, ConcatIsOnce, ConcatElements
  <2> QED
    BY <2>1, <2>2
<1>3. CASE Unstored(ms, gen)
  <2>1. log' = log /\ DlqAppend(ms)
    BY <1>3 DEF Unstored
  <2>2. IsInjective(dlq') /\ ToSet(dlq') \subseteq ToSet(dlq) \cup ToSet(ms)
    BY <1>1, <2>1, DlqOnce
  <2> QED
    BY <2>1, <2>2
<1>4. ~Unconfirmed(ms, gen) /\ ~MistakenlyConfirmed(ms, gen)
  BY DEF Unconfirmed, MistakenlyConfirmed, LateOK, Clean, Harm
<1> QED
  BY <1>2, <1>3, <1>4 DEF Published

\* What the invariant says at the start of a step that stays clean.
LEMMA OnceParts ==
  ASSUME ProducerInv, OnceInv, harm \subseteq harm', Clean', life # "absent"
  PROVE  /\ NoLeftover /\ NoRepeats /\ \A m \in Msgs : OnePlace(m)
         /\ Live \in Seq(Msgs)
         /\ harm' \cap {"reply", "crash", "timeout"} = {} /\ harm \cap {"reply", "crash", "timeout"} = {}
<1>1. Clean
  BY DEF Clean
<1>2. snap \in Seq(Msgs) /\ Len(snap) \in Nat /\ replay.pos \in Nat \ {0} /\ replay.failed \in Seq(Msgs)
  BY ProducerParts, LenProperties DEF ReplayOK, Replays
<1>3. SubSeq(snap, replay.pos, Len(snap)) \in Seq(Msgs) /\ <<>> \in Seq(Msgs)
  BY <1>2, SubSeqType
<1>4. Live \in Seq(Msgs)
  BY <1>2, <1>3 DEF Live
<1> QED
  BY <1>1, <1>4 DEF OnceInv, Clean

\* Messages move between the queue, one worker, the broker and the file.
LEMMA WorkerOnce ==
  ASSUME \A m \in Msgs : OnePlace(m), NEW w \in Workers, UNCHANGED <<sent, over>>, Live' = Live,
         \A v \in Workers \ {w} : worker'[v] = worker[v],
         NEW pool, pool = ToSet(queue) \cup ToSet(worker[w].batch),
         ToSet(log') \subseteq ToSet(log) \cup pool, ToSet(dlq') \subseteq ToSet(dlq) \cup pool,
         ToSet(queue') \subseteq pool, ToSet(worker'[w].batch) \subseteq pool,
         ToSet(log') \cap ToSet(dlq') = {}, ToSet(log') \cap ToSet(queue') = {},
         ToSet(log') \cap ToSet(worker'[w].batch) = {}, ToSet(dlq') \cap ToSet(queue') = {},
         ToSet(dlq') \cap ToSet(worker'[w].batch) = {}, ToSet(queue') \cap ToSet(worker'[w].batch) = {}
  PROVE  \A m \in Msgs : OnePlace(m)'
<1> SUFFICES ASSUME NEW m \in Msgs PROVE OnePlace(m)'
  OBVIOUS
<1>1. OnePlace(m)
  OBVIOUS
<1>2. m \in ToSet(Live') <=> m \in ToSet(Live)
  OBVIOUS
<1>3. Held(m)' <=> m \in ToSet(worker'[w].batch) \/ \E v \in Workers \ {w} : m \in ToSet(worker[v].batch)
  BY DEF Held
<1>4. Held(m) <=> m \in ToSet(worker[w].batch) \/ \E v \in Workers \ {w} : m \in ToSet(worker[v].batch)
  BY DEF Held
<1>5. m \in pool => m \in ToSet(queue) \/ m \in ToSet(worker[w].batch)
  OBVIOUS
<1>6. m \in pool => /\ m \notin ToSet(Live) /\ over[m] = "none" /\ sent[m] \notin {"never", "no"}
                    /\ m \notin ToSet(log) /\ m \notin ToSet(dlq)
                    /\ \A v \in Workers \ {w} : m \notin ToSet(worker[v].batch)
  BY <1>1, <1>4, <1>5 DEF OnePlace, Anywhere
<1>7. \A u, v \in Workers : m \in ToSet(worker'[u].batch) /\ m \in ToSet(worker'[v].batch) => u = v
  BY <1>1, <1>6 DEF OnePlace
<1> QED
  BY <1>1, <1>2, <1>3, <1>4, <1>6, <1>7 DEF OnePlace, Anywhere

\* One message leaves its caller or its overflow goroutine.
LEMMA SingleOnce ==
  ASSUME \A m \in Msgs : OnePlace(m), NEW m \in Msgs, UNCHANGED worker, Live' = Live,
         \A k \in Msgs : k # m => over'[k] = over[k] /\ sent'[k] = sent[k],
         ToSet(log') \subseteq ToSet(log) \cup {m}, ToSet(dlq') \subseteq ToSet(dlq) \cup {m},
         ToSet(queue') \subseteq ToSet(queue) \cup {m},
         m \notin ToSet(log) \cup ToSet(queue) \cup ToSet(dlq) \cup ToSet(Live) /\ ~Held(m),
         m \in ToSet(log') => m \notin ToSet(queue') \cup ToSet(dlq') /\ over'[m] = "none",
         m \in ToSet(queue') => m \notin ToSet(dlq') /\ over'[m] = "none",
         m \in ToSet(dlq') => over'[m] = "none",
         sent'[m] \in {"never", "no"} =>
            m \notin ToSet(log') \cup ToSet(queue') \cup ToSet(dlq') /\ over'[m] = "none"
  PROVE  \A k \in Msgs : OnePlace(k)'
<1>1. OnePlace(m) /\ m \notin ToSet(Live') /\ ~Held(m)'
  BY DEF Held
<1>2. OnePlace(m)'
  <2>1. \A u, v \in Workers : m \in ToSet(worker'[u].batch) /\ m \in ToSet(worker'[v].batch) => u = v
    BY <1>1 DEF OnePlace
  <2> QED
    BY <1>1, <2>1 DEF OnePlace, Anywhere
<1>3. ASSUME NEW k \in Msgs, k # m PROVE OnePlace(k)'
  <2>1. OnePlace(k) /\ (Held(k)' <=> Held(k)) /\ (k \in ToSet(Live') <=> k \in ToSet(Live))
    BY DEF Held
  <2>2. \A u, v \in Workers : k \in ToSet(worker'[u].batch) /\ k \in ToSet(worker'[v].batch) => u = v
    BY <2>1 DEF OnePlace
  <2> QED
    BY <1>3, <2>1, <2>2 DEF OnePlace, Anywhere
<1> QED
  BY <1>2, <1>3

\* Lines move between the file, the replay and the broker.
LEMMA LinesOnce ==
  ASSUME \A m \in Msgs : OnePlace(m), UNCHANGED <<sent, over, worker, queue>>,
         NEW pool, pool = ToSet(dlq) \cup ToSet(Live),
         ToSet(log') \subseteq ToSet(log) \cup pool, ToSet(dlq') \subseteq pool, ToSet(Live') \subseteq pool,
         ToSet(log') \cap ToSet(dlq') = {}, ToSet(log') \cap ToSet(Live') = {},
         ToSet(dlq') \cap ToSet(Live') = {}
  PROVE  \A m \in Msgs : OnePlace(m)'
<1> SUFFICES ASSUME NEW m \in Msgs PROVE OnePlace(m)'
  OBVIOUS
<1>1. OnePlace(m) /\ (Held(m)' <=> Held(m))
  BY DEF Held
<1>2. m \in pool => /\ m \notin ToSet(log) /\ m \notin ToSet(queue) /\ over[m] = "none" /\ ~Held(m)
                    /\ sent[m] \notin {"never", "no"}
  BY <1>1 DEF OnePlace, Anywhere
<1>3. \A u, v \in Workers : m \in ToSet(worker'[u].batch) /\ m \in ToSet(worker'[v].batch) => u = v
  BY <1>1 DEF OnePlace
<1> QED
  BY <1>1, <1>2, <1>3 DEF OnePlace, Anywhere

\* Messages that go from some places and come to none.
LEMMA FewerOnce ==
  ASSUME \A m \in Msgs : OnePlace(m), UNCHANGED sent,
         ToSet(log') \subseteq ToSet(log), ToSet(dlq') \subseteq ToSet(dlq),
         ToSet(queue') \subseteq ToSet(queue), ToSet(Live') \subseteq ToSet(Live),
         \A m \in Msgs : over'[m] # "none" => over[m] # "none",
         \A w \in Workers : ToSet(worker'[w].batch) \subseteq ToSet(worker[w].batch)
  PROVE  \A m \in Msgs : OnePlace(m)'
<1> SUFFICES ASSUME NEW m \in Msgs PROVE OnePlace(m)'
  OBVIOUS
<1>1. OnePlace(m) /\ (Held(m)' => Held(m))
  BY DEF Held
<1>2. \A u, v \in Workers : m \in ToSet(worker'[u].batch) /\ m \in ToSet(worker'[v].batch) => u = v
  BY <1>1 DEF OnePlace
<1> QED
  BY <1>1, <1>2 DEF OnePlace, Anywhere

\* Every step of a worker.
LEMMA WorkerStepOnce ==
  ASSUME ProducerInv, KeepInv, OnceInv, NEW w \in Workers, WorkerStep(w)
  PROVE  OnceInv'
<1>1. life # "gone" /\ UNCHANGED <<kind, life, sent, over, snap, replay>>
  BY DEF WorkerStep, Take, Answered, Requeue, StartDrain, StopWorker, brokerVars, files
<1>2. harm \subseteq harm'
  BY WorkerStepTypes DEF BrokerGrows
<1> SUFFICES ASSUME life # "absent", Clean'
             PROVE  NoLeftover' /\ NoRepeats' /\ \A m \in Msgs : OnePlace(m)'
  BY <1>1 DEF OnceInv
<1>3. NoLeftover /\ NoRepeats /\ (\A m \in Msgs : OnePlace(m)) /\ Live' = Live
  BY <1>1, <1>2, OnceParts DEF Live
<1>4. /\ CallOK /\ FilesOK /\ LateOK /\ BatchOK /\ log \in Seq(Msgs) /\ dlq \in Seq(Msgs)
      /\ worker \in [Workers -> WorkerStates] /\ breaker \in PBreakerStates
      /\ queue \in Seq(Msgs) /\ Len(queue) \in Nat /\ Len(queue) <= QueueSize /\ QueueSize \in Nat
      /\ worker[w].batch \in Seq(Msgs) /\ worker[w].gen \in Gens
  BY ProducerParts, LenProperties, ProducerAssumption DEF MemoryOK, CallOK, LogOK, FilesOK, KeepInv, WorkerStates
<1>5. NoLeftover'
  BY <1>1, <1>3 DEF NoLeftover
<1>6. /\ IsInjective(log) /\ IsInjective(queue) /\ IsInjective(dlq) /\ IsInjective(Live)
      /\ \A v \in Workers : IsInjective(worker[v].batch)
  BY <1>3 DEF NoRepeats
<1> DEFINE L == ToSet(log)   Q == ToSet(queue)   D == ToSet(dlq)   B == ToSet(worker[w].batch)
<1>7. /\ L \cap Q = {} /\ L \cap D = {} /\ L \cap B = {} /\ Q \cap D = {} /\ Q \cap B = {} /\ D \cap B = {}
  <2>1. L \subseteq Msgs /\ Q \subseteq Msgs /\ D \subseteq Msgs /\ B \subseteq Msgs
    BY <1>4, ToSetType
  <2>2. \A m \in B : Held(m)
    BY DEF Held
  <2> QED
    BY <1>3, <2>1, <2>2 DEF OnePlace
<1>8. ASSUME \A v \in Workers \ {w} : worker'[v] = worker[v],
             IsInjective(log'), IsInjective(dlq'), IsInjective(queue'), IsInjective(worker'[w].batch)
      PROVE  NoRepeats'
  BY <1>3, <1>6, <1>8 DEF NoRepeats
<1>9. CASE Take(w)
  <2>1. Taken \in Nat /\ Taken <= Len(queue)
    BY <1>4, ProducerAssumption DEF Taken
  <2> DEFINE ms == SubSeq(queue, 1, Taken)
             rest == SubSeq(queue, Taken + 1, Len(queue))
  <2>2. /\ ms \in Seq(Msgs) /\ ToSet(queue) = ToSet(ms) \cup ToSet(rest)
        /\ IsInjective(ms) /\ IsInjective(rest) /\ ToSet(ms) \cap ToSet(rest) = {}
    BY <1>4, <1>6, <2>1, CutElements, CutIsOnce
  <2>3. /\ queue' = rest /\ UNCHANGED log
        /\ \/ Hold(w, "sending", ms) /\ NoDlq
           \/ Hold(w, "backoff", ms) /\ NoDlq
           \/ Settled(w) /\ DlqAppend(ms)
    BY <1>9 DEF Take, Rejected, brokerVars
  <2> HIDE DEF ms, rest
  <2>4. CASE (Hold(w, "sending", ms) \/ Hold(w, "backoff", ms)) /\ NoDlq
    <3>1. worker'[w].batch = ms /\ (\A v \in Workers \ {w} : worker'[v] = worker[v]) /\ UNCHANGED dlq
      BY <1>4, <2>2, <2>4, WorkerMoves DEF NoDlq
    <3>2. NoRepeats'
      BY <1>6, <1>8, <2>2, <2>3, <3>1
    <3>3. \A m \in Msgs : OnePlace(m)'
      <4> DEFINE B2 == ToSet(worker'[w].batch)
      <4>1. B2 = ToSet(ms) /\ ToSet(queue') = ToSet(rest) /\ ToSet(log') = L /\ ToSet(dlq') = D
        BY <2>3, <3>1
      <4> HIDE DEF B2, L, Q, D, B
      <4>2. Q = ToSet(ms) \cup ToSet(rest) /\ ToSet(ms) \cap ToSet(rest) = {}
        BY <2>2 DEF Q
      <4>3. /\ ToSet(queue') \subseteq Q \cup B /\ B2 \subseteq Q \cup B
            /\ L \cap ToSet(queue') = {} /\ L \cap B2 = {} /\ D \cap ToSet(queue') = {} /\ D \cap B2 = {}
            /\ ToSet(queue') \cap B2 = {}
        BY <1>7, <4>1, <4>2
      <4> QED
        BY <1>1, <1>3, <1>7, <3>1, <4>1, <4>3, WorkerOnce DEF B2, L, Q, D, B
    <3> QED
      BY <1>5, <3>2, <3>3
  <2>5. CASE Settled(w) /\ DlqAppend(ms)
    <3>1. worker'[w].batch = <<>> /\ ToSet(worker'[w].batch) = {} /\ \A v \in Workers \ {w} : worker'[v] = worker[v]
      BY <1>4, <2>5, WorkerMoves, NoElements
    <3>2. IsInjective(dlq') /\ ToSet(dlq') \subseteq ToSet(dlq) \cup ToSet(ms)
      BY <1>4, <1>6, <1>7, <2>2, <2>5, DlqOnce
    <3>3. NoRepeats'
      BY <1>6, <1>8, <2>2, <2>3, <3>1, <3>2, EmptyIsOnce
    <3>4. \A m \in Msgs : OnePlace(m)'
      <4>1. ToSet(queue') = ToSet(rest) /\ ToSet(log') = L
        BY <2>3
      <4>2. /\ ToSet(queue') \subseteq Q /\ ToSet(dlq') \subseteq D \cup Q
            /\ ToSet(log') \cap ToSet(dlq') = {} /\ ToSet(log') \cap ToSet(queue') = {}
            /\ ToSet(dlq') \cap ToSet(queue') = {}
        BY <1>7, <2>2, <3>2, <4>1
      <4> QED
        BY <1>1, <1>3, <3>1, <4>1, <4>2, WorkerOnce
    <3> QED
      BY <1>5, <3>3, <3>4
  <2> QED
    BY <2>3, <2>4, <2>5
<1>10. CASE Answered(w)
  <2>1. Published(worker[w].batch, worker[w].gen) /\ Settled(w) /\ UNCHANGED queue
    BY <1>10 DEF Answered
  <2>2. worker'[w].batch = <<>> /\ ToSet(worker'[w].batch) = {} /\ \A v \in Workers \ {w} : worker'[v] = worker[v]
    BY <1>4, <2>1, WorkerMoves, NoElements
  <2>3. /\ IsInjective(log') /\ IsInjective(dlq') /\ ToSet(log') \cap ToSet(dlq') = {}
        /\ ToSet(log') \subseteq L \cup B /\ ToSet(dlq') \subseteq D \cup B
    BY <1>1, <1>2, <1>4, <1>6, <1>7, <2>1, PublishedOnce
  <2>4. NoRepeats'
    BY <1>6, <1>8, <2>1, <2>2, <2>3, EmptyIsOnce
  <2>5. \A m \in Msgs : OnePlace(m)'
    <3>1. /\ ToSet(queue') = Q /\ ToSet(log') \cap Q = {} /\ ToSet(dlq') \cap Q = {}
      BY <1>7, <2>1, <2>3
    <3>2. ToSet(log') \subseteq L \cup (Q \cup B) /\ ToSet(dlq') \subseteq D \cup (Q \cup B)
      BY <2>3
    <3> QED
      BY <1>1, <1>3, <2>2, <2>3, <3>1, <3>2, WorkerOnce
  <2> QED
    BY <1>5, <2>4, <2>5
<1>11. CASE Requeue(w)
  <2> DEFINE ms == worker[w].batch
             room == QueueSize - Len(queue)
             n == IF Len(ms) < room THEN Len(ms) ELSE room
             head == SubSeq(ms, 1, n)
             rest == SubSeq(ms, n + 1, Len(ms))
  <2>1. ms \in Seq(Msgs) /\ Len(ms) \in Nat /\ IsInjective(ms)
    BY <1>4, <1>6, LenProperties
  <2>2. n \in Nat /\ n <= Len(ms)
    BY <1>4, <2>1
  <2>3. queue' = queue \o head /\ DlqAppend(rest) /\ Settled(w) /\ UNCHANGED log
    BY <1>11 DEF Requeue, Requeued, brokerVars
  <2>4. /\ head \in Seq(Msgs) /\ rest \in Seq(Msgs) /\ ToSet(ms) = ToSet(head) \cup ToSet(rest)
        /\ IsInjective(head) /\ IsInjective(rest) /\ ToSet(head) \cap ToSet(rest) = {}
    <3> HIDE DEF ms, n
    <3> QED
      BY <2>1, <2>2, CutElements, CutIsOnce
  <2>5. B = ToSet(ms)
    OBVIOUS
  <2> HIDE DEF ms, n, head, rest
  <2>6. ToSet(queue') = Q \cup ToSet(head) /\ IsInjective(queue')
    <3>1. Q \cap ToSet(head) = {}
      BY <1>7, <2>4, <2>5
    <3> QED
      BY <1>4, <1>6, <2>3, <2>4, <3>1, ConcatElements, ConcatIsOnce
  <2>7. IsInjective(dlq') /\ ToSet(dlq') \subseteq D \cup ToSet(rest)
    <3>1. D \cap ToSet(rest) = {}
      BY <1>7, <2>4, <2>5
    <3> QED
      BY <1>4, <1>6, <2>3, <2>4, <3>1, DlqOnce
  <2>8. worker'[w].batch = <<>> /\ ToSet(worker'[w].batch) = {} /\ \A v \in Workers \ {w} : worker'[v] = worker[v]
    BY <1>4, <2>3, WorkerMoves, NoElements
  <2>9. NoRepeats'
    BY <1>6, <1>8, <2>3, <2>6, <2>7, <2>8, EmptyIsOnce
  <2>10. /\ ToSet(log') \cap ToSet(dlq') = {} /\ ToSet(log') \cap ToSet(queue') = {}
         /\ ToSet(dlq') \cap ToSet(queue') = {}
    BY <1>7, <2>3, <2>4, <2>5, <2>6, <2>7
  <2>11. /\ ToSet(log') \subseteq L /\ ToSet(dlq') \subseteq D \cup (Q \cup B) /\ ToSet(queue') \subseteq Q \cup B
    BY <2>3, <2>4, <2>5, <2>6, <2>7
  <2>12. \A m \in Msgs : OnePlace(m)'
    BY <1>1, <1>3, <2>8, <2>10, <2>11, WorkerOnce
  <2> QED
    BY <1>5, <2>9, <2>12
<1>12. CASE StartDrain(w)
  <2>1. worker' = [worker EXCEPT ![w] = Idle("drain")] /\ UNCHANGED <<queue, dlq, log>>
    BY <1>12 DEF StartDrain, files, brokerVars
  <2>2. worker'[w].batch = <<>> /\ ToSet(worker'[w].batch) = {} /\ \A v \in Workers \ {w} : worker'[v] = worker[v]
    BY <1>4, <2>1, WorkerMoves, NoElements
  <2>3. NoRepeats'
    BY <1>6, <1>8, <2>1, <2>2, EmptyIsOnce
  <2>4. \A m \in Msgs : OnePlace(m)'
    BY <1>1, <1>3, <1>7, <2>1, <2>2, WorkerOnce
  <2> QED
    BY <1>5, <2>3, <2>4
<1>13. CASE StopWorker(w)
  <2>1. /\ worker' = [worker EXCEPT ![w] = Idle("stopped")] /\ queue' = <<>> /\ UNCHANGED log
        /\ NoDlq \/ DlqAppend(queue)
    BY <1>13 DEF StopWorker, brokerVars
  <2>2. worker'[w].batch = <<>> /\ ToSet(worker'[w].batch) = {} /\ \A v \in Workers \ {w} : worker'[v] = worker[v]
    BY <1>4, <2>1, WorkerMoves, NoElements
  <2>3. IsInjective(dlq') /\ ToSet(dlq') \subseteq D \cup Q /\ ToSet(queue') = {}
    <3>1. NoDlq => dlq' = dlq
      BY DEF NoDlq
    <3>2. DlqAppend(queue) => IsInjective(dlq') /\ ToSet(dlq') \subseteq D \cup Q
      BY <1>4, <1>6, <1>7, DlqOnce
    <3> QED
      BY <1>6, <2>1, <3>1, <3>2, NoElements
  <2>4. NoRepeats'
    BY <1>6, <1>8, <2>1, <2>2, <2>3, EmptyIsOnce
  <2>5. \A m \in Msgs : OnePlace(m)'
    BY <1>1, <1>3, <1>7, <2>1, <2>2, <2>3, WorkerOnce
  <2> QED
    BY <1>5, <2>4, <2>5
<1> QED
  BY <1>9, <1>10, <1>11, <1>12, <1>13 DEF WorkerStep

\* Send puts a message that was nowhere into one place.
LEMMA SendOnce ==
  ASSUME ProducerInv, KeepInv, OnceInv, NEW m \in Msgs, Send(m) \/ SendSync(m)
  PROVE  OnceInv'
<1>1. /\ life \in {"up", "closing"} /\ sent[m] = "no"
      /\ UNCHANGED <<kind, life, worker, snap, replay>>
  BY DEF Send, SendSync, files
<1>2. harm \subseteq harm'
  BY SendTypes, SendSyncTypes DEF BrokerGrows
<1> SUFFICES ASSUME Clean'
             PROVE  NoLeftover' /\ NoRepeats' /\ \A k \in Msgs : OnePlace(k)'
  BY <1>1 DEF OnceInv
<1>3. NoLeftover /\ NoRepeats /\ (\A k \in Msgs : OnePlace(k)) /\ Live' = Live
  BY <1>1, <1>2, OnceParts DEF Live
<1>4. /\ FilesOK /\ LateOK /\ log \in Seq(Msgs) /\ dlq \in Seq(Msgs) /\ queue \in Seq(Msgs)
      /\ over \in [Msgs -> {"none", "spawned", "closed", "half"}]
      /\ sent \in [Msgs -> {"never", "no", "intime", "afterClose", "toNop"}]
  BY ProducerParts DEF MemoryOK, SideOK, CallOK, LogOK, FilesOK, KeepInv
<1>5. NoLeftover'
  BY <1>1, <1>3 DEF NoLeftover
<1>6. /\ IsInjective(log) /\ IsInjective(queue) /\ IsInjective(dlq)
      /\ IsInjective(log') /\ IsInjective(queue') /\ IsInjective(dlq') => NoRepeats'
  BY <1>1, <1>3 DEF NoRepeats
<1>7. /\ m \notin ToSet(log) \cup ToSet(queue) \cup ToSet(dlq) \cup ToSet(Live) /\ ~Held(m) /\ over[m] = "none"
  BY <1>1, <1>3 DEF OnePlace, Anywhere
<1>8. <<m>> \in Seq(Msgs) /\ ToSet(<<m>>) = {m} /\ IsInjective(<<m>>)
  BY OneMessage, OneElement, OneIsOnce
<1>9. Sent(m) => /\ sent'[m] \notin {"never", "no"}
                 /\ \A k \in Msgs : k # m => sent'[k] = sent[k]
  BY <1>4 DEF Sent
<1>10. ASSUME Accept(<<m>>) PROVE IsInjective(log') /\ ToSet(log') = ToSet(log) \cup {m}
  <2>1. ToSet(log) \cap ToSet(<<m>>) = {}
    BY <1>7, <1>8
  <2>2. IsInjective(log \o <<m>>) /\ ToSet(log \o <<m>>) = ToSet(log) \cup ToSet(<<m>>)
    BY <1>4, <1>6, <1>8, <2>1, ConcatIsOnce, ConcatElements
  <2> QED
    BY <1>8, <1>10, <2>2 DEF Accept
\* Only one of the places gets the message.
<1>11. ASSUME Sent(m) \/ UNCHANGED <<sent, log, queue, dlq, over>>,
              \/ UNCHANGED <<queue, dlq, over>> /\ (UNCHANGED log \/ Accept(<<m>>))
              \/ UNCHANGED <<log, dlq, over>> /\ queue' = Append(queue, m)
              \/ UNCHANGED <<log, dlq, queue>> /\ over' = [over EXCEPT ![m] = "spawned"]
              \/ UNCHANGED <<log, queue, over>> /\ DlqAppend(<<m>>)
       PROVE  NoRepeats' /\ \A k \in Msgs : OnePlace(k)'
  <2>1. CASE UNCHANGED <<queue, dlq, over>> /\ (UNCHANGED log \/ Accept(<<m>>))
    <3>1. IsInjective(log') /\ ToSet(log') \subseteq ToSet(log) \cup {m}
      BY <1>6, <1>10, <2>1
    <3> QED
      BY <1>1, <1>3, <1>6, <1>7, <1>9, <1>11, <2>1, <3>1, SingleOnce
  <2>2. CASE UNCHANGED <<log, dlq, over>> /\ queue' = Append(queue, m)
    <3>1. Append(queue, m) = queue \o <<m>>
      BY <1>4
    <3>2. ToSet(queue') = ToSet(queue) \cup {m}
      BY <1>4, <2>2, AppendElements
    <3>3. IsInjective(queue')
      <4>1. ToSet(queue) \cap ToSet(<<m>>) = {}
        BY <1>7, <1>8
      <4>2. IsInjective(queue \o <<m>>)
        BY <1>4, <1>6, <1>8, <4>1, ConcatIsOnce
      <4> QED
        BY <2>2, <3>1, <4>2
    <3> QED
      BY <1>1, <1>3, <1>6, <1>7, <1>9, <1>11, <2>2, <3>2, <3>3, SingleOnce
  <2>3. CASE UNCHANGED <<log, dlq, queue>> /\ over' = [over EXCEPT ![m] = "spawned"]
    <3>1. (\A k \in Msgs : k # m => over'[k] = over[k]) /\ over'[m] = "spawned" /\ Sent(m)
      BY <1>4, <1>7, <1>11, <2>3
    <3> QED
      BY <1>1, <1>3, <1>6, <1>7, <1>9, <2>3, <3>1, SingleOnce
  <2>4. CASE UNCHANGED <<log, queue, over>> /\ DlqAppend(<<m>>)
    <3>1. ToSet(dlq) \cap ToSet(<<m>>) = {}
      BY <1>7, <1>8
    <3>2. IsInjective(dlq') /\ ToSet(dlq') \subseteq ToSet(dlq) \cup {m}
      BY <1>4, <1>6, <1>8, <2>4, <3>1, DlqOnce
    <3> QED
      BY <1>1, <1>3, <1>6, <1>7, <1>9, <1>11, <2>4, <3>2, SingleOnce
  <2> QED
    BY <1>11, <2>1, <2>2, <2>3, <2>4
<1>12. CASE Send(m)
  <2>1. \/ UNCHANGED <<queue, dlq, over>> /\ (UNCHANGED log \/ Accept(<<m>>))
        \/ UNCHANGED <<log, dlq, over>> /\ queue' = Append(queue, m)
        \/ UNCHANGED <<log, dlq, queue>> /\ over' = [over EXCEPT ![m] = "spawned"]
        \/ UNCHANGED <<log, queue, over>> /\ DlqAppend(<<m>>)
    BY <1>12 DEF Send, SendBuffered, SendUnbuffered, PublishInMemory, Dropped, NoDlq
  <2>2. Sent(m)
    BY <1>12 DEF Send
  <2> QED
    BY <1>5, <1>11, <2>1, <2>2
<1>13. CASE SendSync(m)
  <2>1. "reply" \notin harm'
    BY DEF Clean
  <2>2. UNCHANGED <<queue, dlq, over>> /\ (UNCHANGED log \/ Accept(<<m>>))
    BY <1>13 DEF SendSync, SyncPublished, SyncFailed, files
  <2>3. Sent(m) \/ UNCHANGED <<sent, log, queue, dlq, over>>
    BY <1>13, <2>1, <2>2 DEF SendSync, SyncPublished, SyncFailed, Harm
  <2> QED
    BY <1>5, <1>11, <2>2, <2>3
<1> QED
  BY <1>12, <1>13

\* Every step of an overflow goroutine.
LEMMA OverOnce ==
  ASSUME ProducerInv, KeepInv, OnceInv, NEW m \in Msgs, OverStep(m)
  PROVE  OnceInv'
<1>1. /\ over[m] # "none" /\ UNCHANGED <<kind, life, sent, queue, worker, snap, replay>>
  BY DEF OverStep, OverStart, OverAnswered, brokerVars
<1>2. harm \subseteq harm'
  BY OverTypes DEF BrokerGrows
<1> SUFFICES ASSUME life # "absent", Clean'
             PROVE  NoLeftover' /\ NoRepeats' /\ \A k \in Msgs : OnePlace(k)'
  BY <1>1 DEF OnceInv
<1>3. NoLeftover /\ NoRepeats /\ (\A k \in Msgs : OnePlace(k)) /\ Live' = Live
  BY <1>1, <1>2, OnceParts DEF Live
<1>4. /\ CallOK /\ FilesOK /\ LateOK /\ log \in Seq(Msgs) /\ dlq \in Seq(Msgs)
      /\ over \in [Msgs -> {"none", "spawned", "closed", "half"}]
  BY ProducerParts DEF MemoryOK, CallOK, LogOK, FilesOK, KeepInv
<1>5. NoLeftover'
  BY <1>1, <1>3 DEF NoLeftover
<1>6. /\ IsInjective(log) /\ IsInjective(dlq)
      /\ IsInjective(log') /\ IsInjective(dlq') => NoRepeats'
  BY <1>1, <1>3 DEF NoRepeats
<1>7. /\ m \notin ToSet(log) \cup ToSet(queue) \cup ToSet(dlq) \cup ToSet(Live) /\ ~Held(m)
      /\ sent[m] \notin {"never", "no"} /\ ToSet(log) \cap ToSet(dlq) = {}
  <2>1. ToSet(log) \subseteq Msgs
    BY <1>4, ToSetType
  <2> QED
    BY <1>1, <1>3, <2>1 DEF OnePlace, Anywhere
<1>8. <<m>> \in Seq(Msgs) /\ ToSet(<<m>>) = {m} /\ IsInjective(<<m>>)
  BY OneMessage, OneElement, OneIsOnce
<1>9. ToSet(log) \cap ToSet(<<m>>) = {} /\ ToSet(dlq) \cap ToSet(<<m>>) = {}
  BY <1>7, <1>8
<1>10. CASE OverStart(m)
  <2>1. UNCHANGED log
    BY <1>10 DEF OverStart, brokerVars
  <2>2. CASE over' = [over EXCEPT ![m] = breaker.state] /\ UNCHANGED dlq
    <3>1. \A k \in Msgs : k # m => over'[k] = over[k]
      BY <1>4, <2>2
    <3> QED
      BY <1>1, <1>3, <1>5, <1>6, <1>7, <2>1, <2>2, <3>1, SingleOnce
  <2>3. CASE over' = [over EXCEPT ![m] = "none"] /\ DlqAppend(<<m>>)
    <3>1. over'[m] = "none" /\ \A k \in Msgs : k # m => over'[k] = over[k]
      BY <1>4, <2>3
    <3>2. IsInjective(dlq') /\ ToSet(dlq') \subseteq ToSet(dlq) \cup {m}
      BY <1>4, <1>6, <1>8, <1>9, <2>3, DlqOnce
    <3> QED
      BY <1>1, <1>3, <1>5, <1>6, <1>7, <2>1, <3>1, <3>2, SingleOnce
  <2> QED
    BY <1>10, <2>2, <2>3 DEF OverStart, NoDlq
<1>11. CASE OverAnswered(m)
  <2>1. over[m] \in Gens /\ Published(<<m>>, over[m]) /\ over' = [over EXCEPT ![m] = "none"]
    BY <1>11 DEF OverAnswered, Gens
  <2>2. over'[m] = "none" /\ \A k \in Msgs : k # m => over'[k] = over[k]
    BY <1>4, <2>1
  <2>3. /\ IsInjective(log') /\ IsInjective(dlq') /\ ToSet(log') \cap ToSet(dlq') = {}
        /\ ToSet(log') \subseteq ToSet(log) \cup {m} /\ ToSet(dlq') \subseteq ToSet(dlq) \cup {m}
    BY <1>1, <1>2, <1>4, <1>6, <1>7, <1>8, <1>9, <2>1, PublishedOnce
  <2>4. m \in ToSet(log') => m \notin ToSet(dlq')
    BY <2>3
  <2> QED
    BY <1>1, <1>3, <1>5, <1>6, <1>7, <2>2, <2>3, <2>4, SingleOnce
<1> QED
  BY <1>10, <1>11 DEF OverStep

\* Every step of the replay.
LEMMA ReplayOnce ==
  ASSUME ProducerInv, KeepInv, OnceInv, ReplayStep
  PROVE  OnceInv'
<1>1. UNCHANGED <<kind, life, sent, queue, worker, over>>
  BY DEF ReplayStep, ReplayTick, RecoverAppend, RecoverRemove, ReplayRename, ReplayLine, ReplayAnswered,
         ReplayWriteBack, ReplayRemove, ReplayAt
<1>2. harm \subseteq harm'
  BY ReplayTypes DEF BrokerGrows
<1> SUFFICES ASSUME life # "absent", Clean'
             PROVE  NoLeftover' /\ NoRepeats' /\ \A k \in Msgs : OnePlace(k)'
  BY <1>1 DEF OnceInv
<1>3. NoLeftover /\ NoRepeats /\ (\A k \in Msgs : OnePlace(k)) /\ Live \in Seq(Msgs) /\ "reply" \notin harm'
  BY <1>1, <1>2, OnceParts
<1>4. /\ LateOK /\ DiskOK /\ log \in Seq(Msgs) /\ dlq \in Seq(Msgs) /\ snap \in Seq(Msgs)
      /\ replay \in Replays /\ replay.pos \in Nat \ {0}
      /\ replay.at = "sending" => replay.pos <= Len(snap)
  BY ProducerParts DEF ReplayOK, CallOK, LogOK, FilesOK, KeepInv, Replays
<1>5. /\ IsInjective(log) /\ IsInjective(dlq) /\ IsInjective(Live)
      /\ IsInjective(log') /\ IsInjective(dlq') /\ IsInjective(Live') => NoRepeats'
  BY <1>1, <1>3 DEF NoRepeats
<1> DEFINE L == ToSet(log)   D == ToSet(dlq)   S == ToSet(Live)
<1>6. L \cap D = {} /\ L \cap S = {} /\ D \cap S = {}
  <2>1. L \subseteq Msgs /\ D \subseteq Msgs
    BY <1>4, ToSetType
  <2> QED
    BY <1>3, <2>1 DEF OnePlace
<1>7. ASSUME UNCHANGED <<log, dlq>>, Live' = Live
      PROVE  NoRepeats' /\ \A k \in Msgs : OnePlace(k)'
  <2>1. \A k \in Msgs : OnePlace(k)'
    BY <1>1, <1>3, <1>7, FewerOnce
  <2> QED
    BY <1>5, <1>7, <2>1
<1>8. ReplayIdle.at = "idle" /\ ReplayIdle.pos = 1
  BY DEF ReplayIdle
<1>9. CASE ReplayTick
  <2>1. /\ replay.at = "idle" /\ UNCHANGED <<log, dlq, snap>>
        /\ replay' = [ReplayIdle EXCEPT !.at = IF snap # <<>> THEN "recover" ELSE "rename"]
    BY <1>9 DEF ReplayTick, ReplayAt, files
  <2>2. snap = <<>> /\ replay'.at = "rename"
    BY <1>3, <2>1 DEF NoLeftover, ReplayIdle
  <2>3. NoLeftover' /\ Live' = Live
    BY <2>1, <2>2 DEF NoLeftover, Live
  <2> QED
    BY <1>7, <2>1, <2>3
<1>10. ~RecoverAppend /\ ~RecoverRemove
  BY <1>3 DEF RecoverAppend, RecoverRemove, ReplayAt, NoLeftover
<1>11. CASE ReplayRename
  <2>1. /\ replay.at = "rename" /\ snap' = dlq /\ dlq' = <<>> /\ UNCHANGED log
        /\ replay' = [ReplayIdle EXCEPT !.at = IF dlq = <<>> THEN "idle" ELSE "line"]
    BY <1>11 DEF ReplayRename, ReplayAt
  <2>2. replay'.at = (IF dlq = <<>> THEN "idle" ELSE "line") /\ replay'.pos = 1
    BY <2>1 DEF ReplayIdle
  <2>3. SubSeq(dlq, 1, Len(dlq)) = dlq
    BY <1>4
  <2>4. Live' = dlq
    BY <2>1, <2>2, <2>3 DEF Live
  <2>5. NoLeftover'
    BY <2>1, <2>2 DEF NoLeftover
  <2>6. NoRepeats'
    BY <1>5, <2>1, <2>4, EmptyIsOnce
  <2>7. ToSet(dlq') = {} /\ ToSet(Live') = D /\ ToSet(log') = L
    BY <2>1, <2>4, NoElements
  <2>8. \A k \in Msgs : OnePlace(k)'
    BY <1>1, <1>3, <1>6, <2>7, LinesOnce
  <2> QED
    BY <2>5, <2>6, <2>8
<1>12. ASSUME replay.at \in {"line", "sending"}, replay' = KeepRest, UNCHANGED snap
       PROVE  NoLeftover' /\ Live' = Live
  <2>1. replay'.at = "writeback" /\ replay'.failed = SubSeq(snap, replay.pos, Len(snap))
    BY <1>4, <1>12 DEF KeepRest, Replays
  <2> QED
    BY <1>12, <2>1 DEF NoLeftover, Live
<1>13. CASE ReplayLine
  <2>1. replay.at = "line" /\ UNCHANGED <<log, dlq, snap>>
    BY <1>13 DEF ReplayLine, ReplayAt, files
  <2>2. CASE replay' = KeepRest
    BY <1>7, <1>12, <2>1, <2>2
  <2>3. CASE replay' = [replay EXCEPT !.at = "sending", !.gen = breaker.state]
    <3>1. replay'.at = "sending" /\ replay'.pos = replay.pos
      BY <1>4, <2>3 DEF Replays
    <3>2. NoLeftover' /\ Live' = Live
      BY <2>1, <3>1 DEF NoLeftover, Live
    <3> QED
      BY <1>7, <2>1, <3>2
  <2> QED
    BY <1>13, <2>2, <2>3 DEF ReplayLine
<1>14. CASE ReplayAnswered
  <2> DEFINE x == snap[replay.pos]
  <2>1. replay.at = "sending" /\ UNCHANGED snap /\ (Relayed(<<x>>) \/ RelayFailed(<<x>>))
    BY <1>14 DEF ReplayAnswered, ReplayAt
  <2>2. CASE RelayFailed(<<x>>)
    <3>1. replay' = KeepRest /\ UNCHANGED <<log, dlq>>
      BY <1>3, <2>2 DEF RelayFailed, Harm
    <3> QED
      BY <1>7, <1>12, <2>1, <3>1
  <2>3. CASE Relayed(<<x>>)
    <3>1. ~late
      BY <1>2, <1>3, <1>4 DEF LateOK
    <3>2. /\ replay' = [replay EXCEPT !.at = "line", !.pos = @ + 1]
          /\ log' = log \o <<x>> /\ UNCHANGED dlq
      BY <2>3, <3>1 DEF Relayed, Confirmed, MistakenlyConfirmed, Accept, NoDlq
    <3>3. replay'.at = "line" /\ replay'.pos = replay.pos + 1
      BY <1>4, <3>2 DEF Replays
    <3>4. /\ Live = SubSeq(snap, replay.pos, Len(snap))
          /\ Live' = SubSeq(snap, replay.pos + 1, Len(snap))
      BY <2>1, <3>3 DEF Live
    <3>5. IsInjective(Live') /\ x \notin ToSet(Live') /\ S = {x} \cup ToSet(Live')
      BY <1>4, <1>5, <2>1, <3>4, RestIsOnce
    <3>6. x \in Msgs
      BY <1>4, <2>1, ElementOfSeq
    <3> HIDE DEF x
    <3>7. <<x>> \in Seq(Msgs) /\ ToSet(<<x>>) = {x} /\ IsInjective(<<x>>)
      BY <3>6, OneMessage, OneElement, OneIsOnce
    <3>8. L \cap ToSet(<<x>>) = {}
      BY <1>6, <3>5, <3>7
    <3>9. IsInjective(log \o <<x>>) /\ ToSet(log \o <<x>>) = L \cup ToSet(<<x>>)
      BY <1>4, <1>5, <3>7, <3>8, ConcatIsOnce, ConcatElements
    <3>10. IsInjective(log') /\ ToSet(log') = L \cup {x} /\ ToSet(dlq') = D
      BY <3>2, <3>7, <3>9
    <3>11. NoRepeats'
      BY <1>5, <3>2, <3>5, <3>10
    <3> HIDE DEF L, D, S
    <3>12. /\ ToSet(log') \subseteq L \cup (D \cup S) /\ ToSet(dlq') \subseteq D \cup S /\ ToSet(Live') \subseteq D \cup S
           /\ ToSet(log') \cap ToSet(dlq') = {} /\ ToSet(log') \cap ToSet(Live') = {}
           /\ ToSet(dlq') \cap ToSet(Live') = {}
      BY <1>6, <3>5, <3>10
    <3>13. \A k \in Msgs : OnePlace(k)'
      BY <1>1, <1>3, <3>12, LinesOnce DEF L, D, S
    <3>14. NoLeftover'
      BY <3>3 DEF NoLeftover
    <3> QED
      BY <3>11, <3>13, <3>14
  <2> QED
    BY <2>1, <2>2, <2>3
<1>15. CASE ReplayWriteBack
  <2>1. /\ replay.at = "writeback" /\ UNCHANGED <<log, snap>> /\ replay' = [replay EXCEPT !.at = "remove"]
        /\ dlq' = dlq \o replay.failed \/ UNCHANGED dlq
    BY <1>15 DEF ReplayWriteBack, ReplayAt
  <2>2. replay'.at = "remove" /\ Live = replay.failed
    BY <1>4, <2>1 DEF Replays, Live
  <2>3. NoLeftover' /\ Live' = <<>>
    BY <2>2 DEF NoLeftover, Live
  <2>4. IsInjective(dlq \o Live) /\ ToSet(dlq \o Live) = D \cup S
    BY <1>3, <1>4, <1>5, <1>6, ConcatIsOnce, ConcatElements
  <2>5. IsInjective(dlq') /\ ToSet(dlq') \subseteq D \cup S /\ ToSet(Live') = {} /\ ToSet(log') = L
    BY <1>5, <2>1, <2>2, <2>3, <2>4, NoElements
  <2>6. NoRepeats'
    BY <1>5, <2>1, <2>3, <2>5, EmptyIsOnce
  <2>7. \A k \in Msgs : OnePlace(k)'
    BY <1>1, <1>3, <1>6, <2>5, LinesOnce
  <2> QED
    BY <2>3, <2>6, <2>7
<1>16. CASE ReplayRemove
  <2>1. replay.at = "remove" /\ snap' = <<>> /\ UNCHANGED <<dlq, log>> /\ replay' = ReplayIdle
    BY <1>16 DEF ReplayRemove, ReplayAt
  <2>2. NoLeftover' /\ Live' = Live
    BY <1>8, <2>1 DEF NoLeftover, Live
  <2> QED
    BY <1>7, <2>1, <2>2
<1> QED
  BY <1>9, <1>10, <1>11, <1>13, <1>14, <1>15, <1>16 DEF ReplayStep

\* Start, Close, exit and crash of the process, outages and the breaker's timeout.
LEMMA LifeOnce ==
  ASSUME ProducerInv, KeepInv, OnceInv, LifeStep
  PROVE  OnceInv'
<1>1. harm \subseteq harm'
  BY LifeTypes DEF BrokerGrows
<1>2. life = "absent" => life' = "absent"
  BY DEF LifeStep, BreakerTimeout, Close, Exit, CloseTimeout, Crash, Restart, BrokerDown, BrokerUp,
         ConnectionCut, prodVars
<1> SUFFICES ASSUME life # "absent", Clean'
             PROVE  NoLeftover' /\ NoRepeats' /\ \A k \in Msgs : OnePlace(k)'
  BY <1>2 DEF OnceInv
<1>3. /\ NoLeftover /\ NoRepeats /\ (\A k \in Msgs : OnePlace(k))
      /\ harm' \cap {"reply", "crash", "timeout"} = {}
  BY <1>1, OnceParts
<1>4. ~CloseTimeout /\ ~Crash
  BY <1>3 DEF CloseTimeout, Crash, Harm
<1>5. CASE BreakerTimeout \/ Close \/ BrokerDown \/ BrokerUp \/ ConnectionCut
  <2>1. UNCHANGED <<log, sent, queue, worker, over, dlq, snap, replay>>
    BY <1>5 DEF BreakerTimeout, Close, BrokerDown, BrokerUp, ConnectionCut, brokerVars, prodVars, files
  <2>2. Live' = Live /\ NoLeftover' /\ NoRepeats'
    BY <1>3, <2>1 DEF Live, NoLeftover, NoRepeats
  <2>3. \A k \in Msgs : OnePlace(k)'
    BY <1>3, <2>1, <2>2, FewerOnce
  <2> QED
    BY <2>2, <2>3
<1>6. CASE Exit \/ Restart
  <2>1. /\ replay.at = "idle"
        /\ UNCHANGED <<log, sent, dlq, snap>> /\ queue' = <<>> /\ over' = [m \in Msgs |-> "none"]
        /\ replay' = ReplayIdle
    <3>1. Restart => replay.at = "idle"
      BY DEF Restart, KeepInv, GoneOK, ReplayIdle
    <3>2. Exit => replay.at = "idle"
      BY DEF Exit, Quiet
    <3> QED
      BY <1>6, <3>1, <3>2 DEF Exit, Die, Restart, Started, brokerVars, files
  <2>2. \A w \in Workers : worker'[w].batch = <<>>
    BY <1>6 DEF Exit, Die, Restart, Started, Idle
  <2>3. replay'.at = "idle" /\ NoLeftover' /\ Live = <<>> /\ Live' = <<>>
    BY <1>3, <2>1 DEF ReplayIdle, NoLeftover, Live
  <2>4. NoRepeats'
    BY <1>3, <2>1, <2>2, <2>3, EmptyIsOnce DEF NoRepeats
  <2>5. \A k \in Msgs : OnePlace(k)'
    <3>1. /\ ToSet(log') = ToSet(log) /\ ToSet(dlq') = ToSet(dlq) /\ ToSet(queue') = {} /\ ToSet(Live') = {}
          /\ \A m \in Msgs : over'[m] = "none"
          /\ \A w \in Workers : ToSet(worker'[w].batch) = {}
      BY <2>1, <2>2, <2>3, NoElements
    <3> QED
      BY <1>3, <2>1, <3>1, FewerOnce
  <2> QED
    BY <2>3, <2>4, <2>5
<1> QED
  BY <1>4, <1>5, <1>6 DEF LifeStep

\* Every step of the producer leaves a message in one place at most.
LEMMA ProducerOnce ==
  ASSUME ProducerInv, KeepInv, OnceInv, ProducerNext
  PROVE  OnceInv'
<1>1. LifeStep \/ ReplayStep \/ (\E w \in Workers : WorkerStep(w))
      \/ (\E m \in Msgs : Send(m) \/ SendSync(m) \/ OverStep(m))
  BY DEF ProducerNext, LifeStep
<1> QED
  BY <1>1, LifeOnce, ReplayOnce, WorkerStepOnce, SendOnce, OverOnce

\* At the start a message is in the backlog of the broker or nowhere.
LEMMA OnceInit ==
  ASSUME NEW d \in Deployments, ProducerInit(d.kinds, d.backlog, d.traffic)
  PROVE  OnceInv
<1>1. /\ life = IF d.traffic = {} THEN "absent" ELSE "gone"
      /\ replay = ReplayIdle /\ snap = <<>> /\ dlq = <<>> /\ queue = <<>> /\ log = d.backlog
      /\ worker = [w \in Workers |-> Idle("stopped")]
      /\ over = [m \in Msgs |-> "none"]
      /\ \A m \in Msgs : m \in ToSet(log) => sent[m] = "intime"
  BY DEF ProducerInit
<1> SUFFICES ASSUME life # "absent"
             PROVE  NoLeftover /\ NoRepeats /\ \A m \in Msgs : OnePlace(m)
  BY DEF OnceInv
<1>2. IsInjective(log)
  BY <1>1, DeploymentAssumption
<1>3. replay.at = "idle" /\ NoLeftover /\ Live = <<>>
  BY <1>1 DEF ReplayIdle, NoLeftover, Live
<1>4. \A w \in Workers : worker[w].batch = <<>>
  BY <1>1 DEF Idle
<1>5. NoRepeats
  BY <1>1, <1>2, <1>3, <1>4, EmptyIsOnce DEF NoRepeats
<1>6. ASSUME NEW m \in Msgs PROVE OnePlace(m)
  <2>1. /\ ToSet(queue) = {} /\ ToSet(dlq) = {} /\ ToSet(Live) = {} /\ over[m] = "none"
        /\ \A w \in Workers : ToSet(worker[w].batch) = {}
    BY <1>1, <1>3, <1>4, NoElements
  <2>2. ~Held(m)
    BY <2>1 DEF Held
  <2> QED
    BY <1>1, <2>1, <2>2 DEF OnePlace, Anywhere
<1> QED
  BY <1>3, <1>5, <1>6

\* Steps of the consumer and of the task service.
LEMMA OthersOnce ==
  ASSUME ProducerInv, OnceInv, UNCHANGED <<brokerVars, prodVars>>, harm \subseteq harm'
  PROVE  OnceInv'
<1>1. UNCHANGED <<log, life, sent, queue, worker, over, dlq, snap, replay>>
  BY DEF brokerVars, prodVars, files
<1> SUFFICES ASSUME life # "absent", Clean'
             PROVE  NoLeftover' /\ NoRepeats' /\ \A k \in Msgs : OnePlace(k)'
  BY <1>1 DEF OnceInv
<1>2. NoLeftover /\ NoRepeats /\ \A k \in Msgs : OnePlace(k)
  BY OnceParts
<1>3. Live' = Live /\ NoLeftover' /\ NoRepeats'
  BY <1>1, <1>2 DEF Live, NoLeftover, NoRepeats
<1>4. \A k \in Msgs : OnePlace(k)'
  BY <1>1, <1>2, <1>3, FewerOnce
<1> QED
  BY <1>3, <1>4

-----------------------------------------------------------------------------
(* The consumer: what its progress covers.                                   *)

Stages == {"none", "fetched", "process", "failed", "commit", "save", "ack"}
Positions == 0 .. MaxLog + 1
Flights == [at : Stages, tries : 0 .. RetryMax, since : 0 .. MaxDay, row : Positions]
Fates == {"none", "handled", "skipped", "dead", "dropped"}

\* What a restart may pass over: it is settled, or one of the two exceptions holds.
Covered(j) ==
    \/ fate[j] # "none"
    \/ j < base
    \/ ~ setup.ordered /\ (j \in InFlight \/ "ccrash" \in harm)

\* Positions and deliveries point into the log or just behind it.
InLog ==
    /\ pos <= Len(log) + 1 /\ mem <= Len(log) + 1 /\ disk <= Len(log) + 1 /\ base <= Len(log) + 1
    /\ InFlight \subseteq 1 .. Len(log)

\* What is about to be committed or acknowledged, and what has been acknowledged, is settled.
StagesOK ==
    /\ \A i \in Indices : flight[i].at \in {"commit", "save", "ack"} => fate[i] # "none"
    /\ \A i \in Indices : flight[i].at = "save" => kind = "kafka" /\ SqlStore
    /\ \A i \in acked : fate[i] # "none"

\* A handler at work was called on some day; what was dropped had no dead-letter file to go to.
HandlingOK ==
    /\ \A i \in Indices : flight[i].at = "process" => flight[i].since >= 1
    /\ \A i \in Indices : fate[i] = "dropped" =>
          kind = "memory" \/ (kind = "kafka" /\ (~setup.dlq \/ "cdisk" \in harm))

\* A delivery needs a consumer, and with ordered_commit it is alone.
FlightOK ==
    /\ cons \in {"off", "absent"} => InFlight = {}
    /\ kind = "kafka" /\ cons = "dead" => InFlight = {}
    /\ setup.ordered => kind = "kafka" /\ \A i, j \in InFlight : i = j

\* The recorded progress, a delivery and the reader's position cover only what may be passed
\* over; behind the reader there may also be what is in flight.
CoverOK ==
    kind = "kafka" =>
        /\ \A j \in 1 .. Len(log) : j < disk \/ j < mem => Covered(j)
        /\ \A i \in InFlight, j \in 1 .. Len(log) : j < i => Covered(j)
        /\ cons = "up" => \A j \in 1 .. Len(log) : j < pos => Covered(j) \/ j \in InFlight

\* The progress in memory is ahead of the file, unless that could not be loaded; the row a strictly ordered commit has read is
\* still the row.
OffsetOK ==
    /\ kind = "kafka" /\ ~ SqlStore /\ cons \in {"up", "closing", "dead"} => mem >= disk \/ "load" \in harm
    /\ setup.ordered => \A i \in Indices : flight[i].at = "save" => flight[i].row = disk

ConsumerInv == ConsumerTypeOK /\ InLog /\ StagesOK /\ HandlingOK /\ FlightOK /\ CoverOK /\ OffsetOK

\* What takes recorded progress back.
OffsetStep ==
    disk' < disk => "load" \in harm \/ \E i \in Indices : StaleSave(i) /\ disk' = i + 1

\* The consumer's types with their sets named.
LEMMA ConsumerTypes ==
  ConsumerTypeOK <=>
    /\ cons \in {"off", "up", "closing", "dead", "absent"} /\ setup \in Setups
    /\ pos \in Positions /\ mem \in Positions /\ disk \in Positions /\ base \in Positions
    /\ flight \in [Indices -> Flights] /\ fate \in [Indices -> Fates]
    /\ acked \subseteq Indices /\ again \subseteq Indices /\ seen \subseteq Msgs
BY DEF ConsumerTypeOK, Positions, Flights, Fates, Stages

\* The same of the next state.
LEMMA ConsumerTypesNext ==
  ASSUME cons' \in {"off", "up", "closing", "dead", "absent"}, setup' \in Setups,
         pos' \in Positions, mem' \in Positions, disk' \in Positions, base' \in Positions,
         flight' \in [Indices -> Flights], fate' \in [Indices -> Fates],
         acked' \subseteq Indices, again' \subseteq Indices, seen' \subseteq Msgs
  PROVE  ConsumerTypeOK'
BY DEF ConsumerTypeOK, Positions, Flights, Fates, Stages

\* A step of the producer or of the task service changes nothing that the consumer relies on.
LEMMA ConsumerStays ==
  ASSUME ConsumerInv, LogOK, BrokerGrows, UNCHANGED consVars
  PROVE  ConsumerInv'
<1>1. /\ UNCHANGED <<kind, cons, setup, pos, mem, disk, flight, fate, acked, again, seen, base>>
      /\ harm \subseteq harm'
  BY DEF consVars, BrokerGrows
<1>2. /\ Len(log) \in Nat /\ Len(log') \in Nat /\ Len(log) <= Len(log')
      /\ pos \in Nat /\ mem \in Nat /\ disk \in Nat /\ base \in Nat
  BY ConsumerTypes, LenProperties DEF LogOK, BrokerGrows, ConsumerInv, Positions
<1>3. InFlight' = InFlight /\ SqlStore' = SqlStore
  BY <1>1 DEF InFlight, SqlStore
<1>4. ConsumerTypeOK'
  BY <1>1 DEF ConsumerInv, ConsumerTypeOK
<1>5. InLog'
  <2>1. pos <= Len(log') + 1 /\ mem <= Len(log') + 1 /\ disk <= Len(log') + 1 /\ base <= Len(log') + 1
    BY <1>2 DEF ConsumerInv, InLog
  <2>2. InFlight \subseteq 1 .. Len(log')
    BY <1>2 DEF ConsumerInv, InLog
  <2> QED
    BY <1>1, <1>3, <2>1, <2>2 DEF InLog
<1>6. StagesOK' /\ HandlingOK' /\ FlightOK' /\ OffsetOK'
  BY <1>1, <1>3 DEF ConsumerInv, StagesOK, HandlingOK, FlightOK, OffsetOK
<1>7. ASSUME NEW j \in 1 .. Len(log), Covered(j)
      PROVE  Covered(j)'
  BY <1>1, <1>3, <1>7 DEF Covered
<1>8. CoverOK'
  <2> SUFFICES ASSUME kind' = "kafka"
               PROVE  /\ \A j \in 1 .. Len(log') : j < disk' \/ j < mem' => Covered(j)'
                      /\ \A i \in InFlight', j \in 1 .. Len(log') : j < i => Covered(j)'
                      /\ cons' = "up" => \A j \in 1 .. Len(log') : j < pos' => Covered(j)' \/ j \in InFlight'
    BY DEF CoverOK
  <2>1. CoverOK /\ InLog /\ kind = "kafka"
    BY <1>1 DEF ConsumerInv
  <2>2. ASSUME NEW j \in 1 .. Len(log'), j < disk \/ j < mem \/ j < pos \/ (\E i \in InFlight : j < i)
        PROVE  j \in 1 .. Len(log)
    BY <1>2, <2>1, <2>2 DEF InLog
  <2>3. \A j \in 1 .. Len(log') : j < disk' \/ j < mem' => Covered(j)'
    BY <1>1, <1>7, <2>1, <2>2 DEF CoverOK
  <2>4. \A i \in InFlight', j \in 1 .. Len(log') : j < i => Covered(j)'
    BY <1>1, <1>3, <1>7, <2>1, <2>2 DEF CoverOK
  <2>5. cons' = "up" => \A j \in 1 .. Len(log') : j < pos' => Covered(j)' \/ j \in InFlight'
    BY <1>1, <1>3, <1>7, <2>1, <2>2 DEF CoverOK
  <2> QED
    BY <2>3, <2>4, <2>5
<1> QED
  BY <1>4, <1>5, <1>6, <1>8 DEF ConsumerInv

-----------------------------------------------------------------------------
(* A step of one delivery.                                                   *)

\* What it does to the consumer's state.
Turns(i) ==
    /\ UNCHANGED <<kind, reachable, log, cons, setup, pos, base>>
    /\ harm \subseteq harm' /\ faults' \in 0 .. MaxFaults
    /\ flight[i].at # "none"
    /\ flight' \in [Indices -> Flights] /\ \A j \in Indices \ {i} : flight'[j] = flight[j]
    /\ fate' \in [Indices -> Fates] /\ \A j \in Indices : fate[j] # "none" => fate'[j] # "none"
    /\ flight'[i].at \in {"commit", "save", "ack"} => fate'[i] # "none"
    /\ kind = "kafka" /\ flight'[i].at = "none" => fate'[i] # "none"
    /\ flight'[i].at = "process" => flight'[i].since >= 1
    /\ \A j \in Indices : fate'[j] = "dropped" =>
          fate[j] = "dropped" \/ kind = "memory" \/ (kind = "kafka" /\ (~setup.dlq \/ "cdisk" \in harm'))
    /\ flight'[i].at = "save" => kind = "kafka" /\ SqlStore /\ flight'[i].row = disk /\ UNCHANGED disk
    /\ acked' \subseteq Indices /\ \A j \in acked' : j \in acked \/ fate'[j] # "none"
    /\ again' \subseteq Indices /\ seen' \subseteq Msgs
    /\ \/ UNCHANGED mem
       \/ kind = "kafka" /\ ~ SqlStore /\ fate'[i] # "none" /\ mem' = i + 1 /\ i + 1 > mem
    /\ \/ UNCHANGED disk
       \/ kind = "kafka" /\ ~ SqlStore /\ disk' = mem'
       \/ /\ kind = "kafka" /\ SqlStore /\ flight[i].at = "save" /\ fate'[i] # "none"
          /\ i + 1 > flight[i].row /\ disk' = i + 1

\* A delivery that moves on or ends moves alone.
LEMMA FlightTypes ==
  ASSUME flight \in [Indices -> Flights], NEW i \in Indices, day \in 1 .. MaxDay
  PROVE  /\ Called(i) =>
              /\ flight' \in [Indices -> Flights] /\ flight'[i].at = "process" /\ flight'[i].since >= 1
              /\ \A j \in Indices \ {i} : flight'[j] = flight[j]
         /\ \A at \in Stages : Moved(i, at) =>
              /\ flight' \in [Indices -> Flights] /\ flight'[i].at = at
              /\ \A j \in Indices \ {i} : flight'[j] = flight[j]
         /\ Ended(i) =>
              /\ flight' \in [Indices -> Flights] /\ flight'[i].at = "none"
              /\ \A j \in Indices \ {i} : flight'[j] = flight[j]
<1>1. ASSUME NEW at \in Stages, Moved(i, at)
      PROVE  /\ flight' \in [Indices -> Flights] /\ flight'[i].at = at
             /\ \A j \in Indices \ {i} : flight'[j] = flight[j]
  BY <1>1 DEF Moved, Flights
<1>2. Landed \in Flights /\ Landed.at = "none"
  BY BrokerAssumption, ConsumerAssumption, TaskAssumption DEF Landed, Flights, Positions, Stages
<1>3. ASSUME Called(i)
      PROVE  /\ flight' \in [Indices -> Flights] /\ flight'[i].at = "process" /\ flight'[i].since >= 1
             /\ \A j \in Indices \ {i} : flight'[j] = flight[j]
  <2>1. flight[i] \in Flights /\ day \in 0 .. MaxDay /\ day >= 1
    BY TaskAssumption
  <2>2. /\ [flight[i] EXCEPT !.at = "process", !.since = day] \in Flights
        /\ [flight[i] EXCEPT !.at = "process", !.since = day].at = "process"
        /\ [flight[i] EXCEPT !.at = "process", !.since = day].since = day
    BY <2>1 DEF Flights, Stages
  <2>3. flight' = [flight EXCEPT ![i] = [flight[i] EXCEPT !.at = "process", !.since = day]]
    BY <1>3 DEF Called, Flights
  <2> QED
    BY <2>1, <2>2, <2>3
<1> QED
  BY <1>1, <1>2, <1>3 DEF Ended

\* A fate, once known, stays.
LEMMA FateTypes ==
  ASSUME fate \in [Indices -> Fates], NEW i \in Indices, NEW how \in Fates \ {"none"}, Settle(i, how)
  PROVE  /\ fate' \in [Indices -> Fates] /\ fate'[i] # "none"
         /\ \A j \in Indices : fate[j] # "none" => fate'[j] # "none"
         /\ \A j \in Indices : fate'[j] = "dropped" => fate[j] = "dropped" \/ how = "dropped"
BY DEF Settle, Fates

\* A fault that leaves the log alone.
LEMMA FaultTypes ==
  ASSUME faults \in 0 .. MaxFaults
  PROVE  /\ Disturb => faults' \in 0 .. MaxFaults /\ harm \subseteq harm'
         /\ \A what : Harm(what) => faults' \in 0 .. MaxFaults /\ harm \subseteq harm' /\ what \in harm'
         /\ UNCHANGED faultVars => faults' \in 0 .. MaxFaults /\ harm \subseteq harm'
BY FaultAssumption DEF Disturb, Harm, faultVars

\* What the handler adds to the faults.
LEMMA ApplyFaults ==
  ASSUME faults \in 0 .. MaxFaults, NEW e, NEW since, ApplyEventProgress(e, since)
  PROVE  harm \subseteq harm' /\ faults' \in 0 .. MaxFaults
<1>1. CASE ApplySkips(e)
  BY <1>1, FaultTypes DEF ApplySkips
<1>2. CASE ApplyCommits(e, since)
  BY <1>2, FaultTypes DEF ApplyCommits, LateRow
<1>3. CASE ApplyDeadlocked(e, since)
  BY <1>3, FaultAssumption DEF ApplyDeadlocked
<1> QED
  BY <1>1, <1>2, <1>3 DEF ApplyEventProgress

\* Each step of a delivery is one of the turns.
LEMMA DeliveryTurns ==
  ASSUME ConsumerInv, LogOK, faults \in 0 .. MaxFaults, day \in 1 .. MaxDay, NEW i \in Indices,
         DeliveryStep(i)
  PROVE  Turns(i) /\ i \in 1 .. Len(log) /\ log[i] \in Msgs
<1>1. /\ flight \in [Indices -> Flights] /\ fate \in [Indices -> Fates]
      /\ acked \subseteq Indices /\ again \subseteq Indices /\ seen \subseteq Msgs
      /\ mem \in Nat /\ disk \in Positions /\ i \in Nat
  BY ConsumerTypes, BrokerAssumption DEF ConsumerInv, Positions, Indices
<1>2. flight[i].at # "none"
  BY DEF DeliveryStep, CheckSeen, Handled, HandlerFailed, GiveUp, CommitOffset, CommitSave, Ack
<1>3. i \in 1 .. Len(log)
  BY <1>2 DEF InFlight, ConsumerInv, InLog
<1>4. log[i] \in Msgs
  BY <1>3, ElementOfSeq DEF LogOK
<1>5. flight[i].at \in {"commit", "save", "ack"} => fate[i] # "none"
  BY DEF ConsumerInv, StagesOK
<1>6. UNCHANGED <<kind, reachable, log, cons, setup, pos, base>>
  BY DEF DeliveryStep, CheckSeen, Handled, HandlerFailed, GiveUp, CommitOffset, CommitSave, Ack, brokerVars
<1>7. CASE CheckSeen(i)
  <2>1. harm \subseteq harm' /\ faults' \in 0 .. MaxFaults
    BY <1>7, FaultTypes DEF CheckSeen
  <2>2. UNCHANGED <<mem, disk, acked, again, seen>>
    BY <1>7 DEF CheckSeen
  <2>3. CASE (Moved(i, "failed") \/ Called(i)) /\ UNCHANGED fate
    <3>1. /\ flight' \in [Indices -> Flights] /\ flight'[i].at \in {"failed", "process"}
          /\ flight'[i].at = "process" => flight'[i].since >= 1
          /\ \A j \in Indices \ {i} : flight'[j] = flight[j]
      BY <1>1, <2>3, FlightTypes DEF Stages
    <3> QED
      BY <1>1, <1>2, <1>3, <1>4, <1>6, <2>1, <2>2, <2>3, <3>1 DEF Turns
  <2>4. CASE (Moved(i, "commit") \/ Moved(i, "ack")) /\ Settle(i, "skipped")
    <3>1. /\ flight' \in [Indices -> Flights] /\ flight'[i].at \in {"commit", "ack"}
          /\ \A j \in Indices \ {i} : flight'[j] = flight[j]
      BY <1>1, <2>4, FlightTypes DEF Stages
    <3>2. /\ fate' \in [Indices -> Fates] /\ fate'[i] # "none"
          /\ \A j \in Indices : fate[j] # "none" => fate'[j] # "none"
          /\ \A j \in Indices : fate'[j] = "dropped" => fate[j] = "dropped"
      BY <1>1, <2>4, FateTypes DEF Fates
    <3> QED
      BY <1>1, <1>2, <1>3, <1>4, <1>6, <2>1, <2>2, <3>1, <3>2 DEF Turns
  <2> QED
    BY <1>7, <2>3, <2>4 DEF CheckSeen
<1>8. CASE Handled(i)
  <2>1. harm \subseteq harm' /\ faults' \in 0 .. MaxFaults
    BY <1>8, ApplyFaults DEF Handled
  <2>2. /\ flight' \in [Indices -> Flights] /\ flight'[i].at = "commit"
        /\ \A j \in Indices \ {i} : flight'[j] = flight[j]
    BY <1>1, <1>8, FlightTypes DEF Handled, Stages
  <2>3. /\ fate' \in [Indices -> Fates] /\ fate'[i] # "none"
        /\ \A j \in Indices : fate[j] # "none" => fate'[j] # "none"
        /\ \A j \in Indices : fate'[j] = "dropped" => fate[j] = "dropped"
    BY <1>1, <1>8, FateTypes DEF Handled, Fates
  <2>4. UNCHANGED <<mem, disk, acked, again, seen>>
    BY <1>8 DEF Handled
  <2> QED
    BY <1>1, <1>2, <1>3, <1>4, <1>6, <2>1, <2>2, <2>3, <2>4 DEF Turns
<1>9. CASE HandlerFailed(i)
  <2>1. harm \subseteq harm' /\ faults' \in 0 .. MaxFaults
    BY <1>9, FaultTypes DEF HandlerFailed
  <2>2. UNCHANGED <<mem, disk, acked, again, seen, fate>> /\ flight[i].at = "process"
    BY <1>9 DEF HandlerFailed
  <2>3. /\ flight' \in [Indices -> Flights] /\ flight'[i].at \in {"failed", "process"}
        /\ flight'[i].at = "process" => flight'[i].since >= 1
        /\ \A j \in Indices \ {i} : flight'[j] = flight[j]
    <3>1. CASE Moved(i, "failed")
      BY <1>1, <3>1, FlightTypes DEF Stages
    <3>2. CASE flight[i].tries < RetryMax /\ flight' = [flight EXCEPT ![i].tries = @ + 1, ![i].since = day]
      <4>1. flight[i] \in Flights /\ flight[i].tries + 1 \in 0 .. RetryMax /\ day \in 0 .. MaxDay /\ day >= 1
        BY <1>1, <3>2, ConsumerAssumption, TaskAssumption DEF Flights
      <4> DEFINE next == [flight[i] EXCEPT !.tries = @ + 1, !.since = day]
      <4>2. next \in Flights /\ next.at = "process" /\ next.since = day
        BY <2>2, <4>1 DEF Flights
      <4>3. flight' = [flight EXCEPT ![i] = next]
        BY <1>1, <3>2 DEF Flights
      <4> HIDE DEF next
      <4> QED
        BY <1>1, <4>1, <4>2, <4>3
    <3> QED
      BY <1>9, <3>1, <3>2 DEF HandlerFailed
  <2> QED
    BY <1>1, <1>2, <1>3, <1>4, <1>6, <2>1, <2>2, <2>3 DEF Turns
<1>10. CASE GiveUp(i)
  <2>1. UNCHANGED <<mem, disk, seen>>
    BY <1>10 DEF GiveUp
  <2>2. CASE GiveUpKafka(i)
    <3>1. harm \subseteq harm' /\ faults' \in 0 .. MaxFaults
      BY <2>2, FaultTypes DEF GiveUpKafka
    <3>2. /\ flight' \in [Indices -> Flights] /\ flight'[i].at = "commit"
          /\ \A j \in Indices \ {i} : flight'[j] = flight[j]
      BY <1>1, <2>2, FlightTypes DEF GiveUpKafka, Stages
    <3>3. /\ fate' \in [Indices -> Fates] /\ fate'[i] # "none"
          /\ \A j \in Indices : fate[j] # "none" => fate'[j] # "none"
      BY <1>1, <2>2, FateTypes DEF GiveUpKafka, Fates
    <3>5. \A j \in Indices : fate'[j] = "dropped" =>
             fate[j] = "dropped" \/ (kind = "kafka" /\ (~setup.dlq \/ "cdisk" \in harm'))
      <4>1. CASE Settle(i, "dead")
        BY <1>1, <4>1, FateTypes DEF Fates
      <4>2. CASE kind = "kafka" /\ (~setup.dlq \/ Harm("cdisk"))
        BY <4>2, FaultTypes
      <4> QED
        BY <2>2, <4>1, <4>2 DEF GiveUpKafka
    <3>4. UNCHANGED <<acked, again>>
      BY <2>2 DEF GiveUpKafka
    <3> QED
      BY <1>1, <1>2, <1>3, <1>4, <1>6, <2>1, <3>1, <3>2, <3>3, <3>4, <3>5 DEF Turns
  <2>3. CASE GiveUpRabbit(i) \/ GiveUpRocket(i) \/ GiveUpMemory(i)
    <3>1. kind # "kafka" /\ Ended(i) /\ UNCHANGED faultVars
      BY <2>3 DEF GiveUpRabbit, GiveUpRocket, GiveUpMemory
    <3>2. /\ flight' \in [Indices -> Flights] /\ flight'[i].at = "none"
          /\ \A j \in Indices \ {i} : flight'[j] = flight[j]
      BY <1>1, <3>1, FlightTypes
    <3>3. \/ UNCHANGED <<fate, acked>>
          \/ /\ Settle(i, "dead") \/ (Settle(i, "dropped") /\ kind = "memory")
             /\ acked' = acked \cup {i} \/ UNCHANGED acked
      BY <2>3 DEF GiveUpRabbit, GiveUpRocket, GiveUpMemory
    <3>4. /\ fate' \in [Indices -> Fates]
          /\ \A j \in Indices : fate[j] # "none" => fate'[j] # "none"
          /\ UNCHANGED <<fate, acked>> \/ fate'[i] # "none"
          /\ \A j \in Indices : fate'[j] = "dropped" => fate[j] = "dropped" \/ kind = "memory"
      BY <1>1, <3>3, FateTypes DEF Fates
    <3>5. acked' \subseteq Indices /\ \A j \in acked' : j \in acked \/ fate'[j] # "none"
      BY <1>1, <3>3, <3>4
    <3>6. again' \subseteq Indices
      BY <1>1, <2>3 DEF GiveUpRabbit, GiveUpRocket, GiveUpMemory
    <3> QED
      BY <1>1, <1>2, <1>3, <1>4, <1>6, <2>1, <3>1, <3>2, <3>4, <3>5, <3>6, FaultTypes DEF Turns
  <2> QED
    BY <1>10, <2>2, <2>3 DEF GiveUp
<1>11. CASE CommitOffset(i)
  <2>1. UNCHANGED <<fate, acked, again>> /\ fate[i] # "none"
    BY <1>5, <1>11 DEF CommitOffset
  <2>2. CASE CommitFile(i)
    <3>1. harm \subseteq harm' /\ faults' \in 0 .. MaxFaults
      BY <2>2, FaultTypes DEF CommitFile
    <3>2. /\ flight' \in [Indices -> Flights] /\ flight'[i].at = "none"
          /\ \A j \in Indices \ {i} : flight'[j] = flight[j]
      BY <1>1, <2>2, FlightTypes DEF CommitFile
    <3>3. kind = "kafka" /\ ~ SqlStore /\ UNCHANGED seen /\ (UNCHANGED disk \/ disk' = mem')
      BY <2>2 DEF CommitFile
    <3>4. UNCHANGED mem \/ (mem' = i + 1 /\ i + 1 > mem)
      BY <2>2 DEF CommitFile
    <3> QED
      BY <1>1, <1>2, <1>3, <1>4, <1>6, <2>1, <3>1, <3>2, <3>3, <3>4 DEF Turns
  <2>3. CASE CommitRead(i)
    <3>1. UNCHANGED <<mem, disk, seen, faultVars>> /\ kind = "kafka" /\ SqlStore
      BY <2>3 DEF CommitRead
    <3>2. flight[i] \in Flights
      BY <1>1
    <3>3. /\ [flight[i] EXCEPT !.at = "save", !.row = disk] \in Flights
          /\ [flight[i] EXCEPT !.at = "save", !.row = disk].at = "save"
          /\ [flight[i] EXCEPT !.at = "save", !.row = disk].row = disk
      BY <1>1, <3>2 DEF Flights, Stages
    <3>4. flight' = [flight EXCEPT ![i] = [flight[i] EXCEPT !.at = "save", !.row = disk]]
      BY <1>1, <2>3 DEF CommitRead, Flights
    <3>5. /\ flight' \in [Indices -> Flights] /\ flight'[i].at = "save" /\ flight'[i].row = disk
          /\ \A j \in Indices \ {i} : flight'[j] = flight[j]
      BY <1>1, <3>3, <3>4
    <3> QED
      BY <1>1, <1>2, <1>3, <1>4, <1>6, <2>1, <3>1, <3>5, FaultTypes DEF Turns
  <2>4. CASE CommitBroker(i)
    <3>1. harm \subseteq harm' /\ faults' \in 0 .. MaxFaults
      BY <2>4, FaultTypes DEF CommitBroker
    <3>2. UNCHANGED <<mem, disk>> /\ kind # "kafka" /\ seen' \subseteq Msgs
      BY <1>1, <1>4, <2>4 DEF CommitBroker
    <3>3. /\ flight' \in [Indices -> Flights] /\ flight'[i].at = "ack"
          /\ \A j \in Indices \ {i} : flight'[j] = flight[j]
      BY <1>1, <2>4, FlightTypes DEF CommitBroker, Stages
    <3> QED
      BY <1>1, <1>2, <1>3, <1>4, <1>6, <2>1, <3>1, <3>2, <3>3 DEF Turns
  <2>5. CASE CommitNothing(i)
    <3>1. UNCHANGED <<mem, disk, seen, faultVars>> /\ Ended(i)
      BY <2>5 DEF CommitNothing
    <3>2. /\ flight' \in [Indices -> Flights] /\ flight'[i].at = "none"
          /\ \A j \in Indices \ {i} : flight'[j] = flight[j]
      BY <1>1, <3>1, FlightTypes
    <3> QED
      BY <1>1, <1>2, <1>3, <1>4, <1>6, <2>1, <3>1, <3>2, FaultTypes DEF Turns
  <2> QED
    BY <1>11, <2>2, <2>3, <2>4, <2>5 DEF CommitOffset
<1>12. CASE CommitSave(i)
  <2>1. /\ UNCHANGED <<fate, acked, again, mem>> /\ fate[i] # "none" /\ flight[i].at = "save"
        /\ kind = "kafka" /\ SqlStore
    BY <1>5, <1>12 DEF CommitSave, ConsumerInv, StagesOK
  <2>2. harm \subseteq harm' /\ faults' \in 0 .. MaxFaults
    BY <1>12, FaultTypes DEF CommitSave
  <2>3. seen' \subseteq Msgs
    BY <1>1, <1>4, <1>12 DEF CommitSave
  <2>4. UNCHANGED disk \/ (i + 1 > flight[i].row /\ disk' = i + 1)
    BY <1>12 DEF CommitSave
  <2>5. /\ flight' \in [Indices -> Flights] /\ flight'[i].at = "none"
        /\ \A j \in Indices \ {i} : flight'[j] = flight[j]
    BY <1>1, <1>12, FlightTypes DEF CommitSave
  <2> QED
    BY <1>1, <1>2, <1>3, <1>4, <1>6, <2>1, <2>2, <2>3, <2>4, <2>5 DEF Turns
<1>13. CASE Ack(i)
  <2>1. UNCHANGED <<fate, again, mem, disk, seen, faultVars>> /\ fate[i] # "none"
    BY <1>5, <1>13 DEF Ack
  <2>2. acked' \subseteq Indices /\ \A j \in acked' : j \in acked \/ j = i
    BY <1>1, <1>13 DEF Ack
  <2>3. /\ flight' \in [Indices -> Flights] /\ flight'[i].at = "none"
        /\ \A j \in Indices \ {i} : flight'[j] = flight[j]
    BY <1>1, <1>13, FlightTypes DEF Ack
  <2> QED
    BY <1>1, <1>2, <1>3, <1>4, <1>6, <2>1, <2>2, <2>3, FaultTypes DEF Turns
<1> QED
  BY <1>7, <1>8, <1>9, <1>10, <1>11, <1>12, <1>13 DEF DeliveryStep

\* A turn of one delivery preserves what progress and acknowledgements cover.
LEMMA TurnsKeep ==
  ASSUME ConsumerInv, LogOK, NEW i \in Indices, Turns(i)
  PROVE  ConsumerInv'
<1>1. /\ UNCHANGED <<kind, log, cons, setup, pos, base>> /\ harm \subseteq harm'
      /\ flight[i].at # "none"
      /\ flight' \in [Indices -> Flights] /\ \A j \in Indices \ {i} : flight'[j] = flight[j]
      /\ \A j \in Indices : fate[j] # "none" => fate'[j] # "none"
      /\ kind = "kafka" /\ flight'[i].at = "none" => fate'[i] # "none"
  BY DEF Turns
<1>2. SqlStore' = SqlStore
  BY <1>1 DEF SqlStore
<1>3. InFlight' \subseteq InFlight /\ \A j \in InFlight : j # i => j \in InFlight'
  BY <1>1 DEF InFlight
<1>4. i \in InFlight /\ (flight'[i].at # "none" => i \in InFlight')
  BY <1>1 DEF InFlight
<1>5. /\ Len(log) \in Nat /\ MaxLog \in Nat /\ Len(log) <= MaxLog
      /\ i \in 1 .. Len(log) /\ i \in Nat
      /\ pos \in Positions /\ mem \in Positions /\ disk \in Positions /\ base \in Positions
      /\ pos \in Nat /\ mem \in Nat /\ disk \in Nat /\ base \in Nat
  BY <1>4, ConsumerTypes, LenProperties, BrokerAssumption DEF LogOK, ConsumerInv, InLog, Positions, Indices
<1>6. /\ mem' \in Nat /\ mem' <= Len(log) + 1 /\ mem <= mem'
      /\ disk' \in Nat /\ disk' <= Len(log) + 1
  <2>1. mem <= Len(log) + 1 /\ disk <= Len(log) + 1
    BY DEF ConsumerInv, InLog
  <2>2. mem' = mem \/ (mem' = i + 1 /\ i + 1 > mem)
    BY DEF Turns
  <2>3. mem' \in Nat /\ mem' <= Len(log) + 1 /\ mem <= mem'
    BY <1>5, <2>1, <2>2
  <2>4. disk' = disk \/ disk' = mem' \/ disk' = i + 1
    BY DEF Turns
  <2> QED
    BY <1>5, <2>1, <2>3, <2>4
<1>7. ConsumerTypeOK'
  <2>1. /\ cons' \in {"off", "up", "closing", "dead", "absent"} /\ setup' \in Setups
        /\ pos' \in Positions /\ base' \in Positions
    BY <1>1, ConsumerTypes DEF ConsumerInv
  <2>2. mem' \in Positions /\ disk' \in Positions
    BY <1>5, <1>6 DEF Positions
  <2>3. fate' \in [Indices -> Fates] /\ acked' \subseteq Indices /\ again' \subseteq Indices /\ seen' \subseteq Msgs
    BY DEF Turns
  <2> QED
    BY <1>1, <2>1, <2>2, <2>3, ConsumerTypesNext
<1>8. InLog'
  BY <1>1, <1>3, <1>6 DEF ConsumerInv, InLog
<1>9. StagesOK'
  <2>1. \A j \in Indices : flight'[j].at \in {"commit", "save", "ack"} => fate'[j] # "none"
    BY <1>1 DEF Turns, ConsumerInv, StagesOK
  <2>2. \A j \in Indices : flight'[j].at = "save" => kind = "kafka" /\ SqlStore
    BY <1>1 DEF Turns, ConsumerInv, StagesOK
  <2>3. \A j \in acked' : fate'[j] # "none"
    <3>1. acked \subseteq Indices
      BY ConsumerTypes DEF ConsumerInv
    <3> QED
      BY <3>1 DEF Turns, ConsumerInv, StagesOK
  <2> QED
    BY <1>1, <1>2, <2>1, <2>2, <2>3 DEF StagesOK
<1>10. FlightOK' /\ HandlingOK'
  <2>1. FlightOK'
    BY <1>1, <1>3 DEF ConsumerInv, FlightOK
  <2>2. \A j \in Indices : flight'[j].at = "process" => flight'[j].since >= 1
    BY <1>1 DEF Turns, ConsumerInv, HandlingOK
  <2>3. ASSUME NEW j \in Indices, fate'[j] = "dropped"
        PROVE  kind = "memory" \/ (kind = "kafka" /\ (~setup.dlq \/ "cdisk" \in harm'))
    BY <1>1, <2>3 DEF Turns, ConsumerInv, HandlingOK
  <2> QED
    BY <1>1, <2>1, <2>2, <2>3 DEF HandlingOK
<1>11. ASSUME kind = "kafka", NEW j \in 1 .. Len(log), Covered(j)
       PROVE  Covered(j)'
  <2>1. j \in Indices
    BY <1>5 DEF Indices
  <2> QED
    BY <1>1, <1>3, <1>4, <1>11, <2>1 DEF Covered
<1>12. CoverOK'
  <2> SUFFICES ASSUME kind = "kafka"
               PROVE  /\ \A j \in 1 .. Len(log) : j < disk' \/ j < mem' => Covered(j)'
                      /\ \A k \in InFlight', j \in 1 .. Len(log) : j < k => Covered(j)'
                      /\ cons = "up" => \A j \in 1 .. Len(log) : j < pos => Covered(j)' \/ j \in InFlight'
    BY <1>1 DEF CoverOK
  <2>1. /\ \A j \in 1 .. Len(log) : j < disk \/ j < mem => Covered(j)
        /\ \A k \in InFlight, j \in 1 .. Len(log) : j < k => Covered(j)
        /\ cons = "up" => \A j \in 1 .. Len(log) : j < pos => Covered(j) \/ j \in InFlight
    BY DEF ConsumerInv, CoverOK
  <2>2. ASSUME NEW j \in 1 .. Len(log), j < i + 1, fate'[i] # "none"
        PROVE  Covered(j)'
    <3>1. CASE j = i
      BY <2>2, <3>1 DEF Covered
    <3>2. CASE j # i
      <4>1. j < i
        BY <1>5, <2>2, <3>2
      <4> QED
        BY <1>4, <1>11, <2>1, <4>1
    <3> QED
      BY <3>1, <3>2
  <2>3. ASSUME NEW j \in 1 .. Len(log), j < mem'
        PROVE  Covered(j)'
    <3>1. mem' = mem \/ (mem' = i + 1 /\ fate'[i] # "none")
      BY DEF Turns
    <3> QED
      BY <1>11, <2>1, <2>2, <2>3, <3>1
  <2>4. ASSUME NEW j \in 1 .. Len(log), j < disk'
        PROVE  Covered(j)'
    <3>1. disk' = disk \/ disk' = mem' \/ (disk' = i + 1 /\ fate'[i] # "none")
      BY DEF Turns
    <3> QED
      BY <1>11, <2>1, <2>2, <2>3, <2>4, <3>1
  <2>5. \A k \in InFlight', j \in 1 .. Len(log) : j < k => Covered(j)'
    BY <1>3, <1>11, <2>1
  <2>6. ASSUME cons = "up", NEW j \in 1 .. Len(log), j < pos
        PROVE  Covered(j)' \/ j \in InFlight'
    <3>1. CASE Covered(j)
      BY <1>11, <3>1
    <3>2. CASE j \in InFlight
      BY <1>1, <1>3, <1>4, <3>2 DEF Covered
    <3> QED
      BY <2>1, <2>6, <3>1, <3>2
  <2> QED
    BY <2>3, <2>4, <2>5, <2>6
<1>13. OffsetOK'
  <2>1. ASSUME kind = "kafka", ~ SqlStore, cons \in {"up", "closing", "dead"}
        PROVE  mem' >= disk' \/ "load" \in harm'
    <3>1. mem >= disk \/ "load" \in harm'
      BY <1>1, <2>1 DEF ConsumerInv, OffsetOK
    <3>2. disk' = disk \/ disk' = mem'
      BY <2>1 DEF Turns
    <3> QED
      BY <1>5, <1>6, <3>1, <3>2
  <2>2. ASSUME setup.ordered, NEW j \in Indices, flight'[j].at = "save"
        PROVE  flight'[j].row = disk'
    <3>1. CASE j = i
      BY <2>2, <3>1 DEF Turns
    <3>2. CASE j # i
      <4>1. j \in InFlight
        BY <1>1, <2>2, <3>2 DEF InFlight
      <4> QED
        BY <1>4, <2>2, <3>2, <4>1 DEF ConsumerInv, FlightOK
    <3> QED
      BY <3>1, <3>2
  <2> QED
    BY <1>1, <1>2, <2>1, <2>2 DEF OffsetOK
<1> QED
  BY <1>7, <1>8, <1>9, <1>10, <1>12, <1>13 DEF ConsumerInv

\* consumer_progress.go 33, for one delivery, and the commit that does not keep to it.
LEMMA TurnsForward ==
  ASSUME ConsumerInv, LogOK, NEW i \in Indices, Turns(i)
  PROVE  OffsetStep
<1> SUFFICES ASSUME disk' < disk, "load" \notin harm
             PROVE  StaleSave(i) /\ disk' = i + 1
  BY DEF OffsetStep
<1>1. /\ mem \in Nat /\ disk \in Nat /\ i \in Nat
  BY ConsumerTypes, BrokerAssumption DEF ConsumerInv, Positions, Indices
<1>2. i \in InFlight
  BY DEF Turns, InFlight
<1>3. kind = "kafka" => cons \in {"up", "closing"}
  BY <1>2, ConsumerTypes DEF ConsumerInv, FlightOK
<1>4. mem' = mem \/ (mem' = i + 1 /\ i + 1 > mem)
  BY DEF Turns
<1>5. CASE disk' = disk
  BY <1>1, <1>5
<1>6. CASE kind = "kafka" /\ ~ SqlStore /\ disk' = mem'
  <2>1. mem >= disk
    BY <1>3, <1>6 DEF ConsumerInv, OffsetOK
  <2> QED
    BY <1>1, <1>4, <1>6, <2>1
<1>a. flight[i].row \in Nat
  BY ConsumerTypes, BrokerAssumption DEF ConsumerInv, Flights, Positions
<1>7. CASE kind = "kafka" /\ SqlStore /\ flight[i].at = "save" /\ i + 1 > flight[i].row /\ disk' = i + 1
  <2>1. setup.ordered => flight[i].row = disk
    BY <1>7 DEF ConsumerInv, OffsetOK
  <2>2. flight[i].row < disk
    BY <1>1, <1>a, <1>7
  <2>3. ~setup.ordered
    BY <1>1, <1>a, <2>1, <2>2
  <2> QED
    BY <1>7, <2>2, <2>3 DEF StaleSave
<1> QED
  BY <1>5, <1>6, <1>7 DEF Turns

-----------------------------------------------------------------------------
(* The consumer's own steps.                                                 *)

\* What any step of the consumer keeps.
ConsumerKeeps ==
    /\ ConsumerInv' /\ UNCHANGED brokerVars
    /\ harm \subseteq harm' /\ faults' \in 0 .. MaxFaults
    /\ OffsetStep

\* A start resumes from what was recorded.
LEMMA StartKeeps ==
  ASSUME ConsumerInv, LogOK, faults \in 0 .. MaxFaults, ConsumerStart
  PROVE  ConsumerKeeps
<1>1. /\ UNCHANGED <<kind, log, reachable, setup, disk, flight, fate, acked, again, seen>>
      /\ cons = "off" /\ cons' \in {"up", "dead"}
  BY DEF ConsumerStart, brokerVars
<1>2. InFlight' = InFlight /\ InFlight = {} /\ SqlStore' = SqlStore
  BY <1>1 DEF InFlight, SqlStore, ConsumerInv, FlightOK
<1>3. /\ Len(log) \in Nat /\ MaxLog \in Nat /\ Len(log) <= MaxLog
      /\ pos \in Nat /\ mem \in Nat /\ disk \in Nat /\ base \in Nat
      /\ pos <= Len(log) + 1 /\ mem <= Len(log) + 1 /\ disk <= Len(log) + 1 /\ base <= Len(log) + 1
  BY ConsumerTypes, LenProperties, BrokerAssumption DEF LogOK, ConsumerInv, InLog, Positions
<1>4. harm \subseteq harm' /\ faults' \in 0 .. MaxFaults
  BY FaultTypes DEF ConsumerStart, LoadProgress
<1>5. /\ mem' \in Nat /\ mem' <= Len(log) + 1 /\ (mem' = disk \/ mem' = 0)
      /\ ~ SqlStore => mem' = disk \/ "load" \in harm'
  <2>1. ASSUME NEW recorded \in {disk, 0}, LoadProgress(recorded),
               mem' = IF SqlStore THEN 0 ELSE recorded
        PROVE  /\ mem' \in {disk, 0}
               /\ ~ SqlStore => mem' = disk \/ "load" \in harm'
    BY <2>1, FaultTypes DEF LoadProgress
  <2>2. /\ mem' \in {disk, 0}
        /\ ~ SqlStore => mem' = disk \/ "load" \in harm'
    BY <2>1 DEF ConsumerStart
  <2> QED
    BY <1>3, <2>2
<1>6. \/ /\ cons' = "up"
         /\ \E recorded \in {disk, 0} :
               /\ pos' = IF kind = "memory" THEN pos ELSE StartAt(recorded)
               /\ base' = IF setup.latest /\ recorded = 0 THEN pos' ELSE base
      \/ cons' = "dead" /\ UNCHANGED <<pos, base>>
  BY DEF ConsumerStart
<1>7. ASSUME NEW recorded \in {disk, 0}
      PROVE  StartAt(recorded) \in Nat /\ StartAt(recorded) <= Len(log) + 1
  BY <1>3 DEF StartAt
<1>8. pos' \in Nat /\ pos' <= Len(log) + 1 /\ base' \in Nat /\ base' <= Len(log) + 1
  BY <1>3, <1>6, <1>7
<1>9. ConsumerTypeOK'
  <2>1. /\ setup' \in Setups /\ flight' \in [Indices -> Flights] /\ fate' \in [Indices -> Fates]
        /\ acked' \subseteq Indices /\ again' \subseteq Indices /\ seen' \subseteq Msgs
    BY <1>1, ConsumerTypes DEF ConsumerInv
  <2>2. pos' \in Positions /\ mem' \in Positions /\ disk' \in Positions /\ base' \in Positions
    BY <1>1, <1>3, <1>5, <1>8 DEF Positions
  <2> QED
    BY <1>1, <2>1, <2>2, ConsumerTypesNext
<1>10. InLog'
  BY <1>1, <1>2, <1>3, <1>5, <1>8 DEF InLog
<1>11. StagesOK' /\ HandlingOK'
  BY <1>1, <1>2, <1>4 DEF ConsumerInv, StagesOK, HandlingOK
<1>12. FlightOK'
  BY <1>1, <1>2 DEF ConsumerInv, FlightOK
<1>13. OffsetOK'
  BY <1>1, <1>2, <1>3, <1>5 DEF ConsumerInv, OffsetOK
<1>14. CoverOK'
  <2> SUFFICES ASSUME kind = "kafka"
               PROVE  /\ \A j \in 1 .. Len(log) : j < disk \/ j < mem' => Covered(j)'
                      /\ cons' = "up" => \A j \in 1 .. Len(log) : j < pos' => Covered(j)'
    BY <1>1, <1>2 DEF CoverOK
  <2>1. \A j \in 1 .. Len(log) : j < disk => Covered(j)
    BY DEF ConsumerInv, CoverOK
  <2>2. base <= base'
    <3>1. CASE UNCHANGED base
      BY <1>3, <3>1
    <3>2. CASE setup.latest /\ base' = pos' /\ pos' = StartAt(0)
      BY <1>3, <3>2 DEF StartAt
    <3> QED
      BY <1>6, <3>1, <3>2
  <2>3. ASSUME NEW j \in 1 .. Len(log), Covered(j)
        PROVE  Covered(j)'
    BY <1>1, <1>2, <1>3, <1>4, <1>8, <2>2, <2>3 DEF Covered
  <2>4. \A j \in 1 .. Len(log) : j < disk \/ j < mem' => Covered(j)'
    BY <1>5, <2>1, <2>3
  <2>5. ASSUME cons' = "up", NEW j \in 1 .. Len(log), j < pos'
        PROVE  Covered(j)'
    <3>1. PICK recorded \in {disk, 0} :
             /\ pos' = StartAt(recorded)
             /\ base' = IF setup.latest /\ recorded = 0 THEN pos' ELSE base
      BY <1>6, <2>5
    <3>2. CASE recorded # 0
      BY <2>1, <2>3, <2>5, <3>1, <3>2 DEF StartAt
    <3>3. CASE recorded = 0 /\ setup.latest
      BY <2>5, <3>1, <3>3 DEF Covered
    <3>4. CASE recorded = 0 /\ ~ setup.latest
      BY <1>3, <2>5, <3>1, <3>4 DEF StartAt
    <3> QED
      BY <3>2, <3>3, <3>4
  <2> QED
    BY <2>4, <2>5
<1>15. OffsetStep
  BY <1>1, <1>3 DEF OffsetStep
<1> QED
  BY <1>1, <1>4, <1>9, <1>10, <1>11, <1>12, <1>13, <1>14, <1>15 DEF ConsumerKeeps, ConsumerInv, brokerVars

\* Stop, exit, crash, a lost connection and the flush of the file: no delivery starts or moves.
LEMMA StopKeeps ==
  ASSUME ConsumerInv, LogOK, faults \in 0 .. MaxFaults,
         ConsumerStop \/ ConsumerExit \/ ConnectionLost \/ FlushOffsets
  PROVE  ConsumerKeeps
<1>1. UNCHANGED <<kind, log, reachable, setup, pos, mem, flight, fate, acked, again, seen, base>>
  BY DEF ConsumerStop, ConsumerExit, ConnectionLost, FlushOffsets, brokerVars
<1>2. InFlight' = InFlight /\ SqlStore' = SqlStore
  BY <1>1 DEF InFlight, SqlStore
<1>3. harm \subseteq harm' /\ faults' \in 0 .. MaxFaults
  BY FaultTypes DEF ConsumerStop, ConsumerExit, ConnectionLost, FlushOffsets
<1>4. /\ mem \in Nat /\ disk \in Nat /\ pos \in Nat /\ base \in Nat
      /\ cons \in {"off", "up", "closing", "dead", "absent"}
  BY ConsumerTypes DEF ConsumerInv, Positions
<1>5. /\ cons' \in {"off", "up", "closing", "dead", "absent"}
      /\ cons' = "up" => cons = "up"
      /\ cons' = "off" => InFlight = {}
      /\ cons' = "absent" => cons = "absent"
      /\ kind = "kafka" /\ cons' = "dead" => cons = "dead"
      /\ cons' \in {"up", "closing", "dead"} => cons \in {"up", "closing", "dead"}
  BY <1>4 DEF ConsumerStop, ConsumerExit, ConnectionLost, FlushOffsets, ConsumerInv, FlightOK
<1>6. disk' = disk \/ (disk' = mem /\ kind = "kafka" /\ ~ SqlStore /\ cons \in {"up", "closing", "dead"})
  BY DEF ConsumerStop, ConsumerExit, ConnectionLost, FlushOffsets
<1>7. disk' \in Nat /\ OffsetStep
  BY <1>4, <1>6 DEF ConsumerInv, OffsetOK, OffsetStep
<1>8. ConsumerTypeOK'
  <2>1. /\ setup' \in Setups /\ flight' \in [Indices -> Flights] /\ fate' \in [Indices -> Fates]
        /\ acked' \subseteq Indices /\ again' \subseteq Indices /\ seen' \subseteq Msgs
        /\ pos' \in Positions /\ mem' \in Positions /\ disk' \in Positions /\ base' \in Positions
    BY <1>1, <1>6, ConsumerTypes DEF ConsumerInv
  <2> QED
    BY <1>5, <2>1, ConsumerTypesNext
<1>9. InLog'
  BY <1>1, <1>2, <1>6 DEF ConsumerInv, InLog
<1>10. StagesOK' /\ HandlingOK'
  BY <1>1, <1>2, <1>3 DEF ConsumerInv, StagesOK, HandlingOK
<1>11. FlightOK'
  BY <1>1, <1>2, <1>5 DEF ConsumerInv, FlightOK
<1>12. \A j \in 1 .. Len(log) : Covered(j) => Covered(j)'
  BY <1>1, <1>2, <1>3 DEF Covered
<1>13. CoverOK'
  <2> SUFFICES ASSUME kind = "kafka"
               PROVE  /\ \A j \in 1 .. Len(log) : j < disk' \/ j < mem => Covered(j)'
                      /\ \A i \in InFlight, j \in 1 .. Len(log) : j < i => Covered(j)'
                      /\ cons' = "up" => \A j \in 1 .. Len(log) : j < pos => Covered(j)' \/ j \in InFlight
    BY <1>1, <1>2 DEF CoverOK
  <2> QED
    BY <1>5, <1>6, <1>12 DEF ConsumerInv, CoverOK
<1>14. OffsetOK'
  <2>1. kind = "kafka" /\ ~ SqlStore /\ cons' \in {"up", "closing", "dead"} =>
          mem >= disk' \/ "load" \in harm'
    BY <1>3, <1>4, <1>5, <1>6 DEF ConsumerInv, OffsetOK
  <2>2. ASSUME setup.ordered, NEW i \in Indices, flight[i].at = "save"
        PROVE  flight[i].row = disk'
    <3>1. SqlStore
      BY <2>2 DEF ConsumerInv, StagesOK
    <3> QED
      BY <1>6, <2>2, <3>1 DEF ConsumerInv, OffsetOK
  <2> QED
    BY <1>1, <1>2, <2>1, <2>2 DEF OffsetOK
<1> QED
  BY <1>1, <1>3, <1>7, <1>8, <1>9, <1>10, <1>11, <1>13, <1>14 DEF ConsumerKeeps, ConsumerInv, brokerVars

\* A crash forgets what is in memory and takes nothing back that was recorded.
LEMMA CrashKeeps ==
  ASSUME ConsumerInv, LogOK, faults \in 0 .. MaxFaults, ConsumerCrash
  PROVE  ConsumerKeeps
<1>1. /\ UNCHANGED <<kind, log, reachable, setup, mem, disk, fate, acked, again, seen, base>>
      /\ cons' = "off" /\ flight' = [i \in Indices |-> Landed] /\ Harm("ccrash")
      /\ pos' = IF kind = "memory" THEN Len(log) + 1 ELSE pos
  BY DEF ConsumerCrash, brokerVars
<1>2. Landed \in Flights /\ Landed.at = "none"
  BY BrokerAssumption, ConsumerAssumption, TaskAssumption DEF Landed, Flights, Positions, Stages
<1>3. InFlight' = {} /\ SqlStore' = SqlStore
  BY <1>1, <1>2 DEF InFlight, SqlStore
<1>4. harm \subseteq harm' /\ faults' \in 0 .. MaxFaults /\ "ccrash" \in harm'
  BY <1>1, FaultTypes DEF Harm
<1>5. /\ Len(log) \in Nat /\ MaxLog \in Nat /\ Len(log) <= MaxLog /\ disk \in Nat
      /\ pos \in Positions /\ pos <= Len(log) + 1
  BY ConsumerTypes, LenProperties, BrokerAssumption DEF LogOK, ConsumerInv, InLog, Positions
<1>6. pos' \in Positions /\ pos' <= Len(log) + 1
  BY <1>1, <1>5 DEF Positions
<1>7. ConsumerTypeOK'
  <2>1. /\ setup' \in Setups /\ fate' \in [Indices -> Fates]
        /\ acked' \subseteq Indices /\ again' \subseteq Indices /\ seen' \subseteq Msgs
        /\ mem' \in Positions /\ disk' \in Positions /\ base' \in Positions
    BY <1>1, ConsumerTypes DEF ConsumerInv
  <2>2. flight' \in [Indices -> Flights]
    BY <1>1, <1>2
  <2> QED
    BY <1>1, <1>6, <2>1, <2>2, ConsumerTypesNext
<1>8. InLog'
  BY <1>1, <1>3, <1>6 DEF ConsumerInv, InLog
<1>9. StagesOK' /\ HandlingOK' /\ OffsetOK'
  BY <1>1, <1>2, <1>3, <1>4 DEF ConsumerInv, StagesOK, HandlingOK, OffsetOK
<1>10. FlightOK'
  BY <1>1, <1>3 DEF ConsumerInv, FlightOK
<1>11. ASSUME NEW j \in 1 .. Len(log), Covered(j)
       PROVE  Covered(j)'
  BY <1>1, <1>4, <1>11 DEF Covered
<1>12. CoverOK'
  BY <1>1, <1>3, <1>11 DEF ConsumerInv, CoverOK
<1>13. OffsetStep
  BY <1>1, <1>5 DEF OffsetStep
<1> QED
  BY <1>1, <1>4, <1>7, <1>8, <1>9, <1>10, <1>12, <1>13 DEF ConsumerKeeps, ConsumerInv, brokerVars

\* The broker hands out a message, for the first time or again.
LEMMA DeliverKeeps ==
  ASSUME ConsumerInv, LogOK, faults \in 0 .. MaxFaults, day \in 1 .. MaxDay, NEW i \in Indices,
         Deliver(i)
  PROVE  ConsumerKeeps
<1>1. /\ UNCHANGED <<kind, log, reachable, faults, harm, cons, setup, mem, disk, fate, acked, again, seen, base>>
      /\ cons = "up" /\ i \in DOMAIN log /\ i \notin InFlight /\ Room
      /\ kind = "kafka" => i = pos
      /\ UNCHANGED pos \/ (i = pos /\ pos' = pos + 1)
      /\ Called(i) \/ Moved(i, "fetched")
  BY DEF Deliver, brokerVars, faultVars
<1>2. /\ Len(log) \in Nat /\ MaxLog \in Nat /\ Len(log) <= MaxLog /\ disk \in Nat
      /\ pos \in Nat /\ pos <= Len(log) + 1 /\ i \in 1 .. Len(log)
      /\ flight \in [Indices -> Flights]
  BY <1>1, ConsumerTypes, LenProperties, BrokerAssumption DEF LogOK, ConsumerInv, InLog, Positions
<1>3. pos' \in Nat /\ pos' <= Len(log) + 1
  BY <1>1, <1>2
<1>4. /\ flight' \in [Indices -> Flights] /\ flight'[i].at \in {"process", "fetched"}
      /\ flight'[i].at = "process" => flight'[i].since >= 1
      /\ \A j \in Indices \ {i} : flight'[j] = flight[j]
  BY <1>1, <1>2, FlightTypes DEF Stages
<1>5. InFlight' = InFlight \cup {i} /\ SqlStore' = SqlStore
  BY <1>1, <1>4 DEF InFlight, SqlStore
<1>6. ConsumerTypeOK'
  <2>1. /\ cons' \in {"off", "up", "closing", "dead", "absent"} /\ setup' \in Setups /\ fate' \in [Indices -> Fates]
        /\ acked' \subseteq Indices /\ again' \subseteq Indices /\ seen' \subseteq Msgs
        /\ mem' \in Positions /\ disk' \in Positions /\ base' \in Positions
    BY <1>1, ConsumerTypes DEF ConsumerInv
  <2>2. pos' \in Positions
    BY <1>2, <1>3 DEF Positions
  <2> QED
    BY <1>4, <2>1, <2>2, ConsumerTypesNext
<1>7. InLog'
  BY <1>1, <1>2, <1>3, <1>5 DEF ConsumerInv, InLog
<1>8. StagesOK' /\ HandlingOK' /\ OffsetOK'
  BY <1>1, <1>4, <1>5 DEF ConsumerInv, StagesOK, HandlingOK, OffsetOK
<1>9. setup.ordered => InFlight = {}
  <2>1. IsFiniteSet(InFlight)
    <3>1. IsFiniteSet(1 .. MaxLog) /\ InFlight \subseteq 1 .. MaxLog
      BY <1>2, FS_Interval DEF InFlight, Indices
    <3> QED
      BY <3>1, FS_Subset
  <2>2. Cardinality(InFlight) \in Nat
    BY <2>1, FS_CardinalityType
  <2>3. setup.ordered => Cardinality(InFlight) < 1
    BY <1>1 DEF Room
  <2>4. setup.ordered => Cardinality(InFlight) = 0
    BY <2>2, <2>3
  <2> QED
    BY <2>1, <2>4, FS_EmptySet
<1>10. FlightOK'
  BY <1>1, <1>5, <1>9 DEF ConsumerInv, FlightOK
<1>11. \A j \in 1 .. Len(log) : Covered(j) => Covered(j)'
  BY <1>1, <1>5 DEF Covered
<1>12. CoverOK'
  <2> SUFFICES ASSUME kind = "kafka"
               PROVE  /\ \A j \in 1 .. Len(log) : j < disk \/ j < mem => Covered(j)'
                      /\ \A k \in InFlight', j \in 1 .. Len(log) : j < k => Covered(j)'
                      /\ \A j \in 1 .. Len(log) : j < pos' => Covered(j)' \/ j \in InFlight'
    BY <1>1 DEF CoverOK
  <2>1. /\ \A j \in 1 .. Len(log) : j < disk \/ j < mem => Covered(j)
        /\ \A k \in InFlight, j \in 1 .. Len(log) : j < k => Covered(j)
        /\ \A j \in 1 .. Len(log) : j < pos => Covered(j) \/ j \in InFlight
    BY <1>1 DEF ConsumerInv, CoverOK
  <2>2. ASSUME NEW j \in 1 .. Len(log), j < pos
        PROVE  Covered(j)'
    <3>1. CASE Covered(j)
      BY <1>11, <3>1
    <3>2. CASE j \in InFlight
      BY <1>1, <1>5, <1>9, <3>2 DEF Covered
    <3> QED
      BY <2>1, <2>2, <3>1, <3>2
  <2>3. \A k \in InFlight', j \in 1 .. Len(log) : j < k => Covered(j)'
    BY <1>1, <1>5, <1>11, <2>1, <2>2
  <2>4. ASSUME NEW j \in 1 .. Len(log), j < pos'
        PROVE  Covered(j)' \/ j \in InFlight'
    <3>1. j < pos \/ j = i
      BY <1>1, <1>2, <2>4
    <3> QED
      BY <1>5, <2>2, <3>1
  <2> QED
    BY <1>11, <2>1, <2>3, <2>4
<1>13. OffsetStep
  BY <1>1, <1>2 DEF OffsetStep
<1> QED
  BY <1>1, <1>6, <1>7, <1>8, <1>10, <1>12, <1>13 DEF ConsumerKeeps, ConsumerInv, brokerVars

\* Every step of the consumer.
LEMMA ConsumerStepKeeps ==
  ASSUME ConsumerInv, LogOK, faults \in 0 .. MaxFaults, day \in 1 .. MaxDay, ConsumerStep
  PROVE  ConsumerKeeps
<1>1. ASSUME NEW i \in Indices, DeliveryStep(i)
      PROVE  ConsumerKeeps
  <2>1. Turns(i)
    BY <1>1, DeliveryTurns
  <2>2. ConsumerInv' /\ OffsetStep
    BY <2>1, TurnsKeep, TurnsForward
  <2> QED
    BY <2>1, <2>2 DEF ConsumerKeeps, Turns, brokerVars
<1> QED
  BY <1>1, StartKeeps, StopKeeps, CrashKeeps, DeliverKeeps DEF ConsumerStep

\* The consumer's invariant gives the property of kafka_consumer.go 516-518.
LEMMA CoversAll == ConsumerInv /\ LogOK /\ kind \in Kinds => NothingSkipped
<1> SUFFICES ASSUME ConsumerInv, LogOK, kind \in Kinds, NEW i \in DOMAIN log
             PROVE  \/ Accounted(i)
                    \/ DlqFailed(i)
                    \/ kind \in {"rabbitmq", "rocketmq"} /\ i \notin acked
                    \/ kind = "kafka" /\ i >= disk
                    \/ kind = "kafka" /\ ~ setup.ordered /\ (i \in InFlight \/ "ccrash" \in harm)
                    \/ kind = "kafka" /\ i < base
                    \/ kind \in {"memory", "none"}
  BY DEF NothingSkipped
<1>1. kind \in {"kafka", "rabbitmq", "rocketmq", "memory", "none"}
  BY BrokerAssumption DEF AllKinds
<1>2. i \in 1 .. Len(log) /\ i \in Nat /\ disk \in Nat /\ i \in Indices
  BY ConsumerTypes, LenProperties, BrokerAssumption DEF LogOK, ConsumerInv, Positions, Indices
<1>5. fate[i] # "none" => Accounted(i) \/ DlqFailed(i) \/ kind = "memory"
  <2>1. fate[i] \in Fates
    BY <1>2, ConsumerTypes DEF ConsumerInv
  <2>2. fate[i] = "dropped" => kind = "memory" \/ (kind = "kafka" /\ (~setup.dlq \/ "cdisk" \in harm))
    BY <1>2 DEF ConsumerInv, HandlingOK
  <2> QED
    BY <2>1, <2>2 DEF Fates, Accounted, DlqFailed
<1>3. CASE kind = "kafka"
  <2>1. i < disk => Covered(i)
    BY <1>2, <1>3 DEF ConsumerInv, CoverOK
  <2>2. i < disk \/ i >= disk
    BY <1>2
  <2> QED
    BY <1>3, <1>5, <2>1, <2>2 DEF Covered
<1>4. i \in acked => fate[i] # "none"
  BY DEF ConsumerInv, StagesOK
<1> QED
  BY <1>1, <1>3, <1>4, <1>5

\* The day a handler at work was called.
LEMMA SinceTypes ==
  ASSUME ConsumerInv, NEW i \in Indices, flight[i].at = "process"
  PROVE  flight[i].since \in 1 .. MaxDay
<1>1. flight[i].since \in 0 .. MaxDay
  BY ConsumerTypes DEF ConsumerInv, Flights
<1> QED
  BY <1>1, TaskAssumption DEF ConsumerInv, HandlingOK

\* Before its first start a consumer has recorded nothing.
LEMMA ConsumerInitInv ==
  ASSUME NEW deployed, ConsumerInit(deployed), LogOK
  PROVE  ConsumerInv
<1>1. /\ cons \in {"off", "absent"} /\ setup \in Setups /\ (kind # "kafka" => ~ setup.ordered)
      /\ pos = 1 /\ mem = 0 /\ disk = 0 /\ base = 0
      /\ flight = [i \in Indices |-> Landed] /\ fate = [i \in Indices |-> "none"]
      /\ acked = {} /\ again = {} /\ seen = {}
  BY DEF ConsumerInit
<1>2. Landed \in Flights /\ Landed.at = "none"
  BY BrokerAssumption, ConsumerAssumption, TaskAssumption DEF Landed, Flights, Positions, Stages
<1>3. InFlight = {}
  BY <1>1, <1>2 DEF InFlight
<1>4. Len(log) \in Nat /\ MaxLog \in Nat
  BY LenProperties, BrokerAssumption DEF LogOK
<1>5. ConsumerTypeOK
  <2>1. pos \in Positions /\ mem \in Positions /\ disk \in Positions /\ base \in Positions
    BY <1>1, <1>4 DEF Positions
  <2>2. flight \in [Indices -> Flights] /\ fate \in [Indices -> Fates]
    BY <1>1, <1>2 DEF Fates
  <2> QED
    BY <1>1, <2>1, <2>2, ConsumerTypes
<1>6. InLog
  BY <1>1, <1>3, <1>4 DEF InLog
<1>7. StagesOK /\ HandlingOK /\ FlightOK /\ OffsetOK
  BY <1>1, <1>2, <1>3 DEF StagesOK, HandlingOK, FlightOK, OffsetOK
<1>8. CoverOK
  BY <1>1, <1>3, <1>4 DEF CoverOK
<1> QED
  BY <1>5, <1>6, <1>7, <1>8 DEF ConsumerInv

-----------------------------------------------------------------------------
(* The task service.                                                         *)

RowRecord == [there : BOOLEAN, current : Nat, completed : BOOLEAN, claimed : BOOLEAN]
ClaimType == [at : {"idle", "found", "done"}, task : Tasks \cup {0}, period : Periods]

Resets == [{"daily", "weekly"} -> 0 .. MaxDay]
Replicas == [rows : [Tasks -> [Periods -> RowRecord]], resetOn : Resets]

\* The rows of a type are rows of that type's periods, at the master and at the replica.
Placed(table, reset) ==
    \A t \in Tasks, p \in Periods : table[t][p].there =>
        /\ TaskType[t] = "weekly" => p >= 1 /\ (p - 1) % 7 = 0
        /\ TaskType[t] = "achievement" => p = 0
        /\ TaskType[t] = "daily" /\ reset["daily"] = day /\ "midnight" \notin harm => p = day

RowsPlaced == Placed(rows, resetOn) /\ Placed(replica.rows, replica.resetOn)

TaskInv ==
    /\ TaskTypeOK
    /\ resetOn["daily"] <= day /\ replica.resetOn["daily"] <= day
    /\ \A c \in Claimers : claim[c].at = "found" => claim[c].task \in Tasks
    /\ RowsPlaced
    /\ ProgressOncePerEvent

\* The task service's types with their sets named.
LEMMA TaskTypes ==
  TaskTypeOK <=>
    /\ day \in 1 .. MaxDay /\ rows \in [Tasks -> [Periods -> RowRecord]]
    /\ marked \in [Events -> 0 .. MaxDay] /\ times \in [Events -> [Tasks -> Nat]]
    /\ credit \in [Tasks -> [Periods -> SUBSET Events]] /\ paid \in [Tasks -> [Periods -> Nat]]
    /\ claim \in [Claimers -> ClaimType] /\ resetOn \in Resets
    /\ slaves \in BOOLEAN /\ replica \in Replicas
BY DEF TaskTypeOK, RowRecord, ClaimType, RowType, ResetType, Resets, Replicas

\* The same of the next state.
LEMMA TaskTypesNext ==
  ASSUME day' \in 1 .. MaxDay, rows' \in [Tasks -> [Periods -> RowRecord]],
         marked' \in [Events -> 0 .. MaxDay], times' \in [Events -> [Tasks -> Nat]],
         credit' \in [Tasks -> [Periods -> SUBSET Events]], paid' \in [Tasks -> [Periods -> Nat]],
         claim' \in [Claimers -> ClaimType], resetOn' \in Resets,
         slaves' \in BOOLEAN, replica' \in Replicas
  PROVE  TaskTypeOK'
BY DEF TaskTypeOK, RowRecord, ClaimType, RowType, ResetType, Resets, Replicas

\* GetCurrentPeriod: the Monday of a week is one of its days, and a Monday.
LEMMA Mondays ==
  ASSUME NEW d \in Nat \ {0}
  PROVE  /\ d - ((d - 1) % 7) \in 1 .. d
         /\ ((d - ((d - 1) % 7)) - 1) % 7 = 0
         /\ (d - 1) % 7 = 0 => d - ((d - 1) % 7) = d
OBVIOUS

\* Where the period of a task begins, by its type.
LEMMA PeriodTypes ==
  ASSUME NEW d \in 1 .. MaxDay, NEW t \in Tasks
  PROVE  /\ PeriodOn(t, d) \in Periods
         /\ TaskType[t] = "daily" => PeriodOn(t, d) = d
         /\ TaskType[t] = "weekly" => /\ PeriodOn(t, d) = d - ((d - 1) % 7)
                                     /\ PeriodOn(t, d) >= 1 /\ (PeriodOn(t, d) - 1) % 7 = 0
         /\ TaskType[t] = "achievement" => PeriodOn(t, d) = 0
<1>1. d \in Nat \ {0} /\ MaxDay \in Nat
  BY TaskAssumption
<1>2. TaskType[t] \in {"daily", "weekly", "achievement"}
  BY TaskAssumption
<1>3. CASE TaskType[t] = "daily"
  BY <1>1, <1>3 DEF PeriodOn, Periods, GetCurrentPeriod
<1>4. CASE TaskType[t] = "weekly"
  <2>1. PeriodOn(t, d) = d - ((d - 1) % 7)
    BY <1>4 DEF PeriodOn, GetCurrentPeriod
  <2> QED
    BY <1>1, <1>4, <2>1, Mondays DEF Periods
<1>5. CASE TaskType[t] = "achievement"
  BY <1>1, <1>5 DEF PeriodOn, Periods, GetCurrentPeriod
<1> QED
  BY <1>2, <1>3, <1>4, <1>5

\* The replica's rows stay where they are while it does not catch up and the day does not end.
LEMMA ReplicaStays ==
  ASSUME TaskInv, UNCHANGED <<day, replica>>, harm \subseteq harm'
  PROVE  Placed(replica.rows, replica.resetOn)' /\ (replica.resetOn["daily"] <= day)'
<1>1. Placed(replica.rows, replica.resetOn)
  BY DEF TaskInv, RowsPlaced
<1>2. Placed(replica.rows, replica.resetOn)'
  BY <1>1 DEF Placed
<1> QED
  BY <1>2 DEF TaskInv

\* Steps of others.
LEMMA TaskStays ==
  ASSUME TaskInv, UNCHANGED taskVars, harm \subseteq harm'
  PROVE  TaskInv'
<1>1. UNCHANGED <<day, rows, marked, times, credit, paid, claim, resetOn, slaves, replica>>
  BY DEF taskVars
<1>2. TaskTypeOK' /\ (resetOn["daily"] <= day /\ replica.resetOn["daily"] <= day)'
      /\ (\A c \in Claimers : claim[c].at = "found" => claim[c].task \in Tasks)'
  BY <1>1 DEF TaskInv, TaskTypeOK
<1>a. RowsPlaced'
  BY <1>1 DEF TaskInv, RowsPlaced, Placed
<1>3. ProgressOncePerEvent'
  <2>1. harm' \cap {"deadlock", "cleanup"} = {} => harm \cap {"deadlock", "cleanup"} = {}
    OBVIOUS
  <2> QED
    BY <1>1, <2>1 DEF TaskInv, ProgressOncePerEvent
<1> QED
  BY <1>2, <1>a, <1>3 DEF TaskInv

\* IncrProgress adds to rows of the periods on the days given.
LEMMA IncrTypes ==
  ASSUME TaskInv, NEW e \in Events, NEW ts \in SUBSET Tasks,
         NEW at \in [Tasks -> 1 .. MaxDay], IncrProgress(e, ts, at)
  PROVE  /\ rows' \in [Tasks -> [Periods -> RowRecord]] /\ times' \in [Events -> [Tasks -> Nat]]
         /\ credit' \in [Tasks -> [Periods -> SUBSET Events]]
         /\ \A t \in Tasks, p \in Periods : rows'[t][p].there => rows[t][p].there \/ (t \in ts /\ p = PeriodOn(t, at[t]))
<1>1. /\ day \in 1 .. MaxDay /\ rows \in [Tasks -> [Periods -> RowRecord]]
      /\ times \in [Events -> [Tasks -> Nat]] /\ credit \in [Tasks -> [Periods -> SUBSET Events]]
  BY TaskTypes DEF TaskInv
<1>2. ASSUME NEW row \in RowRecord, NEW t \in Tasks
      PROVE  Incremented(row, Gain[e], Target[t]) \in RowRecord
  <2>1. Gain[e] \in Nat /\ Target[t] \in Nat /\ row.current \in Nat
    BY TaskAssumption DEF RowRecord
  <2>2. row.current + Gain[e] \in Nat /\ (row.completed \/ row.current + Gain[e] >= Target[t]) \in BOOLEAN
    BY <2>1
  <2> QED
    BY <2>2 DEF Incremented, RowRecord
<1>3. ASSUME NEW t \in Tasks
      PROVE  /\ rows'[t] \in [Periods -> RowRecord] /\ credit'[t] \in [Periods -> SUBSET Events]
             /\ \A p \in Periods : rows'[t][p].there => rows[t][p].there \/ (t \in ts /\ p = PeriodOn(t, at[t]))
  <2> DEFINE q == PeriodOn(t, at[t])
  <2>1. q \in Periods /\ rows[t] \in [Periods -> RowRecord] /\ rows[t][q] \in RowRecord
    BY <1>1, PeriodTypes
  <2>2. CASE t \notin ts
    BY <1>1, <2>2 DEF IncrProgress
  <2>3. CASE t \in ts
    <3>1. rows'[t] = [rows[t] EXCEPT ![q] = Incremented(rows[t][q], Gain[e], Target[t])]
      BY <2>1, <2>3 DEF IncrProgress
    <3>2. credit'[t] = [credit[t] EXCEPT ![q] = @ \cup {e}]
      BY <2>3 DEF IncrProgress
    <3>3. Incremented(rows[t][q], Gain[e], Target[t]) \in RowRecord
      BY <1>2, <2>1
    <3> HIDE DEF Incremented, q
    <3>4. rows'[t] \in [Periods -> RowRecord] /\ \A p \in Periods : p # q => rows'[t][p] = rows[t][p]
      BY <2>1, <3>1, <3>3
    <3>5. credit'[t] \in [Periods -> SUBSET Events]
      BY <1>1, <2>1, <3>2
    <3> QED
      BY <2>3, <3>4, <3>5 DEF q
  <2> QED
    BY <2>2, <2>3
<1>4. rows' \in [Tasks -> [Periods -> RowRecord]] /\ credit' \in [Tasks -> [Periods -> SUBSET Events]]
  <2>1. DOMAIN rows' = Tasks /\ DOMAIN credit' = Tasks
    BY DEF IncrProgress
  <2>2. rows' = [t \in Tasks |-> rows'[t]] /\ credit' = [t \in Tasks |-> credit'[t]]
    BY DEF IncrProgress
  <2> QED
    BY <1>3, <2>2
<1>5. times' \in [Events -> [Tasks -> Nat]]
  <2>1. times' = [times EXCEPT ![e] = [t \in Tasks |-> times[e][t] + IF t \in ts THEN 1 ELSE 0]]
    BY <1>1 DEF IncrProgress
  <2>2. \A t \in Tasks : times[e][t] + (IF t \in ts THEN 1 ELSE 0) \in Nat
    BY <1>1
  <2> QED
    BY <1>1, <2>1, <2>2
<1> QED
  BY <1>3, <1>4, <1>5

\* IncrProgress writes rows of current periods, or leaves a trace of a period that was over.
LEMMA IncrPlaced ==
  ASSUME TaskInv, NEW e \in Events, NEW ts \in SUBSET Tasks,
         NEW at \in [Tasks -> 1 .. MaxDay], IncrProgress(e, ts, at),
         harm \subseteq harm', LateRow(ts, at) \subseteq harm', UNCHANGED <<day, resetOn, replica>>
  PROVE  RowsPlaced'
<1>0. Placed(replica.rows, replica.resetOn)'
  BY ReplicaStays
<1> SUFFICES ASSUME NEW t \in Tasks, NEW p \in Periods, rows'[t][p].there
             PROVE  /\ TaskType[t] = "weekly" => p >= 1 /\ (p - 1) % 7 = 0
                    /\ TaskType[t] = "achievement" => p = 0
                    /\ TaskType[t] = "daily" /\ resetOn["daily"] = day /\ "midnight" \notin harm' => p = day
  BY <1>0 DEF RowsPlaced, Placed
<1>1. day \in 1 .. MaxDay /\ at[t] \in 1 .. MaxDay
  BY DEF TaskInv, TaskTypeOK
<1>2. CASE rows[t][p].there
  BY <1>2 DEF TaskInv, RowsPlaced, Placed
<1>3. CASE t \in ts /\ p = PeriodOn(t, at[t])
  <2>1. "midnight" \notin harm' => PeriodOn(t, at[t]) = PeriodOn(t, day)
    BY <1>3 DEF LateRow, Straddles, Period
  <2>2. TaskType[t] = "daily" => PeriodOn(t, day) = day
    BY <1>1, PeriodTypes
  <2>3. /\ TaskType[t] = "weekly" => PeriodOn(t, at[t]) >= 1 /\ (PeriodOn(t, at[t]) - 1) % 7 = 0
        /\ TaskType[t] = "achievement" => PeriodOn(t, at[t]) = 0
    BY <1>1, PeriodTypes
  <2> QED
    BY <1>3, <2>1, <2>2, <2>3
<1>4. rows[t][p].there \/ (t \in ts /\ p = PeriodOn(t, at[t]))
  BY IncrTypes
<1> QED
  BY <1>2, <1>3, <1>4

\* The clock is read on days of the run.
LEMMA ReadingTypes ==
  ASSUME day \in 1 .. MaxDay, NEW then \in 1 .. MaxDay
  PROVE  ClockReadings(then) \subseteq [Tasks -> 1 .. MaxDay]
<1>1. then .. day \subseteq 1 .. MaxDay
  BY TaskAssumption
<1> QED
  BY <1>1 DEF ClockReadings

\* The handler of an event, with and without a deadlock.
LEMMA ApplyKeeps ==
  ASSUME TaskInv, NEW e \in Events, NEW since \in 1 .. MaxDay, ApplyEventProgress(e, since)
  PROVE  TaskInv' /\ harm \subseteq harm'
<1>1. CASE ApplySkips(e)
  BY <1>1, TaskStays DEF ApplySkips, faultVars
<1>2. CASE ApplyCommits(e, since)
  <2>c. PICK created \in since .. day :
               /\ marked' = [marked EXCEPT ![e] = created]
               /\ \E at \in ClockReadings(created) :
                     IncrProgress(e, Tasks, at) /\ harm' = harm \cup LateRow(Tasks, at)
    BY <1>2 DEF ApplyCommits
  <2>a. PICK at \in ClockReadings(created) :
               IncrProgress(e, Tasks, at) /\ harm' = harm \cup LateRow(Tasks, at)
    BY <2>c
  <2>b. day \in 1 .. MaxDay /\ created \in 1 .. MaxDay /\ at \in [Tasks -> 1 .. MaxDay]
    <3>1. day \in 1 .. MaxDay
      BY TaskTypes DEF TaskInv
    <3>2. created \in 1 .. MaxDay
      BY <3>1, TaskAssumption
    <3> QED
      BY <3>1, <3>2, ReadingTypes
  <2>1. /\ UNCHANGED <<day, paid, claim, resetOn, slaves, replica>> /\ marked' = [marked EXCEPT ![e] = created]
        /\ marked[e] = 0 /\ IncrProgress(e, Tasks, at)
        /\ harm \subseteq harm' /\ LateRow(Tasks, at) \subseteq harm'
    BY <1>2, <2>c, <2>a DEF ApplyCommits
  <2>2. TaskTypeOK /\ day \in 1 .. MaxDay /\ marked \in [Events -> 0 .. MaxDay] /\ MaxDay \in Nat
    BY TaskTypes, TaskAssumption DEF TaskInv
  <2>3. TaskTypeOK'
    <3>1. /\ rows' \in [Tasks -> [Periods -> RowRecord]] /\ times' \in [Events -> [Tasks -> Nat]]
          /\ credit' \in [Tasks -> [Periods -> SUBSET Events]]
      BY <2>1, <2>b, IncrTypes
    <3>2. marked' \in [Events -> 0 .. MaxDay]
      BY <2>1, <2>2, <2>b
    <3>3. /\ day' \in 1 .. MaxDay /\ paid' \in [Tasks -> [Periods -> Nat]]
          /\ claim' \in [Claimers -> ClaimType] /\ resetOn' \in Resets
          /\ slaves' \in BOOLEAN /\ replica' \in Replicas
      BY <2>1, <2>2, TaskTypes
    <3> QED
      BY <3>1, <3>2, <3>3, TaskTypesNext
  <2>4. RowsPlaced'
    BY <2>1, <2>b, IncrPlaced
  <2>5. ProgressOncePerEvent'
    <3> SUFFICES ASSUME harm \cap {"deadlock", "cleanup"} = {}, NEW f \in Events, NEW t \in Tasks
                 PROVE  times'[f][t] = IF marked'[f] # 0 THEN 1 ELSE 0
      BY <2>1 DEF ProgressOncePerEvent, LateRow
    <3>1. times[f][t] = IF marked[f] # 0 THEN 1 ELSE 0
      BY DEF TaskInv, ProgressOncePerEvent
    <3>2. times \in [Events -> [Tasks -> Nat]]
      BY <2>2, TaskTypes
    <3>3. CASE f = e
      <4>1. times'[e] = [u \in Tasks |-> times[e][u] + IF u \in Tasks THEN 1 ELSE 0]
        BY <2>1, <3>2 DEF IncrProgress
      <4>2. times'[e][t] = times[e][t] + 1
        BY <4>1
      <4>3. marked'[e] = created /\ created # 0
        BY <2>1, <2>2, <2>b
      <4> QED
        BY <2>1, <3>1, <3>3, <4>2, <4>3
    <3>4. CASE f # e
      BY <2>1, <2>2, <3>1, <3>2, <3>4 DEF IncrProgress
    <3> QED
      BY <3>3, <3>4
  <2> QED
    BY <2>1, <2>3, <2>4, <2>5 DEF TaskInv
<1>3. CASE ApplyDeadlocked(e, since)
  <2>0. day \in 1 .. MaxDay /\ ClockReadings(since) \subseteq [Tasks -> 1 .. MaxDay]
    BY TaskTypes, ReadingTypes DEF TaskInv
  <2>1. PICK ts \in SUBSET Tasks, at \in [Tasks -> 1 .. MaxDay] :
               IncrProgress(e, ts, at) /\ harm' = harm \cup {"deadlock"} \cup LateRow(ts, at)
    BY <1>3, <2>0 DEF ApplyDeadlocked
  <2>2. UNCHANGED <<day, marked, paid, claim, resetOn, slaves, replica>> /\ "deadlock" \in harm'
    BY <1>3, <2>1 DEF ApplyDeadlocked
  <2>3. TaskTypeOK'
    <3>1. /\ rows' \in [Tasks -> [Periods -> RowRecord]] /\ times' \in [Events -> [Tasks -> Nat]]
          /\ credit' \in [Tasks -> [Periods -> SUBSET Events]]
      BY <2>1, IncrTypes
    <3>2. /\ day' \in 1 .. MaxDay /\ paid' \in [Tasks -> [Periods -> Nat]] /\ marked' \in [Events -> 0 .. MaxDay]
          /\ claim' \in [Claimers -> ClaimType] /\ resetOn' \in Resets
          /\ slaves' \in BOOLEAN /\ replica' \in Replicas
      BY <2>2, TaskTypes DEF TaskInv
    <3> QED
      BY <3>1, <3>2, TaskTypesNext
  <2>4. RowsPlaced'
    BY <2>1, <2>2, IncrPlaced
  <2>5. ProgressOncePerEvent'
    BY <2>2 DEF ProgressOncePerEvent
  <2> QED
    BY <2>1, <2>2, <2>3, <2>4, <2>5 DEF TaskInv
<1> QED
  BY <1>1, <1>2, <1>3 DEF ApplyEventProgress

\* Both steps of a Claim.
LEMMA ClaimKeeps ==
  ASSUME TaskInv, NEW c \in Claimers, ClaimTx(c) \/ \E t \in Tasks : ClaimFind(c, t)
  PROVE  TaskInv' /\ UNCHANGED faultVars
<1>1. /\ day \in 1 .. MaxDay /\ rows \in [Tasks -> [Periods -> RowRecord]]
      /\ marked \in [Events -> 0 .. MaxDay] /\ times \in [Events -> [Tasks -> Nat]]
      /\ credit \in [Tasks -> [Periods -> SUBSET Events]] /\ paid \in [Tasks -> [Periods -> Nat]]
      /\ claim \in [Claimers -> ClaimType] /\ resetOn \in Resets
      /\ slaves \in BOOLEAN /\ replica \in Replicas
  BY TaskTypes DEF TaskInv
<1>2. UNCHANGED <<day, marked, times, credit, resetOn, slaves, replica, faultVars>>
  BY DEF ClaimTx, ClaimFind
<1>3. ASSUME rows' \in [Tasks -> [Periods -> RowRecord]], paid' \in [Tasks -> [Periods -> Nat]],
             claim' \in [Claimers -> ClaimType],
             \A x \in Claimers : claim'[x].at = "found" => claim'[x].task \in Tasks,
             \A t \in Tasks, p \in Periods : rows'[t][p].there => rows[t][p].there
      PROVE  TaskInv' /\ UNCHANGED faultVars
  <2>1. TaskTypeOK'
    BY <1>1, <1>2, <1>3, TaskTypesNext
  <2>2. RowsPlaced'
    BY <1>2, <1>3 DEF TaskInv, RowsPlaced, Placed, faultVars
  <2>3. ProgressOncePerEvent'
    BY <1>2 DEF TaskInv, ProgressOncePerEvent, faultVars
  <2> QED
    BY <1>2, <1>3, <2>1, <2>2, <2>3 DEF TaskInv
<1>4. CASE ClaimTx(c)
  <2>1. claim[c].task \in Tasks /\ claim[c].period \in Periods
    BY <1>1, <1>4 DEF ClaimTx, TaskInv, ClaimType
  <2> DEFINE u == claim[c].task
             q == claim[c].period
  <2>2. /\ claim' = [claim EXCEPT ![c] = [NoClaim EXCEPT !.at = "done"]]
        /\ \/ UNCHANGED <<rows, paid>>
           \/ rows' = [rows EXCEPT ![u][q].claimed = TRUE] /\ paid' = [paid EXCEPT ![u][q] = @ + 1]
    BY <1>4 DEF ClaimTx
  <2>3. [NoClaim EXCEPT !.at = "done"] \in ClaimType /\ [NoClaim EXCEPT !.at = "done"].at = "done"
    BY TaskAssumption DEF NoClaim, ClaimType, Periods
  <2>4. /\ claim' \in [Claimers -> ClaimType]
        /\ \A x \in Claimers : claim'[x].at = "found" => claim'[x].task \in Tasks
    BY <1>1, <2>2, <2>3 DEF TaskInv
  <2> HIDE DEF u, q
  <2>5. /\ rows' \in [Tasks -> [Periods -> RowRecord]] /\ paid' \in [Tasks -> [Periods -> Nat]]
        /\ \A t \in Tasks, p \in Periods : rows'[t][p].there => rows[t][p].there
    <3>1. CASE UNCHANGED <<rows, paid>>
      BY <1>1, <3>1
    <3>2. CASE rows' = [rows EXCEPT ![u][q].claimed = TRUE] /\ paid' = [paid EXCEPT ![u][q] = @ + 1]
      <4>1. u \in Tasks /\ q \in Periods
        BY <2>1 DEF u, q
      <4>2. rows[u][q] \in RowRecord
        BY <1>1, <4>1
      <4>3. /\ [rows[u][q] EXCEPT !.claimed = TRUE] \in RowRecord
            /\ [rows[u][q] EXCEPT !.claimed = TRUE].there = rows[u][q].there
        BY <4>2 DEF RowRecord
      <4>4. rows' = [rows EXCEPT ![u] = [rows[u] EXCEPT ![q] = [rows[u][q] EXCEPT !.claimed = TRUE]]]
        BY <1>1, <3>2, <4>1
      <4>5. paid' \in [Tasks -> [Periods -> Nat]]
        BY <1>1, <3>2, <4>1
      <4>6. /\ rows' \in [Tasks -> [Periods -> RowRecord]]
            /\ \A t \in Tasks, p \in Periods : rows'[t][p].there => rows[t][p].there
        BY <1>1, <4>1, <4>3, <4>4
      <4> QED
        BY <4>5, <4>6
    <3> QED
      BY <2>2, <3>1, <3>2
  <2> QED
    BY <1>3, <2>4, <2>5
<1>5. ASSUME NEW t \in Tasks, ClaimFind(c, t)
      PROVE  TaskInv' /\ UNCHANGED faultVars
  <2>1. /\ claim' = [claim EXCEPT ![c] = [at |-> "found", task |-> t, period |-> Period(t)]]
        /\ UNCHANGED <<rows, paid>>
    BY <1>5 DEF ClaimFind
  <2>2. [at |-> "found", task |-> t, period |-> Period(t)] \in ClaimType
    BY <1>1, PeriodTypes DEF ClaimType, Period
  <2>3. /\ claim' \in [Claimers -> ClaimType]
        /\ \A x \in Claimers : claim'[x].at = "found" => claim'[x].task \in Tasks
    BY <1>1, <2>1, <2>2 DEF TaskInv
  <2> QED
    BY <1>1, <1>3, <2>1, <2>3
<1> QED
  BY <1>4, <1>5

\* Claims, resets, the clean-up of dedup rows and the change of the day.
LEMMA TaskOwnKeeps ==
  ASSUME TaskInv, faults \in 0 .. MaxFaults, TaskOwnStep
  PROVE  TaskInv' /\ harm \subseteq harm' /\ faults' \in 0 .. MaxFaults
<1>1. /\ day \in 1 .. MaxDay /\ rows \in [Tasks -> [Periods -> RowRecord]]
      /\ marked \in [Events -> 0 .. MaxDay] /\ times \in [Events -> [Tasks -> Nat]]
      /\ credit \in [Tasks -> [Periods -> SUBSET Events]] /\ paid \in [Tasks -> [Periods -> Nat]]
      /\ claim \in [Claimers -> ClaimType] /\ resetOn \in Resets
      /\ slaves \in BOOLEAN /\ replica \in Replicas
      /\ MaxDay \in Nat \ {0}
  BY TaskTypes, TaskAssumption DEF TaskInv
<1>2. \A t \in Tasks : TaskType[t] \in {"daily", "weekly", "achievement"}
  BY TaskAssumption
<1>3. ASSUME NEW c \in Claimers, ClaimTx(c) \/ \E t \in Tasks : ClaimFind(c, t)
      PROVE  TaskInv' /\ harm \subseteq harm' /\ faults' \in 0 .. MaxFaults
  BY <1>3, ClaimKeeps DEF faultVars
<1>4. ASSUME NEW type \in {"daily", "weekly"}, ResetPeriod(type)
      PROVE  TaskInv' /\ harm \subseteq harm' /\ faults' \in 0 .. MaxFaults
  <2>1. /\ UNCHANGED <<day, marked, times, credit, paid, claim, slaves, replica, faults, harm>>
        /\ resetOn' = [resetOn EXCEPT ![type] = day]
        /\ rows' = ResetProgressByType(type, GetCurrentPeriod(type, day))
    BY <1>4 DEF ResetPeriod, faultVars
  <2>2. NoRow \in RowRecord /\ NoRow.there = FALSE
    BY DEF NoRow, RowRecord
  <2>3. \A t \in Tasks, p \in Periods :
           rows'[t][p] = IF TaskType[t] = type /\ p # GetCurrentPeriod(type, day) THEN NoRow ELSE rows[t][p]
    BY <2>1 DEF ResetProgressByType
  <2>4. rows' \in [Tasks -> [Periods -> RowRecord]]
    <3>1. \A t \in Tasks, p \in Periods :
             (IF TaskType[t] = type /\ p # GetCurrentPeriod(type, day) THEN NoRow ELSE rows[t][p]) \in RowRecord
      BY <1>1, <2>2
    <3> QED
      BY <2>1, <3>1 DEF ResetProgressByType
  <2>5. resetOn' \in Resets
    BY <1>1, <2>1 DEF Resets
  <2>6. TaskTypeOK'
    BY <1>1, <2>1, <2>4, <2>5, TaskTypesNext
  <2>7. resetOn'["daily"] <= day /\ replica'.resetOn["daily"] <= day
    BY <1>1, <2>1 DEF TaskInv, Resets
  <2>a. Placed(replica.rows, replica.resetOn)'
    BY <2>1, ReplicaStays
  <2>8. RowsPlaced'
    <3> SUFFICES ASSUME NEW t \in Tasks, NEW p \in Periods, rows'[t][p].there
                 PROVE  /\ TaskType[t] = "weekly" => p >= 1 /\ (p - 1) % 7 = 0
                        /\ TaskType[t] = "achievement" => p = 0
                        /\ TaskType[t] = "daily" /\ resetOn'["daily"] = day /\ "midnight" \notin harm => p = day
      BY <2>1, <2>a DEF RowsPlaced, Placed
    <3>1. rows[t][p].there /\ (TaskType[t] = type => p = GetCurrentPeriod(type, day))
      BY <2>2, <2>3
    <3>2. /\ TaskType[t] = "weekly" => p >= 1 /\ (p - 1) % 7 = 0
          /\ TaskType[t] = "achievement" => p = 0
          /\ TaskType[t] = "daily" /\ resetOn["daily"] = day /\ "midnight" \notin harm => p = day
      BY <3>1 DEF TaskInv, RowsPlaced, Placed
    <3>3. CASE type = "daily"
      BY <3>1, <3>2, <3>3 DEF GetCurrentPeriod
    <3>4. CASE type = "weekly"
      <4>1. resetOn'["daily"] = resetOn["daily"]
        BY <1>1, <2>1, <3>4 DEF Resets
      <4> QED
        BY <3>2, <4>1
    <3> QED
      BY <3>3, <3>4
  <2>9. ProgressOncePerEvent'
    BY <2>1 DEF TaskInv, ProgressOncePerEvent
  <2> QED
    BY <2>1, <2>6, <2>7, <2>8, <2>9 DEF TaskInv
<1>5. CASE NextDay
  <2>1. UNCHANGED <<rows, marked, times, credit, paid, claim, resetOn, slaves, replica, faults, harm>> /\ day' = day + 1 /\ day < MaxDay
    BY <1>5 DEF NextDay, faultVars
  <2>2. TaskTypeOK'
    <3>1. day' \in 1 .. MaxDay
      BY <1>1, <2>1
    <3> QED
      BY <1>1, <2>1, <3>1, TaskTypesNext
  <2>3. /\ resetOn["daily"] <= day /\ resetOn["daily"] \in Nat
        /\ replica.resetOn["daily"] <= day /\ replica.resetOn["daily"] \in Nat
    BY <1>1 DEF TaskInv, Resets, Replicas
  <2>4. /\ resetOn["daily"] <= day + 1 /\ resetOn["daily"] # day + 1
        /\ replica.resetOn["daily"] <= day + 1 /\ replica.resetOn["daily"] # day + 1
    BY <1>1, <2>3
  <2>5. RowsPlaced'
    BY <2>1, <2>4 DEF TaskInv, RowsPlaced, Placed
  <2>6. ProgressOncePerEvent'
    BY <2>1 DEF TaskInv, ProgressOncePerEvent
  <2> QED
    BY <2>1, <2>2, <2>4, <2>5, <2>6 DEF TaskInv
<1>6. CASE CleanupDedup
  <2>1. /\ UNCHANGED <<day, rows, times, credit, paid, claim, resetOn, slaves, replica, faults>>
        /\ marked' = [e \in Events |-> IF e \in DeleteBefore THEN 0 ELSE marked[e]]
        /\ harm' = harm \cup {"cleanup"}
    BY <1>6 DEF CleanupDedup
  <2>2. marked' \in [Events -> 0 .. MaxDay]
    BY <1>1, <2>1
  <2>3. TaskTypeOK'
    BY <1>1, <2>1, <2>2, TaskTypesNext
  <2>4. ProgressOncePerEvent' /\ RowsPlaced'
    BY <2>1 DEF TaskInv, ProgressOncePerEvent, RowsPlaced, Placed
  <2> QED
    BY <2>1, <2>3, <2>4 DEF TaskInv
<1>7. CASE Replicate
  <2>1. /\ UNCHANGED <<day, rows, marked, times, credit, paid, claim, resetOn, slaves, faults, harm>>
        /\ replica' = [rows |-> rows, resetOn |-> resetOn]
    BY <1>7 DEF Replicate, faultVars
  <2>2. replica' \in Replicas /\ replica'.rows = rows /\ replica'.resetOn = resetOn
    BY <1>1, <2>1 DEF Replicas
  <2>3. TaskTypeOK'
    BY <1>1, <2>1, <2>2, TaskTypesNext
  <2>4. ProgressOncePerEvent' /\ RowsPlaced'
    BY <2>1, <2>2 DEF TaskInv, ProgressOncePerEvent, RowsPlaced, Placed
  <2> QED
    BY <2>1, <2>2, <2>3, <2>4 DEF TaskInv
<1> QED
  BY <1>3, <1>4, <1>5, <1>6, <1>7 DEF TaskOwnStep

\* Without rows nothing is counted.
LEMMA TaskInitInv ==
  ASSUME NEW today \in 1 .. MaxDay, NEW requesters, NEW replicated \in BOOLEAN,
         TaskInit(today, requesters, replicated)
  PROVE  TaskInv
<1>1. MaxDay \in Nat \ {0} /\ NoRow \in RowRecord /\ NoRow.there = FALSE
  BY TaskAssumption DEF NoRow, RowRecord
<1>2. \A at \in {"idle", "done"} : [NoClaim EXCEPT !.at = at] \in ClaimType /\ [NoClaim EXCEPT !.at = at].at = at
  BY <1>1 DEF NoClaim, ClaimType, Periods
<1>3. /\ day = today
      /\ rows = [t \in Tasks |-> [p \in Periods |-> NoRow]]
      /\ marked = [e \in Events |-> 0]
      /\ times = [e \in Events |-> [t \in Tasks |-> 0]]
      /\ credit = [t \in Tasks |-> [p \in Periods |-> {}]]
      /\ paid = [t \in Tasks |-> [p \in Periods |-> 0]]
      /\ claim = [c \in Claimers |-> [NoClaim EXCEPT !.at = IF c \in requesters THEN "idle" ELSE "done"]]
      /\ resetOn = [type \in {"daily", "weekly"} |-> IF today = MaxDay THEN today ELSE 0]
      /\ slaves \in BOOLEAN /\ replica = [rows |-> rows, resetOn |-> resetOn]
  BY DEF TaskInit
<1>4. /\ claim \in [Claimers -> ClaimType]
      /\ \A c \in Claimers : claim[c].at # "found"
  BY <1>2, <1>3
<1>5. rows \in [Tasks -> [Periods -> RowRecord]] /\ \A t \in Tasks, p \in Periods : ~ rows[t][p].there
  BY <1>1, <1>3
<1>6. /\ marked \in [Events -> 0 .. MaxDay] /\ times \in [Events -> [Tasks -> Nat]]
      /\ credit \in [Tasks -> [Periods -> SUBSET Events]] /\ paid \in [Tasks -> [Periods -> Nat]]
      /\ resetOn \in Resets
      /\ resetOn["daily"] <= day
  BY <1>1, <1>3 DEF Resets
<1>a. replica \in Replicas /\ replica.rows = rows /\ replica.resetOn = resetOn
  BY <1>3, <1>5, <1>6 DEF Replicas
<1>7. TaskTypeOK
  BY <1>3, <1>4, <1>5, <1>6, <1>a, TaskTypes
<1>8. RowsPlaced
  BY <1>5, <1>a DEF RowsPlaced, Placed
<1>9. ProgressOncePerEvent
  BY <1>3 DEF ProgressOncePerEvent
<1> QED
  BY <1>4, <1>6, <1>a, <1>7, <1>8, <1>9 DEF TaskInv

\* Two types share a period only on a Monday, and then the daily reset has removed the rest.
LEMMA ListIsCurrent == TaskInv => ListShowsThisPeriod
<1> DEFINE table == ReadRows
<1> SUFFICES ASSUME TaskInv, ReadReset = day, "midnight" \notin harm,
                    NEW t \in Tasks, NEW u \in Tasks, table[t][Period(u)].there
             PROVE  table[t][Period(u)] = table[t][Period(t)]
  BY DEF ListShowsThisPeriod, ListedRows, FindUserProgress
<1>0. Placed(table, [daily |-> day])
  <2>1. CASE slaves
    BY <2>1 DEF TaskInv, RowsPlaced, Placed, ReadRows, ReadReset
  <2>2. CASE ~slaves
    BY <2>2 DEF TaskInv, RowsPlaced, Placed, ReadRows, ReadReset
  <2> QED
    BY <2>1, <2>2
<1> HIDE DEF table
<1>1. day \in 1 .. MaxDay /\ day \in Nat \ {0}
  BY TaskAssumption DEF TaskInv, TaskTypeOK
<1>2. /\ TaskType[t] \in {"daily", "weekly", "achievement"}
      /\ TaskType[u] \in {"daily", "weekly", "achievement"}
  BY TaskAssumption
<1>3. Period(u) \in Periods /\ Period(u) = PeriodOn(u, day) /\ Period(t) = PeriodOn(t, day)
  BY <1>1, PeriodTypes DEF Period
<1>4. /\ TaskType[t] = "weekly" => Period(u) >= 1 /\ (Period(u) - 1) % 7 = 0
      /\ TaskType[t] = "achievement" => Period(u) = 0
      /\ TaskType[t] = "daily" => Period(u) = day
  BY <1>0, <1>3 DEF Placed
<1>5. CASE TaskType[t] = "weekly"
  <2>1. CASE TaskType[u] = "daily"
    BY <1>1, <1>3, <1>4, <1>5, <2>1, PeriodTypes, Mondays
  <2>2. CASE TaskType[u] = "weekly"
    BY <1>1, <1>3, <1>5, <2>2, PeriodTypes
  <2>3. CASE TaskType[u] = "achievement"
    BY <1>1, <1>3, <1>4, <1>5, <2>3, PeriodTypes
  <2> QED
    BY <1>2, <2>1, <2>2, <2>3
<1>6. CASE TaskType[t] # "weekly"
  BY <1>1, <1>2, <1>3, <1>4, <1>6, PeriodTypes
<1> QED
  BY <1>5, <1>6

-----------------------------------------------------------------------------
(* The rewards.                                                              *)

Unharmed == harm \cap {"deadlock", "cleanup"} = {}

\* What the events of a row's period are worth.
Worth(t, p) == SumFunctionOnSet(Gain, credit[t][p])

\* A row says no more than the distinct events added to it, so neither does a claim made from it.
\* The events of a row are events added to its task: ProgressOncePerEvent then makes a commit
\* add a new one.
RewardOK(t, p) ==
    /\ IsFiniteSet(credit[t][p])
    /\ \A e \in credit[t][p] : times[e][t] > 0
    /\ paid[t][p] <= 1
    /\ Unharmed => /\ rows[t][p].current <= Worth(t, p)
                   /\ rows[t][p].completed \/ paid[t][p] = 1 => Target[t] <= Worth(t, p)

RewardInv == \A t \in Tasks, p \in Periods : RewardOK(t, p)

\* RewardIsEarned sums with MapThenSumSet, the same fold.
LEMMA GainSum ==
  ASSUME NEW S
  PROVE  MapThenSumSet(LAMBDA e : Gain[e], S) = SumFunctionOnSet(Gain, S)
BY DEF MapThenSumSet, SumFunctionOnSet, FoldFunctionOnSet

\* The events of a row have a sum.
LEMMA WorthTypes ==
  ASSUME TaskInv, NEW t \in Tasks, NEW p \in Periods, RewardOK(t, p)
  PROVE  /\ Summable(Gain, credit[t][p]) /\ Worth(t, p) \in Nat
         /\ rows[t][p].current \in Nat /\ Target[t] \in Nat /\ paid[t][p] \in Nat
<1>1. /\ credit \in [Tasks -> [Periods -> SUBSET Events]] /\ paid \in [Tasks -> [Periods -> Nat]]
      /\ rows \in [Tasks -> [Periods -> RowRecord]]
  BY TaskTypes DEF TaskInv
<1>2. credit[t][p] \subseteq Events /\ paid[t][p] \in Nat /\ rows[t][p] \in RowRecord
  BY <1>1
<1>3. \A e \in credit[t][p] : Gain[e] \in Nat
  BY <1>2, TaskAssumption
<1>4. Summable(Gain, credit[t][p]) /\ Worth(t, p) \in Nat
  BY <1>3, SumOfNaturals DEF Summable, Worth, RewardOK
<1>5. rows[t][p].current \in Nat /\ Target[t] \in Nat
  BY <1>2, TaskAssumption DEF RowRecord
<1> QED
  BY <1>2, <1>4, <1>5

\* What the invariant says of a row that was paid.
LEMMA RewardShown == TaskInv /\ RewardInv => RewardIsEarned
<1> SUFFICES ASSUME TaskInv, RewardInv, NEW t \in Tasks, NEW p \in Periods
             PROVE  /\ paid[t][p] <= 1
                    /\ paid[t][p] = 1 /\ harm \cap {"deadlock", "cleanup"} = {} =>
                          MapThenSumSet(LAMBDA e : Gain[e], credit[t][p]) >= Target[t]
  BY DEF RewardIsEarned
<1>1. RewardOK(t, p)
  BY DEF RewardInv
<1>2. Worth(t, p) \in Nat /\ Target[t] \in Nat
  BY <1>1, WorthTypes
<1>3. MapThenSumSet(LAMBDA e : Gain[e], credit[t][p]) = Worth(t, p)
  BY GainSum DEF Worth
<1> QED
  BY <1>1, <1>2, <1>3 DEF RewardOK, Unharmed

\* Nothing is added, and what is paid now was complete.
LEMMA RewardKept ==
  ASSUME TaskInv, NEW t \in Tasks, NEW p \in Periods, RewardOK(t, p), harm \subseteq harm',
         UNCHANGED <<credit, times>>,
         \/ rows'[t][p].current = rows[t][p].current /\ rows'[t][p].completed = rows[t][p].completed
         \/ rows'[t][p] = NoRow,
         \/ paid'[t][p] = paid[t][p]
         \/ paid[t][p] = 0 /\ paid'[t][p] = 1 /\ rows[t][p].completed
  PROVE  RewardOK(t, p)'
<1>1. Worth(t, p) \in Nat /\ Worth(t, p)' = Worth(t, p)
  BY WorthTypes DEF Worth
<1>2. NoRow.current = 0 /\ NoRow.completed = FALSE
  BY DEF NoRow
<1>3. Unharmed' => Unharmed
  BY DEF Unharmed
<1>4. rows[t][p].current \in Nat /\ Target[t] \in Nat /\ paid[t][p] \in Nat
  BY WorthTypes
<1>5. ASSUME Unharmed'
      PROVE  /\ rows'[t][p].current <= Worth(t, p)
             /\ rows'[t][p].completed \/ paid'[t][p] = 1 => Target[t] <= Worth(t, p)
  <2>1. /\ rows[t][p].current <= Worth(t, p)
        /\ rows[t][p].completed \/ paid[t][p] = 1 => Target[t] <= Worth(t, p)
    BY <1>3, <1>5 DEF RewardOK
  <2> HIDE DEF NoRow
  <2> QED
    BY <1>1, <1>2, <1>4, <2>1
<1>6. paid'[t][p] <= 1
  BY DEF RewardOK
<1> QED
  BY <1>1, <1>5, <1>6 DEF RewardOK

\* An event is added to tasks: in a transaction, to all of them and for the first time.
LEMMA RewardAdds ==
  ASSUME TaskInv, RewardInv, NEW e \in Events, NEW ts \in SUBSET Tasks,
         NEW at \in [Tasks -> 1 .. MaxDay], IncrProgress(e, ts, at),
         harm \subseteq harm', UNCHANGED paid,
         "deadlock" \in harm' \/ marked[e] = 0
  PROVE  RewardInv'
<1> SUFFICES ASSUME NEW t \in Tasks, NEW p \in Periods PROVE RewardOK(t, p)'
  BY DEF RewardInv
<1>0. /\ credit \in [Tasks -> [Periods -> SUBSET Events]] /\ rows \in [Tasks -> [Periods -> RowRecord]]
      /\ times \in [Events -> [Tasks -> Nat]] /\ day \in 1 .. MaxDay
  BY TaskTypes DEF TaskInv
<1>1. RewardOK(t, p)
  BY DEF RewardInv
<1>2. /\ Worth(t, p) \in Nat /\ Summable(Gain, credit[t][p]) /\ Gain[e] \in Nat
      /\ rows[t][p].current \in Nat /\ Target[t] \in Nat /\ paid[t][p] \in Nat
  BY <1>1, WorthTypes, TaskAssumption
<1>3. Unharmed' => Unharmed
  BY DEF Unharmed
<1>4. \A x \in Events : times'[x][t] >= times[x][t] /\ times[x][t] \in Nat /\ times'[x][t] \in Nat
  <2>1. times' = [times EXCEPT ![e] = [u \in Tasks |-> times[e][u] + IF u \in ts THEN 1 ELSE 0]]
    BY <1>0 DEF IncrProgress
  <2>2. times'[e][t] = times[e][t] + IF t \in ts THEN 1 ELSE 0
    BY <1>0, <2>1
  <2>3. \A x \in Events : x # e => times'[x] = times[x]
    BY <1>0, <2>1
  <2>4. \A x \in Events : times[x][t] \in Nat
    BY <1>0
  <2>5. times'[e][t] >= times[e][t] /\ times'[e][t] \in Nat
    BY <2>2, <2>4
  <2> QED
    BY <2>3, <2>4, <2>5
<1>5. CASE t \in ts /\ p = PeriodOn(t, at[t])
  <2>1. credit'[t][p] = credit[t][p] \cup {e}
    BY <1>0, <1>5 DEF IncrProgress
  <2>2. rows'[t][p] = Incremented(rows[t][p], Gain[e], Target[t])
    BY <1>0, <1>5 DEF IncrProgress
  <2>3. IsFiniteSet(credit'[t][p])
    <3>1. IsFiniteSet(credit[t][p])
      BY <1>1 DEF RewardOK
    <3>2. IsFiniteSet(credit[t][p] \cup {e})
      BY <3>1, FS_AddElement
    <3> QED
      BY <2>1, <3>2
  <2>4. \A x \in credit'[t][p] : times'[x][t] > 0
    <3>1. times'[e][t] = times[e][t] + 1
      BY <1>0, <1>5 DEF IncrProgress
    <3>2. times'[e][t] > 0
      BY <1>4, <3>1
    <3>3. \A x \in credit[t][p] : x \in Events /\ times[x][t] > 0
      BY <1>0, <1>1 DEF RewardOK
    <3>4. \A x \in credit[t][p] : times'[x][t] > 0
      BY <1>4, <3>3
    <3> QED
      BY <2>1, <3>2, <3>4
  <2>5. ASSUME Unharmed'
        PROVE  /\ rows'[t][p].current <= Worth(t, p)'
               /\ rows'[t][p].completed \/ paid[t][p] = 1 => Target[t] <= Worth(t, p)'
    <3>1. Unharmed /\ marked[e] = 0
      BY <1>3, <2>5 DEF Unharmed
    <3>2. times[e][t] = 0
      BY <3>1 DEF TaskInv, ProgressOncePerEvent, Unharmed
    <3>3. e \notin credit[t][p] /\ Gain[e] \in Int
      BY <1>1, <1>2, <3>2 DEF RewardOK
    <3>4. SumFunctionOnSet(Gain, credit[t][p] \cup {e}) = SumFunctionOnSet(Gain, credit[t][p]) + Gain[e]
      BY <1>2, <3>3, SumAdd
    <3>5. Worth(t, p)' = Worth(t, p) + Gain[e]
      BY <2>1, <3>4 DEF Worth
    <3>6. /\ rows[t][p].current <= Worth(t, p)
          /\ rows[t][p].completed \/ paid[t][p] = 1 => Target[t] <= Worth(t, p)
      BY <1>1, <3>1 DEF RewardOK
    <3> DEFINE sum == rows[t][p].current + Gain[e]
    <3>7. /\ rows'[t][p].current \in {rows[t][p].current, sum}
          /\ rows'[t][p].completed => rows[t][p].completed \/ sum >= Target[t]
      <4>1. CASE rows[t][p].claimed
        BY <2>2, <4>1 DEF Incremented
      <4>2. CASE ~rows[t][p].claimed
        <5> DEFINE done == rows[t][p].completed \/ sum >= Target[t]
        <5>1. rows'[t][p] = [there |-> TRUE, current |-> sum, completed |-> done, claimed |-> FALSE]
          BY <2>2, <4>2 DEF Incremented
        <5> HIDE DEF sum, done
        <5>2. rows'[t][p].current = sum /\ rows'[t][p].completed = done
          BY <5>1
        <5> QED
          BY <5>2 DEF done
      <4> QED
        BY <4>1, <4>2
    <3> QED
      BY <1>2, <3>5, <3>6, <3>7
  <2> QED
    BY <1>1, <2>3, <2>4, <2>5 DEF RewardOK
<1>6. CASE ~(t \in ts /\ p = PeriodOn(t, at[t]))
  <2>1. credit'[t][p] = credit[t][p] /\ rows'[t][p] = rows[t][p]
    BY <1>0, <1>6 DEF IncrProgress
  <2>2. \A x \in credit[t][p] : x \in Events /\ times[x][t] > 0
    BY <1>0, <1>1 DEF RewardOK
  <2>3. \A x \in credit[t][p] : times'[x][t] > 0
    BY <1>4, <2>2
  <2>4. Worth(t, p)' = Worth(t, p)
    BY <2>1 DEF Worth
  <2> QED
    BY <1>1, <1>3, <2>1, <2>3, <2>4 DEF RewardOK
<1> QED
  BY <1>5, <1>6

\* Every step of the task service keeps the rewards earned.
LEMMA RewardStep ==
  ASSUME TaskInv, RewardInv, harm \subseteq harm',
         \/ UNCHANGED taskVars
         \/ TaskOwnStep
         \/ \E e \in Events, since \in 1 .. MaxDay : ApplyEventProgress(e, since)
  PROVE  RewardInv'
<1>0. /\ rows \in [Tasks -> [Periods -> RowRecord]] /\ paid \in [Tasks -> [Periods -> Nat]]
  BY TaskTypes DEF TaskInv
<1>1. ASSUME UNCHANGED <<rows, credit, times, paid>> PROVE RewardInv'
  <2>1. \A t \in Tasks, p \in Periods : RewardOK(t, p)'
    BY <1>1, RewardKept DEF RewardInv
  <2> QED
    BY <2>1 DEF RewardInv
<1>2. CASE UNCHANGED taskVars
  BY <1>1, <1>2 DEF taskVars
<1>3. ASSUME NEW c \in Claimers, ClaimTx(c) PROVE RewardInv'
  <2> DEFINE u == claim[c].task
             q == claim[c].period
  <2>1. u \in Tasks /\ q \in Periods /\ UNCHANGED <<credit, times>>
    BY <1>3, TaskTypes DEF ClaimTx, TaskInv, ClaimType
  <2>2. \/ UNCHANGED <<rows, paid>>
        \/ /\ rows[u][q].completed /\ paid[u][q] = 0
           /\ rows' = [rows EXCEPT ![u][q].claimed = TRUE]
           /\ paid' = [paid EXCEPT ![u][q] = @ + 1]
    BY <1>3 DEF ClaimTx, ClaimReward
  <2> HIDE DEF u, q
  <2>3. CASE UNCHANGED <<rows, paid>>
    BY <1>1, <2>1, <2>3
  <2>4. CASE /\ rows[u][q].completed /\ paid[u][q] = 0
             /\ rows' = [rows EXCEPT ![u][q].claimed = TRUE]
             /\ paid' = [paid EXCEPT ![u][q] = @ + 1]
    <3>0. rows' = [rows EXCEPT ![u] = [rows[u] EXCEPT ![q] = [rows[u][q] EXCEPT !.claimed = TRUE]]]
      BY <1>0, <2>1, <2>4
    <3>a. paid'[u][q] = 1
      BY <1>0, <2>1, <2>4
    <3>b. rows[u] \in [Periods -> RowRecord] /\ rows[u][q] \in RowRecord
      BY <1>0, <2>1
    <3>c. rows'[u] = [rows[u] EXCEPT ![q] = [rows[u][q] EXCEPT !.claimed = TRUE]]
      BY <1>0, <2>1, <3>0
    <3>1. /\ rows'[u][q] = [rows[u][q] EXCEPT !.claimed = TRUE] /\ paid'[u][q] = 1
          /\ rows[u][q] \in RowRecord
      BY <2>1, <3>a, <3>b, <3>c
    <3>2. rows'[u][q].current = rows[u][q].current /\ rows'[u][q].completed = rows[u][q].completed
      BY <3>1 DEF RowRecord
    <3>3. ASSUME NEW t \in Tasks, NEW p \in Periods, t # u \/ p # q
          PROVE  rows'[t][p] = rows[t][p] /\ paid'[t][p] = paid[t][p]
      BY <1>0, <2>1, <2>4, <3>0, <3>3
    <3>4. ASSUME NEW t \in Tasks, NEW p \in Periods PROVE RewardOK(t, p)'
      <4>1. RewardOK(t, p)
        BY DEF RewardInv
      <4>2. CASE t = u /\ p = q
        BY <2>1, <2>4, <3>1, <3>2, <4>1, <4>2, RewardKept
      <4>3. CASE t # u \/ p # q
        BY <2>1, <3>3, <4>1, <4>3, RewardKept
      <4> QED
        BY <4>2, <4>3
    <3> QED
      BY <3>4 DEF RewardInv
  <2> QED
    BY <2>2, <2>3, <2>4
<1>4. ASSUME NEW type \in {"daily", "weekly"}, ResetPeriod(type) PROVE RewardInv'
  <2>1. UNCHANGED <<credit, times, paid>>
    BY <1>4 DEF ResetPeriod
  <2>2. \A t \in Tasks, p \in Periods : rows'[t][p] = NoRow \/ rows'[t][p] = rows[t][p]
    BY <1>4 DEF ResetPeriod, ResetProgressByType
  <2>3. ASSUME NEW t \in Tasks, NEW p \in Periods PROVE RewardOK(t, p)'
    <3>1. RewardOK(t, p) /\ (rows'[t][p] = NoRow \/ rows'[t][p] = rows[t][p])
      BY <2>2 DEF RewardInv
    <3> QED
      BY <2>1, <3>1, RewardKept
  <2> QED
    BY <2>3 DEF RewardInv
<1>5. CASE NextDay \/ CleanupDedup \/ Replicate \/ \E c \in Claimers, t \in Tasks : ClaimFind(c, t)
  BY <1>1, <1>5 DEF NextDay, CleanupDedup, Replicate, ClaimFind
<1>6. ASSUME NEW e \in Events, NEW since \in 1 .. MaxDay, ApplyEventProgress(e, since) PROVE RewardInv'
  <2>0. day \in 1 .. MaxDay /\ ClockReadings(since) \subseteq [Tasks -> 1 .. MaxDay]
    BY TaskTypes, ReadingTypes DEF TaskInv
  <2>1. CASE ApplySkips(e)
    BY <1>1, <2>1 DEF ApplySkips, taskVars
  <2>2. CASE ApplyCommits(e, since)
    <3>0. PICK created \in since .. day : \E at \in ClockReadings(created) : IncrProgress(e, Tasks, at)
      BY <2>2 DEF ApplyCommits
    <3>1. PICK at \in ClockReadings(created) : IncrProgress(e, Tasks, at)
      BY <3>0
    <3>2. created \in 1 .. MaxDay
      BY <2>0, TaskAssumption
    <3>3. at \in [Tasks -> 1 .. MaxDay]
      BY <2>0, <3>2, ReadingTypes
    <3>4. marked[e] = 0 /\ UNCHANGED paid
      BY <2>2 DEF ApplyCommits
    <3> QED
      BY <3>1, <3>3, <3>4, RewardAdds
  <2>3. CASE ApplyDeadlocked(e, since)
    <3>1. PICK ts \in SUBSET Tasks, at \in [Tasks -> 1 .. MaxDay] :
                 IncrProgress(e, ts, at) /\ "deadlock" \in harm'
      BY <2>0, <2>3 DEF ApplyDeadlocked
    <3>2. UNCHANGED paid
      BY <2>3 DEF ApplyDeadlocked
    <3> QED
      BY <3>1, <3>2, RewardAdds
  <2> QED
    BY <1>6, <2>1, <2>2, <2>3 DEF ApplyEventProgress
<1> QED
  BY <1>2, <1>3, <1>4, <1>5, <1>6 DEF TaskOwnStep

\* Nothing is claimed at the start.
LEMMA RewardInit ==
  ASSUME NEW today, NEW requesters, NEW replicated, TaskInit(today, requesters, replicated)
  PROVE  RewardInv
<1> SUFFICES ASSUME NEW t \in Tasks, NEW p \in Periods PROVE RewardOK(t, p)
  BY DEF RewardInv
<1>1. credit[t][p] = {} /\ paid[t][p] = 0 /\ rows[t][p] = NoRow
  BY DEF TaskInit
<1>2. Worth(t, p) = 0
  BY <1>1, SumOfNothing DEF Worth
<1> QED
  BY <1>1, <1>2, FS_EmptySet DEF RewardOK, NoRow

-----------------------------------------------------------------------------
(* The pipeline.                                                             *)

PipelineInv == ProducerInv /\ ConsumerInv /\ TaskInv

\* Every deployment begins in the invariant.
LEMMA InitInv == PipelineInit => PipelineInv
<1> SUFFICES ASSUME PipelineInit
             PROVE  PipelineInv
  OBVIOUS
<1>1. PICK d \in Deployments : /\ ProducerInit(d.kinds, d.backlog, d.traffic)
                               /\ ConsumerInit(d.consumes)
                               /\ TaskInit(d.today, d.claimers, d.slaves)
                               /\ FaultInit(d.faults)
  BY DEF PipelineInit
<1>2. ProducerInv
  BY <1>1, ProducerInitTypes
<1>3. LogOK
  BY <1>2, ProducerParts DEF CallOK
<1>4. ConsumerInv
  BY <1>1, <1>3, ConsumerInitInv
<1>5. TaskInv
  BY <1>1, DeploymentAssumption, TaskInitInv
<1> QED
  BY <1>2, <1>4, <1>5 DEF PipelineInv

\* Every step of the pipeline preserves it; a recorded offset goes back in two ways only.
LEMMA StepInv ==
  ASSUME PipelineInv, PipelineNext
  PROVE  /\ PipelineInv'
         /\ OffsetStep
<1>1. ProducerInv /\ ConsumerInv /\ TaskInv
  BY DEF PipelineInv
<1>2. CallOK /\ MemoryOK /\ SideOK /\ ReplayOK /\ LogOK /\ FilesOK /\ faults \in 0 .. MaxFaults
  BY <1>1, ProducerParts DEF CallOK, FilesOK
<1>3. (UNCHANGED disk => OffsetStep) /\ day \in 1 .. MaxDay
  <2>1. disk \in Nat
    BY <1>1, ConsumerTypes DEF ConsumerInv, Positions
  <2> QED
    BY <1>1, <2>1, TaskTypes DEF TaskInv, OffsetStep
\* The producer's invariant when the producer does nothing.
<1>4. ASSUME UNCHANGED <<brokerVars, prodVars>>, faults' \in 0 .. MaxFaults
      PROVE  ProducerInv'
  BY <1>1, <1>4 DEF ProducerInv, ProducerTypeOK, BrokerTypeOK, brokerVars, prodVars, files
<1>5. CASE ProducerNext /\ UNCHANGED <<consVars, taskVars>>
  <2>1. ProducerInv' /\ BrokerGrows
    BY <1>1, <1>5, ProducerNextTypes
  <2>2. ConsumerInv'
    BY <1>1, <1>2, <1>5, <2>1, ConsumerStays
  <2>3. TaskInv'
    BY <1>1, <1>5, <2>1, TaskStays DEF BrokerGrows
  <2>4. UNCHANGED disk
    BY <1>5 DEF consVars
  <2> QED
    BY <1>3, <2>1, <2>2, <2>3, <2>4 DEF PipelineInv
<1>6. CASE ConsumerStep /\ UNCHANGED prodVars
  <2>1. ConsumerKeeps
    BY <1>1, <1>2, <1>3, <1>6, ConsumerStepKeeps
  <2>2. ProducerInv'
    BY <1>4, <1>6, <2>1 DEF ConsumerKeeps
  <2>3. TaskInv'
    <3>1. CASE UNCHANGED taskVars
      BY <1>1, <2>1, <3>1, TaskStays DEF ConsumerKeeps
    <3>2. ASSUME NEW i \in Indices, Handled(i)
          PROVE  TaskInv'
      <4>1. log[i] \in Events
        BY <1>1, <1>2, <1>3, <3>2, DeliveryTurns, ConsumerAssumption DEF DeliveryStep
      <4>2. flight[i].since \in 1 .. MaxDay
        BY <1>1, <3>2, SinceTypes DEF Handled
      <4> QED
        BY <1>1, <2>1, <3>2, <4>1, <4>2, ApplyKeeps DEF ConsumerKeeps, Handled
    <3>3. UNCHANGED taskVars \/ \E i \in Indices : Handled(i)
      BY <1>6 DEF ConsumerStep, ConsumerStart, ConsumerStop, ConsumerExit, ConsumerCrash, ConnectionLost,
                  FlushOffsets, Deliver, DeliveryStep, CheckSeen, HandlerFailed, GiveUp, CommitOffset,
                  CommitSave, Ack
    <3> QED
      BY <3>1, <3>2, <3>3
  <2> QED
    BY <2>1, <2>2, <2>3 DEF PipelineInv, ConsumerKeeps
<1>7. CASE TaskOwnStep /\ UNCHANGED <<brokerVars, prodVars, consVars>>
  <2>1. TaskInv' /\ harm \subseteq harm' /\ faults' \in 0 .. MaxFaults
    BY <1>1, <1>2, <1>7, TaskOwnKeeps
  <2>2. ProducerInv'
    BY <1>4, <1>7, <2>1
  <2>3. BrokerGrows
    BY <1>2, <1>7, <2>1, LogStays DEF brokerVars
  <2>4. ConsumerInv' /\ UNCHANGED disk
    BY <1>1, <1>2, <1>7, <2>3, ConsumerStays DEF consVars
  <2> QED
    BY <1>3, <2>1, <2>2, <2>4 DEF PipelineInv
<1> QED
  BY <1>5, <1>6, <1>7 DEF PipelineNext

\* What a step of the pipeline is to the task service.
LEMMA TaskSees ==
  ASSUME PipelineInv, PipelineNext
  PROVE  /\ harm \subseteq harm'
         /\ \/ UNCHANGED taskVars
            \/ TaskOwnStep
            \/ \E e \in Events, since \in 1 .. MaxDay : ApplyEventProgress(e, since)
<1>1. ProducerInv /\ ConsumerInv /\ TaskInv
  BY DEF PipelineInv
<1>2. LogOK /\ FilesOK /\ faults \in 0 .. MaxFaults /\ kind \in Kinds /\ day \in 1 .. MaxDay
  BY <1>1, ProducerParts, TaskTypes DEF CallOK, FilesOK, SideOK, TaskInv
<1>3. CASE ProducerNext /\ UNCHANGED <<consVars, taskVars>>
  BY <1>1, <1>3, ProducerNextTypes DEF BrokerGrows
<1>4. CASE ConsumerStep /\ UNCHANGED prodVars
  <2>1. ConsumerKeeps
    BY <1>1, <1>2, <1>4, ConsumerStepKeeps
  <2>2. UNCHANGED taskVars \/ \E i \in Indices : Handled(i)
    BY <1>4 DEF ConsumerStep, ConsumerStart, ConsumerStop, ConsumerExit, ConsumerCrash, ConnectionLost,
                FlushOffsets, Deliver, DeliveryStep, CheckSeen, HandlerFailed, GiveUp, CommitOffset,
                CommitSave, Ack
  <2>3. ASSUME NEW i \in Indices, Handled(i)
        PROVE  \E e \in Events, since \in 1 .. MaxDay : ApplyEventProgress(e, since)
    <3>1. log[i] \in Events
      BY <1>1, <1>2, <2>3, DeliveryTurns, ConsumerAssumption DEF DeliveryStep
    <3>2. flight[i].since \in 1 .. MaxDay
      BY <1>1, <2>3, SinceTypes DEF Handled
    <3> QED
      BY <2>3, <3>1, <3>2 DEF Handled
  <2> QED
    BY <2>1, <2>2, <2>3 DEF ConsumerKeeps
<1>5. CASE TaskOwnStep /\ UNCHANGED <<brokerVars, prodVars, consVars>>
  BY <1>1, <1>2, <1>5, TaskOwnKeeps
<1> QED
  BY <1>3, <1>4, <1>5 DEF PipelineNext

\* So does a step of others.
LEMMA StutterInv ==
  ASSUME PipelineInv, UNCHANGED pipelineVars
  PROVE  PipelineInv'
<1>1. UNCHANGED <<brokerVars, prodVars, consVars, taskVars, faultVars>>
  BY DEF pipelineVars
<1>2. ProducerInv'
  BY <1>1 DEF PipelineInv, ProducerInv, ProducerTypeOK, BrokerTypeOK, brokerVars, prodVars, files, faultVars
<1>3. LogOK
  BY ProducerParts DEF PipelineInv, CallOK
<1>4. BrokerGrows
  BY <1>1, <1>3, LogStays DEF brokerVars, faultVars
<1>5. ConsumerInv' /\ TaskInv'
  BY <1>1, <1>3, <1>4, ConsumerStays, TaskStays DEF PipelineInv, faultVars
<1> QED
  BY <1>2, <1>5 DEF PipelineInv

\* The invariant the theorems below rest on.
LEMMA PipelineInvariant == PipelineSpec => []PipelineInv
<1>1. PipelineInv /\ [PipelineNext]_pipelineVars => PipelineInv'
  BY StepInv, StutterInv
<1> QED
  BY <1>1, InitInv, PTL DEF PipelineSpec

\* Type correctness of producer, broker, consumer and task service; with it, the producer's
\* queue never exceeds its capacity, whatever is put back into it.
THEOREM PipelineTypes == PipelineSpec => []PipelineTypeOK
<1>1. PipelineInv => PipelineTypeOK
  BY DEF PipelineInv, ProducerInv, ConsumerInv, TaskInv, PipelineTypeOK
<1> QED
  BY <1>1, PipelineInvariant, PTL

\* kafka_consumer.go 516-518: what a restart resumes from, or an acknowledgement, covers only
\* what was handled, recognised or dead-lettered, for every broker, progress store, pool size,
\* number of retries and pattern of crashes.  Of what fails for good the offset passes exactly
\* what no dead-letter file took; the other two exceptions are those of NothingSkipped.
THEOREM ProgressCoversSettled == PipelineSpec => []NothingSkipped
<1>1. PipelineInv => NothingSkipped
  BY CoversAll, ProducerParts DEF PipelineInv, CallOK, SideOK
<1> QED
  BY <1>1, PipelineInvariant, PTL

\* consumer_progress.go 33 and 207, kafka_consumer.go 555: the recorded progress goes back in two
\* ways and no other, whichever worker finishes first and whichever flush fails: a commit to the
\* table that read its row before another one was saved, and a file that could not be loaded.
THEOREM ProgressGrows == PipelineSpec => OffsetNeverGoesBack
<1>1. ASSUME PipelineInv, [PipelineNext]_pipelineVars
      PROVE  OffsetStep
  <2>1. CASE PipelineNext
    BY <1>1, <2>1, StepInv
  <2>2. CASE UNCHANGED pipelineVars
    <3>1. disk \in Nat /\ disk' = disk
      BY <1>1, <2>2, ConsumerTypes DEF pipelineVars, consVars, PipelineInv, ConsumerInv, Positions
    <3> QED
      BY <3>1 DEF OffsetStep
  <2> QED
    BY <1>1, <2>1, <2>2
<1>2. PipelineInv /\ [PipelineNext]_pipelineVars
        => [disk' < disk => \/ "load" \in harm
                            \/ \E i \in Indices : StaleSave(i) /\ disk' = i + 1]_consumerVars
  BY <1>1 DEF OffsetStep
<1> QED
  BY <1>2, PipelineInvariant, PTL DEF PipelineSpec, OffsetNeverGoesBack

\* task_service.go 238-244: an event counts once for each task, or not at all, however often
\* and in whatever order the consumer delivers it.
THEOREM EventsCountOnce == PipelineSpec => []ProgressOncePerEvent
<1>1. PipelineInv => ProgressOncePerEvent
  BY DEF PipelineInv, TaskInv
<1> QED
  BY <1>1, PipelineInvariant, PTL

\* What List and Progress show for a task, at the master or at a replica however far behind, is of
\* its current period once the daily reset of the day has run and has reached what they read,
\* unless a row was written for a period that ended while the handler ran.
THEOREM ListShowsToday == PipelineSpec => []ListShowsThisPeriod
<1>1. PipelineInv => ListShowsThisPeriod
  BY ListIsCurrent DEF PipelineInv
<1> QED
  BY <1>1, PipelineInvariant, PTL

\* task_service.go Claim: the reward of a task and period is paid at most once and only when
\* distinct events of that period reach the target, whatever is redelivered, claimed at the same
\* time or reset, up to the two named exceptions.
THEOREM RewardsAreEarned == PipelineSpec => []RewardIsEarned
<1>1. PipelineInit => RewardInv
  BY RewardInit DEF PipelineInit
<1>2. ASSUME PipelineInv, RewardInv, [PipelineNext]_pipelineVars PROVE RewardInv'
  <2>1. TaskInv
    BY <1>2 DEF PipelineInv
  <2>2. CASE PipelineNext
    BY <1>2, <2>1, <2>2, TaskSees, RewardStep
  <2>3. CASE UNCHANGED pipelineVars
    BY <1>2, <2>1, <2>3, RewardStep DEF pipelineVars, faultVars
  <2> QED
    BY <1>2, <2>2, <2>3
<1>3. PipelineInv /\ RewardInv => RewardIsEarned
  BY RewardShown DEF PipelineInv
<1> QED
  BY <1>1, <1>2, <1>3, PipelineInvariant, PTL DEF PipelineSpec

\* Every step of the pipeline keeps messages somewhere and lines on the disk.
LEMMA StepKeeps ==
  ASSUME PipelineInv, KeepInv, [PipelineNext]_pipelineVars
  PROVE  KeepInv' /\ DiskStep
<1>1. ProducerInv /\ ConsumerInv /\ TaskInv
  BY DEF PipelineInv
<1>2. LogOK /\ FilesOK /\ faults \in 0 .. MaxFaults /\ kind \in Kinds /\ day \in 1 .. MaxDay
  BY <1>1, ProducerParts, TaskTypes DEF CallOK, FilesOK, SideOK, TaskInv
<1>3. CASE ProducerNext
  BY <1>1, <1>3, ProducerKeeps
<1>4. CASE ConsumerStep /\ UNCHANGED prodVars
  <2>1. ConsumerKeeps
    BY <1>1, <1>2, <1>4, ConsumerStepKeeps
  <2> QED
    BY <1>1, <1>4, <2>1, OthersKeep DEF ConsumerKeeps
<1>5. CASE TaskOwnStep /\ UNCHANGED <<brokerVars, prodVars, consVars>>
  BY <1>1, <1>2, <1>5, TaskOwnKeeps, OthersKeep
<1>6. CASE UNCHANGED pipelineVars
  BY <1>1, <1>6, OthersKeep DEF pipelineVars, faultVars
<1> QED
  BY <1>3, <1>4, <1>5, <1>6 DEF PipelineNext

\* The same as an invariant of the specification.
LEMMA KeepInvariant == PipelineSpec => []KeepInv
<1>1. PipelineInit => KeepInv
  BY KeepInit DEF PipelineInit
<1>2. PipelineInv /\ KeepInv /\ [PipelineNext]_pipelineVars => KeepInv'
  BY StepKeeps
<1> QED
  BY <1>1, <1>2, PipelineInvariant, PTL DEF PipelineSpec

\* producer_base.go 79-81: a message given to Send before Close is at the broker, in memory or
\* in one of the two files, whatever the queue, the overflow goroutines, the breaker, the
\* replay, the shutdown and the broker's outages do, for any number of workers, capacities and
\* messages, up to the five named exceptions and for a producer that connected at its start: what
\* a nopProducer is given is gone.
THEOREM ProducerLosesNothing == PipelineSpec => []OutagesLoseNothing
<1>1. ASSUME PipelineInv, KeepInv PROVE OutagesLoseNothing
  <2>1. Kept /\ log \in Seq(Msgs)
    BY <1>1, ProducerParts DEF PipelineInv, KeepInv, CallOK, LogOK
  <2>2. \A m \in Msgs : m \in ToSet(log) => Copies(m) > 0
    BY <2>1, CopiesMeans
  <2> QED
    BY <2>1, <2>2 DEF Kept, Somewhere, OutagesLoseNothing
<1> QED
  BY <1>1, KeepInvariant, PipelineInvariant, PTL

\* dlq.go 50-56 and 150: a line of the dead-letter files stays there until the broker has the
\* message, over a crash at any point of the replay, up to the two named exceptions.
THEOREM DiskLinesStay == PipelineSpec => DiskIsDurable
<1> DEFINE A == \A m \in Msgs : /\ OnDisk(m)
                               /\ "disk" \notin harm'
                               /\ ~(kind = "rabbitmq" /\ "reply" \in harm)
                               => OnDisk(m)' \/ Copies(m)' > 0
           Counted == \A m \in Msgs : m \in ToSet(log) => Copies(m) > 0
<1>1. LogOK => Counted
  BY CopiesMeans DEF LogOK
<1> HIDE DEF Counted
<1>2. LogOK' => Counted'
  BY <1>1, PTL
<1>3. PipelineInv => LogOK
  BY ProducerParts DEF PipelineInv, CallOK
<1>4. PipelineInv' => LogOK'
  BY <1>3, PTL
<1>5. PipelineInv /\ KeepInv /\ PipelineInv' /\ [PipelineNext]_pipelineVars => A
  <2> SUFFICES ASSUME PipelineInv, KeepInv, LogOK', [PipelineNext]_pipelineVars PROVE A
    BY <1>4
  <2>1. DiskStep
    BY StepKeeps
  <2> QED
    BY <1>2, <2>1 DEF Counted, DiskStep, OnDisk
<1>6. PipelineInv /\ KeepInv /\ PipelineInv' /\ [PipelineNext]_pipelineVars => [A]_producerVars
  BY <1>5
<1> QED
  BY <1>6, KeepInvariant, PipelineInvariant, PTL DEF PipelineSpec, DiskIsDurable

\* producer_base.go Send and dlq.go: the broker gets a message twice only after a late
\* confirmation, a crash or a close timeout, for any number of workers, capacities and messages:
\* at every moment a message is in one place only, and the replay's snapshot counts as none once
\* its lines have been published or written back.
THEOREM DuplicatesAreExplained == PipelineSpec => []DuplicatesHaveACause
<1>1. PipelineInit => OnceInv
  BY OnceInit DEF PipelineInit
<1>2. ASSUME PipelineInv, KeepInv, OnceInv, [PipelineNext]_pipelineVars PROVE OnceInv'
  <2>1. ProducerInv /\ ConsumerInv /\ TaskInv
    BY <1>2 DEF PipelineInv
  <2>2. LogOK /\ faults \in 0 .. MaxFaults /\ kind \in Kinds /\ day \in 1 .. MaxDay
    BY <2>1, ProducerParts, TaskTypes DEF CallOK, FilesOK, SideOK, TaskInv
  <2>3. CASE ProducerNext
    BY <1>2, <2>1, <2>3, ProducerOnce
  <2>4. CASE ConsumerStep /\ UNCHANGED prodVars
    <3>1. ConsumerKeeps
      BY <2>1, <2>2, <2>4, ConsumerStepKeeps
    <3> QED
      BY <1>2, <2>1, <2>4, <3>1, OthersOnce DEF ConsumerKeeps
  <2>5. CASE TaskOwnStep /\ UNCHANGED <<brokerVars, prodVars, consVars>>
    BY <1>2, <2>1, <2>2, <2>5, TaskOwnKeeps, OthersOnce
  <2>6. CASE UNCHANGED pipelineVars
    BY <1>2, <2>1, <2>6, OthersOnce DEF pipelineVars, faultVars
  <2> QED
    BY <1>2, <2>3, <2>4, <2>5, <2>6 DEF PipelineNext
<1>3. ASSUME PipelineInv, OnceInv PROVE DuplicatesHaveACause
  <2> SUFFICES ASSUME life # "absent", Clean, NEW m \in Msgs PROVE ~(Copies(m) > 1)
    BY DEF DuplicatesHaveACause, Clean
  <2>1. log \in Seq(Msgs) /\ IsInjective(log)
    BY <1>3, ProducerParts DEF PipelineInv, CallOK, LogOK, OnceInv, NoRepeats
  <2>2. Copies(m) \in {0, 1}
    BY <2>1, OnceCopies
  <2> QED
    BY <2>2
<1> QED
  BY <1>1, <1>2, <1>3, KeepInvariant, PipelineInvariant, PTL DEF PipelineSpec
=============================================================================
