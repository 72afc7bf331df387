---------------------------- MODULE ChatHistoryProofs ----------------------------
(***************************************************************************)
(* Proofs about the history of the chats, for any chats, messages,         *)
(* reactions, length of the window, stored histories and faults.           *)
(***************************************************************************)
EXTENDS ChatHistory, SequenceTheorems, TLAPS

Good(s) == s \in Seq(Entries) /\ OnceEach(s) /\ KnowsTargets(s)

(* What was read of a chat, and what was added since, begins with what is  *)
(* saved, unless the window is full.                                       *)
HInv ==
  /\ data \in [Chats -> Seq(Entries)] /\ table \in [Chats -> Seq(Entries)]
  /\ \A c \in Chats : Good(data[c]) /\ Good(table[c])
  /\ \A c \in Chats : c \in loaded => Extends(table[c], data[c])
-------------------------------------------------------------------------------
LEMMA MessageFacts ==
  ASSUME NEW m \in Messages
  PROVE  Message(m) \in Entries /\ ~IsReaction(Message(m))
BY DEF Message, Entries, IsReaction

LEMMA ReactionFacts ==
  ASSUME NEW r \in Reactions, NEW m \in Messages, NEW k \in BOOLEAN
  PROVE  /\ Reaction(r, m, k) \in Entries /\ IsReaction(Reaction(r, m, k))
         /\ Reaction(r, m, k).update = r /\ Reaction(r, m, k).target = m
         /\ Reaction(r, m, k).known = k
BY DEF Reaction, Entries, IsReaction

LEMMA TrimFacts ==
  ASSUME NEW s \in Seq(Entries)
  PROVE  /\ Trim(s) \in Seq(Entries)
         /\ Len(s) <= MaxSize => Trim(s) = s
         /\ Len(s) > MaxSize => Len(Trim(s)) = MaxSize
         /\ \E d \in Nat : /\ Len(s) = Len(Trim(s)) + d
                           /\ \A i \in 1..Len(Trim(s)) : Trim(s)[i] = s[i + d]
<1>1. Len(s) \in Nat /\ MaxSize \in Nat \ {0}
  BY LenProperties, MaxSizeAssumption
<1>2. CASE Len(s) <= MaxSize
  BY <1>1, <1>2 DEF Trim
<1>3. CASE Len(s) > MaxSize
  <2> DEFINE d == Len(s) - MaxSize
  <2>1. d \in Nat \ {0} /\ Trim(s) = SubSeq(s, d + 1, Len(s))
    BY <1>1, <1>3 DEF Trim
  <2>2. \A i \in (d + 1)..Len(s) : s[i] \in Entries
    BY <1>1, <2>1, ElementOfSeq
  <2>3. /\ Trim(s) \in Seq(Entries) /\ Len(Trim(s)) = MaxSize
        /\ \A i \in 1..MaxSize : Trim(s)[i] = s[i + d]
    <3>1. d + 1 \in 1..(Len(s) + 1) /\ Len(s) - (d + 1) + 1 = MaxSize
      BY <1>1, <1>3, <2>1
    <3>2. /\ Trim(s) \in Seq(Entries) /\ Len(Trim(s)) = Len(s) - (d + 1) + 1
          /\ \A i \in 1..(Len(s) - (d + 1) + 1) : Trim(s)[i] = s[d + 1 + i - 1]
      BY <1>1, <2>1, <2>2, <3>1, SubSeqProperties
    <3>3. \A i \in 1..MaxSize : d + 1 + i - 1 = i + d
      BY <1>1, <2>1
    <3> HIDE DEF d
    <3> QED
      BY <3>1, <3>2, <3>3
  <2>4. Len(s) = MaxSize + d
    BY <1>1
  <2> HIDE DEF d
  <2>5. /\ d \in Nat /\ Len(s) = Len(Trim(s)) + d
        /\ \A i \in 1..Len(Trim(s)) : Trim(s)[i] = s[i + d]
    BY <2>1, <2>3, <2>4
  <2> QED
    BY <1>1, <1>3, <2>3, <2>5
<1> QED
  BY <1>1, <1>2, <1>3

LEMMA TrimEmpty == Trim(<<>>) = <<>>
<1>1. Len(<<>>) = 0
  BY EmptySeq
<1> QED
  BY <1>1, MaxSizeAssumption DEF Trim

LEMMA GoodTrim ==
  ASSUME NEW s, Good(s)
  PROVE  Good(Trim(s))
<1>1. PICK d \in Nat : /\ Len(s) = Len(Trim(s)) + d
                       /\ \A i \in 1..Len(Trim(s)) : Trim(s)[i] = s[i + d]
  BY TrimFacts DEF Good
<1>2. Trim(s) \in Seq(Entries) /\ Len(Trim(s)) \in Nat
  BY TrimFacts, LenProperties DEF Good
<1>3. OnceEach(Trim(s))
  <2>1. \A i \in 1..Len(Trim(s)) : i + d \in 1..Len(s)
    BY <1>1, <1>2
  <2>2. ASSUME NEW i \in 1..Len(Trim(s)), NEW j \in 1..Len(Trim(s)),
               IsReaction(Trim(s)[i]), IsReaction(Trim(s)[j]), Trim(s)[i].update = Trim(s)[j].update
        PROVE  i = j
    <3>1. i + d \in 1..Len(s) /\ j + d \in 1..Len(s) /\ Trim(s)[i] = s[i + d] /\ Trim(s)[j] = s[j + d]
      BY <1>1, <2>1
    <3>2. i + d = j + d
      BY <2>2, <3>1 DEF Good, OnceEach
    <3> QED
      BY <1>2, <3>2
  <2> QED
    BY <2>2 DEF OnceEach
<1>4. KnowsTargets(Trim(s))
  <2>1. \A j \in 1..Len(Trim(s)) : \A i \in 1..(j - 1) :
          i \in 1..Len(Trim(s)) /\ j + d \in 1..Len(s) /\ i + d \in 1..(j + d - 1)
    BY <1>1, <1>2
  <2>2. ASSUME NEW j \in 1..Len(Trim(s)), NEW i \in 1..(j - 1),
               IsReaction(Trim(s)[j]), Trim(s)[i] = Message(Trim(s)[j].target)
        PROVE  Trim(s)[j].known
    <3>1. Trim(s)[i] = s[i + d] /\ Trim(s)[j] = s[j + d]
      BY <1>1, <2>1
    <3>2. j + d \in 1..Len(s) /\ i + d \in 1..(j + d - 1)
      BY <2>1
    <3>3. IsReaction(s[j + d]) /\ s[i + d] = Message(s[j + d].target)
      BY <2>2, <3>1
    <3>4. s[j + d].known
      BY <3>2, <3>3 DEF Good, KnowsTargets
    <3> QED
      BY <3>1, <3>4
  <2> QED
    BY <2>2 DEF KnowsTargets
<1> QED
  BY <1>2, <1>3, <1>4 DEF Good

(* Messages that are added. *)
LEMMA GoodMessages ==
  ASSUME NEW s, Good(s), NEW piece \in Seq(Entries),
         \A i \in 1..Len(piece) : ~IsReaction(piece[i])
  PROVE  Good(s \o piece)
<1>1. /\ s \o piece \in Seq(Entries) /\ Len(s \o piece) = Len(s) + Len(piece)
      /\ Len(s) \in Nat /\ Len(piece) \in Nat
      /\ \A i \in 1..Len(s \o piece) :
           (s \o piece)[i] = IF i <= Len(s) THEN s[i] ELSE piece[i - Len(s)]
  BY ConcatProperties, LenProperties DEF Good
<1>2. \A i \in 1..Len(s \o piece) : IsReaction((s \o piece)[i]) => i \in 1..Len(s)
  <2>1. \A i \in 1..Len(s \o piece) : i <= Len(s) \/ i - Len(s) \in 1..Len(piece)
    BY <1>1
  <2> QED
    BY <1>1, <2>1
<1>3. OnceEach(s \o piece)
  BY <1>1, <1>2 DEF Good, OnceEach
<1>4. KnowsTargets(s \o piece)
  <2>1. \A j \in 1..Len(s) : \A i \in 1..(j - 1) : i \in 1..Len(s) /\ i \in 1..Len(s \o piece)
    BY <1>1
  <2> QED
    BY <1>1, <1>2, <2>1 DEF Good, KnowsTargets
<1> QED
  BY <1>1, <1>3, <1>4 DEF Good

LEMMA GoodReaction ==
  ASSUME NEW s, Good(s), NEW r \in Reactions, NEW m \in Messages, ~Recorded(r, s)
  PROVE  Good(Append(s, Reaction(r, m, ResolveTarget(m, s))))
<1> DEFINE e == Reaction(r, m, ResolveTarget(m, s))
           t == Append(s, e)
<1>0. ResolveTarget(m, s) \in BOOLEAN
  BY DEF ResolveTarget
<1>1. e \in Entries /\ IsReaction(e) /\ e.update = r /\ e.target = m /\ (e.known <=> ResolveTarget(m, s))
  BY <1>0, ReactionFacts
<1> HIDE DEF e
<1>2. /\ t \in Seq(Entries) /\ Len(t) = Len(s) + 1 /\ Len(s) \in Nat
      /\ \A i \in 1..Len(s) : t[i] = s[i]
      /\ t[Len(s) + 1] = e
  BY <1>1, LenProperties DEF Good
<1> HIDE DEF t
<1>3. \A i \in 1..Len(t) : i \in 1..Len(s) \/ i = Len(s) + 1
  BY <1>2
<1>4. OnceEach(t)
  <2>1. \A i \in 1..Len(s) : ~(IsReaction(t[i]) /\ t[i].update = r)
    BY <1>2 DEF Recorded
  <2> QED
    BY <1>1, <1>2, <1>3, <2>1 DEF Good, OnceEach
<1>5. KnowsTargets(t)
  <2>1. \A j \in 1..Len(s) : \A i \in 1..(j - 1) : i \in 1..Len(s)
    BY <1>2
  <2>2. \A i \in 1..Len(s) : t[i] = Message(m) => e.known
    BY <1>1, <1>2 DEF ResolveTarget
  <2>3. \A j \in 1..Len(t) : \A i \in 1..(j - 1) : i \in 1..Len(s)
    BY <1>2
  <2> QED
    BY <1>1, <1>2, <1>3, <2>1, <2>2, <2>3 DEF Good, KnowsTargets
<1> QED
  BY <1>2, <1>4, <1>5 DEF Good, t, e
-------------------------------------------------------------------------------
LEMMA PrefixPoints ==
  ASSUME NEW s \in Seq(Entries), NEW t \in Seq(Entries)
  PROVE  IsPrefix(s, t) <=> Len(s) <= Len(t) /\ \A i \in 1..Len(s) : s[i] = t[i]
<1>1. Len(s) \in Nat /\ Len(t) \in Nat
  BY LenProperties
<1>2. SubSeq(s, 1, Len(s)) = s
  BY SubSeqFull
<1>3. ASSUME Len(s) <= Len(t)
      PROVE  s = SubSeq(t, 1, Len(s)) <=> \A i \in 1..Len(s) : s[i] = t[i]
  <2>1. \A i \in 1..Len(s) : t[i] \in Entries
    BY <1>1, <1>3, ElementOfSeq
  <2>2. /\ SubSeq(t, 1, Len(s)) \in Seq(Entries) /\ Len(SubSeq(t, 1, Len(s))) = Len(s)
        /\ \A i \in 1..Len(s) : SubSeq(t, 1, Len(s))[i] = t[i]
    BY <1>1, <2>1, SubSeqProperties
  <2> QED
    BY <2>2, SeqEqual
<1> QED
  BY <1>2, <1>3 DEF IsPrefix

LEMMA ExtendsMore ==
  ASSUME NEW old \in Seq(Entries), NEW s \in Seq(Entries), NEW piece \in Seq(Entries),
         Extends(old, s)
  PROVE  Extends(old, Trim(s \o piece))
<1> SUFFICES ASSUME Len(Trim(s \o piece)) < MaxSize PROVE IsPrefix(old, Trim(s \o piece))
  BY DEF Extends
<1>1. /\ s \o piece \in Seq(Entries) /\ Len(s \o piece) = Len(s) + Len(piece)
      /\ Len(s) \in Nat /\ Len(piece) \in Nat /\ Len(old) \in Nat /\ MaxSize \in Nat
      /\ \A i \in 1..Len(s) : (s \o piece)[i] = s[i]
  BY ConcatProperties, LenProperties, MaxSizeAssumption
<1>2. PICK t \in Seq(Entries) : t = s \o piece
  BY <1>1
<1>3. Len(t) \in Nat /\ Len(t) <= MaxSize
  <2>1. Len(t) > MaxSize => Len(Trim(t)) = MaxSize
    BY TrimFacts
  <2>2. Len(Trim(t)) < MaxSize /\ Len(t) \in Nat
    BY <1>2, LenProperties
  <2> QED
    BY <1>1, <2>1, <2>2
<1>4. Trim(t) = t /\ Len(s) < MaxSize
  <2>1. Trim(t) = t
    BY <1>3, TrimFacts
  <2>2. Len(t) < MaxSize /\ Len(t) = Len(s) + Len(piece)
    BY <1>1, <1>2, <2>1
  <2> QED
    BY <1>1, <2>1, <2>2
<1>5. IsPrefix(old, s)
  BY <1>4 DEF Extends
<1>6. Len(old) <= Len(s) /\ \A i \in 1..Len(old) : old[i] = s[i]
  BY <1>5, PrefixPoints
<1>7. Len(old) <= Len(t) /\ \A i \in 1..Len(old) : old[i] = t[i]
  <2>1. \A i \in 1..Len(old) : i \in 1..Len(s)
    BY <1>1, <1>6
  <2> QED
    BY <1>1, <1>2, <1>6, <2>1
<1>8. IsPrefix(old, t)
  BY <1>7, PrefixPoints
<1> QED
  BY <1>2, <1>4, <1>8

LEMMA ReadFacts ==
  ASSUME HInv, NEW c \in Chats
  PROVE  Good(Read(c)) /\ Extends(table[c], Read(c))
<1>1. Good(data[c]) /\ Good(table[c]) /\ data[c] \in Seq(Entries) /\ table[c] \in Seq(Entries)
  BY DEF HInv, Good
<1>2. CASE c \in loaded
  BY <1>1, <1>2 DEF HInv, Read
<1>3. CASE c \notin loaded /\ table[c] = <<>>
  <2>1. IsPrefix(table[c], data[c])
    <3>1. Len(table[c]) = 0 /\ Len(data[c]) \in Nat
      BY <1>1, <1>3, LenProperties, EmptySeq
    <3> QED
      BY <1>1, <3>1, PrefixPoints
  <2> QED
    BY <1>1, <1>3, <2>1 DEF Read, Extends
<1>4. CASE c \notin loaded /\ table[c] # <<>>
  <2>1. Read(c) = Trim(table[c])
    BY <1>4 DEF Read
  <2>2. Len(Trim(table[c])) < MaxSize => Trim(table[c]) = table[c]
    BY <1>1, TrimFacts, MaxSizeAssumption, LenProperties
  <2>3. IsPrefix(table[c], table[c])
    BY <1>1, PrefixPoints, LenProperties
  <2> QED
    BY <1>1, <2>1, <2>2, <2>3, GoodTrim DEF Extends
<1> QED
  BY <1>2, <1>3, <1>4

(* One chat gets the history s, which is saved or not. *)
LEMMA OneChat ==
  ASSUME HInv, NEW c \in Chats, NEW s, Good(s),
         data' = [data EXCEPT ![c] = s],
         table' = table \/ table' = [table EXCEPT ![c] = s],
         loaded' \subseteq loaded \cup {c},
         c \in loaded' => Extends(table[c], s),
         IsReaction(Last(s)) /\ table' # table => Extends(table[c], s)
  PROVE  HInv' /\ SavedIsKept
<1>1. s \in Seq(Entries)
  BY DEF Good
<1>2. /\ data' \in [Chats -> Seq(Entries)] /\ table' \in [Chats -> Seq(Entries)]
      /\ data'[c] = s /\ (table'[c] = table[c] \/ table'[c] = s)
      /\ \A d \in Chats : d # c => data'[d] = data[d] /\ table'[d] = table[d]
      /\ table'[c] # table[c] => table'[c] = s /\ table' # table
  BY <1>1 DEF HInv
<1>3. \A d \in Chats : Good(data'[d]) /\ Good(table'[d])
  BY <1>2 DEF HInv
<1>4. IsPrefix(s, s)
  BY <1>1, PrefixPoints, LenProperties
<1>5. \A d \in Chats : d \in loaded' => Extends(table'[d], data'[d])
  BY <1>2, <1>4 DEF HInv, Extends
<1>6. SavedIsKept
  BY <1>2 DEF SavedIsKept
<1>7. HInv'
  BY <1>2, <1>3, <1>5 DEF HInv, Good, OnceEach, KnowsTargets, Extends
<1> QED
  BY <1>6, <1>7
-------------------------------------------------------------------------------
LEMMA KnownFacts ==
  ASSUME HInv, NEW c \in Chats, NEW load \in BOOLEAN
  PROVE  /\ Good(Known(c, load))
         /\ LoadedThen(c, load) \subseteq loaded \cup {c}
         /\ c \in LoadedThen(c, load) => Extends(table[c], Known(c, load))
<1>1. CASE Loads(c, load)
  BY <1>1, ReadFacts DEF Known, LoadedThen
<1>2. CASE ~Loads(c, load)
  BY <1>2 DEF HInv, Known, LoadedThen, Loads
<1> QED
  BY <1>1, <1>2

LEMMA LastOfTrim ==
  ASSUME NEW s \in Seq(Entries), NEW piece \in Seq(Entries), piece # <<>>
  PROVE  Last(Trim(s \o piece)) = piece[Len(piece)]
<1>1. PICK t \in Seq(Entries) : t = s \o piece
  BY ConcatProperties
<1>2. Len(t) = Len(s) + Len(piece) /\ Len(s) \in Nat /\ Len(piece) \in Nat \ {0}
  BY <1>1, ConcatProperties, LenProperties, EmptySeq
<1>3. t[Len(t)] = piece[Len(piece)]
  <2>1. Len(t) \in 1..Len(s) + Len(piece) /\ ~(Len(t) <= Len(s)) /\ Len(t) - Len(s) = Len(piece)
    BY <1>2
  <2> QED
    BY <1>1, <2>1, ConcatProperties
<1>4. PICK d \in Nat : /\ Len(t) = Len(Trim(t)) + d
                       /\ \A i \in 1..Len(Trim(t)) : Trim(t)[i] = t[i + d]
  BY TrimFacts
<1>5. Len(Trim(t)) \in 1..Len(Trim(t))
  <2>1. Len(Trim(t)) = Len(t) \/ Len(Trim(t)) = MaxSize
    <3>1. Len(t) \in Nat /\ MaxSize \in Nat
      BY <1>2, MaxSizeAssumption
    <3>2. Len(t) <= MaxSize \/ Len(t) > MaxSize
      BY <3>1
    <3> QED
      BY <3>2, TrimFacts
  <2> QED
    BY <1>2, <2>1, MaxSizeAssumption
<1>6. Trim(t)[Len(Trim(t))] = t[Len(t)]
  BY <1>4, <1>5
<1> QED
  BY <1>1, <1>3, <1>6 DEF Last

LEMMA AddStep ==
  ASSUME HInv, NEW c \in Chats, NEW piece \in Seq({Message(m) : m \in Messages}), piece # <<>>,
         AddAll(c, piece)
  PROVE  HInv' /\ SavedIsKept
<1>1. PICK load \in BOOLEAN :
        /\ data' = [data EXCEPT ![c] = Trim(Known(c, load) \o piece)]
        /\ loaded' = LoadedThen(c, load)
        /\ table' = table \/ table' = [table EXCEPT ![c] = data'[c]]
  BY DEF AddAll, Persist, Outcomes
<1>2. PICK s : s = Trim(Known(c, load) \o piece)
  OBVIOUS
<1>3. data' = [data EXCEPT ![c] = s] /\ data'[c] = s
  BY <1>1, <1>2 DEF HInv
<1>4. Good(Known(c, load)) /\ Known(c, load) \in Seq(Entries) /\ table[c] \in Seq(Entries)
  BY KnownFacts DEF HInv, Good
<1>5. piece \in Seq(Entries) /\ \A i \in 1..Len(piece) : ~IsReaction(piece[i])
  <2>1. {Message(m) : m \in Messages} \subseteq Entries
    BY MessageFacts
  <2>2. \A i \in 1..Len(piece) : piece[i] \in {Message(m) : m \in Messages}
    BY ElementOfSeq
  <2> QED
    BY <2>1, <2>2, SeqMonotonic, MessageFacts
<1>6. Good(s)
  BY <1>2, <1>4, <1>5, GoodMessages, GoodTrim
<1>7. c \in loaded' => Extends(table[c], s)
  BY <1>1, <1>2, <1>4, <1>5, KnownFacts, ExtendsMore
<1>8. ~IsReaction(Last(s))
  <2>1. Len(piece) \in 1..Len(piece)
    BY <1>5, EmptySeq
  <2> QED
    BY <1>2, <1>4, <1>5, <2>1, LastOfTrim
<1>9. loaded' \subseteq loaded \cup {c}
  BY <1>1, KnownFacts
<1> QED
  BY <1>1, <1>3, <1>6, <1>7, <1>8, <1>9, OneChat

LEMMA GetStep ==
  ASSUME HInv, NEW c \in Chats, Get(c)
  PROVE  HInv' /\ SavedIsKept
<1>1. PICK load \in BOOLEAN :
        data' = [data EXCEPT ![c] = Known(c, load)] /\ loaded' = LoadedThen(c, load) /\ table' = table
  BY DEF Get, Outcomes
<1> QED
  BY <1>1, KnownFacts, OneChat

LEMMA ReactionStep ==
  ASSUME HInv, NEW c \in Chats, NEW r \in Reactions, NEW m \in Messages, AddReaction(c, r, m)
  PROVE  HInv' /\ SavedIsKept
<1>1. Good(Read(c)) /\ Extends(table[c], Read(c)) /\ Read(c) \in Seq(Entries)
      /\ table[c] \in Seq(Entries)
  BY ReadFacts DEF Good, HInv
<1>2. CASE Recorded(r, Read(c))
  <2>1. data' = [data EXCEPT ![c] = Read(c)] /\ loaded' = loaded \cup {c} /\ table' = table
    BY <1>2 DEF AddReaction
  <2> QED
    BY <1>1, <2>1, OneChat
<1>3. CASE ~Recorded(r, Read(c))
  <2> DEFINE e == Reaction(r, m, ResolveTarget(m, Read(c)))
  <2>1. PICK s : s = Trim(Append(Read(c), e))
    OBVIOUS
  <2>2. /\ data' = [data EXCEPT ![c] = s] /\ loaded' = loaded \cup {c}
        /\ table' = table \/ table' = [table EXCEPT ![c] = data'[c]]
    BY <1>3, <2>1 DEF AddReaction, Persist, Outcomes
  <2>3. data'[c] = s
    BY <2>2 DEF HInv
  <2>4. Good(s)
    BY <1>1, <1>3, <2>1, GoodReaction, GoodTrim
  <2>5. ResolveTarget(m, Read(c)) \in BOOLEAN
    BY DEF ResolveTarget
  <2>6. e \in Entries
    BY <2>5, ReactionFacts
  <2> HIDE DEF e
  <2>7. Append(Read(c), e) = Read(c) \o <<e>> /\ <<e>> \in Seq(Entries)
    BY <1>1, <2>6
  <2>8. Extends(table[c], s)
    BY <1>1, <2>1, <2>7, ExtendsMore
  <2> QED
    BY <2>2, <2>3, <2>4, <2>8, OneChat
<1> QED
  BY <1>2, <1>3

LEMMA EmptyIsGood == Good(<<>>)
BY EmptySeq DEF Good, OnceEach, KnowsTargets

LEMMA HInit == HistoryInit => HInv
BY EmptyIsGood, StoredAssumption DEF HistoryInit, HInv, Good

LEMMA HStep == HInv /\ [HistoryNext]_history => HInv' /\ SavedIsKept
<1> SUFFICES ASSUME HInv, [HistoryNext]_history PROVE HInv' /\ SavedIsKept
  OBVIOUS
<1>1. ASSUME NEW c \in Chats, NEW m \in Messages, Add(c, Message(m))
      PROVE  HInv' /\ SavedIsKept
  <2>1. <<Message(m)>> \in Seq({Message(x) : x \in Messages}) /\ <<Message(m)>> # <<>>
    OBVIOUS
  <2> QED
    BY <1>1, <2>1, AddStep DEF Add
<1>2. ASSUME NEW c \in Chats, NEW m \in Messages, NEW n \in Messages,
             AddAll(c, <<Message(m), Message(n)>>)
      PROVE  HInv' /\ SavedIsKept
  <2>1. /\ <<Message(m), Message(n)>> \in Seq({Message(x) : x \in Messages})
        /\ <<Message(m), Message(n)>> # <<>>
    OBVIOUS
  <2> QED
    BY <1>2, <2>1, AddStep
<1>3. CASE HistoryRestart
  BY <1>3, EmptyIsGood DEF HistoryRestart, HInv, SavedIsKept, Good
<1>4. CASE UNCHANGED history
  BY <1>4 DEF history, HInv, SavedIsKept, Good, OnceEach, KnowsTargets, Extends
<1> QED
  BY <1>1, <1>2, <1>3, <1>4, GetStep, ReactionStep DEF HistoryNext

LEMMA HAlways == HistorySpec => []HInv
BY HInit, HStep, PTL DEF HistorySpec

(* No update is recorded twice while its first record is in the window,    *)
(* whatever was read, saved or lost between (history.go: AddReaction).     *)
THEOREM NeverTwice == HistorySpec => []NoReactionTwice
<1>1. HInv => NoReactionTwice
  BY DEF HInv, Good, NoReactionTwice, Histories
<1> QED
  BY <1>1, HAlways, PTL

(* A recorded reaction knows whose message it is about, if that message is *)
(* in the window (history.go: resolveTarget).                              *)
THEOREM TargetIsKnown == HistorySpec => []ReactionKnowsItsTarget
<1>1. HInv => ReactionKnowsItsTarget
  BY DEF HInv, Good, ReactionKnowsItsTarget, Histories
<1> QED
  BY <1>1, HAlways, PTL

(* A history that was read is never saved over by an incomplete one, and   *)
(* by a reaction not even one that was not read (history.go: persistLocked *)
(* saves what loadLocked has read and more, and AddReaction refuses).      *)
THEOREM HistoryIsKept == HistorySpec => SavedHistoryIsKept
<1>1. HInv /\ [HistoryNext]_history => [SavedIsKept]_history
  BY HStep
<1> QED
  BY <1>1, HAlways, PTL DEF HistorySpec, SavedHistoryIsKept
-------------------------------------------------------------------------------
(* While the table can be read, a chat that was not read has nothing in    *)
(* memory.                                                                 *)
UnreadIsEmpty == \A c \in Chats : c \notin loaded => data[c] = <<>>

Shown == [c \in Chats |-> Read(c)]
Recording(c, piece) ==
  /\ Shown' = [Shown EXCEPT ![c] = Trim(Read(c) \o piece)]
  /\ table' = table \/ table' = [table EXCEPT ![c] = Shown'[c]]

(* One chat is read in, and gets the history s. *)
LEMMA ShownStep ==
  ASSUME HInv, UnreadIsEmpty, NEW c \in Chats, NEW s,
         data' = [data EXCEPT ![c] = s], loaded' = loaded \cup {c},
         table' = table \/ table' = [table EXCEPT ![c] = s]
  PROVE  Shown' = [Shown EXCEPT ![c] = s] /\ UnreadIsEmpty'
<1>1. /\ data'[c] = s
      /\ \A d \in Chats : d # c => data'[d] = data[d] /\ table'[d] = table[d]
  BY DEF HInv
<1>2. Read(c)' = s
  BY <1>1 DEF Read
<1>3. \A d \in Chats : d # c => Read(d)' = Read(d)
  BY <1>1 DEF Read
<1>4. Shown' = [Shown EXCEPT ![c] = s]
  BY <1>2, <1>3 DEF Shown
<1> QED
  BY <1>1, <1>4 DEF UnreadIsEmpty

LEMMA AddIsRecording ==
  ASSUME HInv, UnreadIsEmpty, "load" \notin Faults, NEW c \in Chats, NEW piece, AddAll(c, piece)
  PROVE  Recording(c, piece) /\ UnreadIsEmpty'
<1>1. /\ data' = [data EXCEPT ![c] = Trim(Read(c) \o piece)]
      /\ loaded' = loaded \cup {c}
      /\ table' = table \/ table' = [table EXCEPT ![c] = data'[c]]
  BY DEF AddAll, Persist, Outcomes, Known, LoadedThen, Loads
<1>2. data'[c] = Trim(Read(c) \o piece)
  BY <1>1 DEF HInv
<1>3. Shown' = [Shown EXCEPT ![c] = Trim(Read(c) \o piece)] /\ UnreadIsEmpty'
  BY <1>1, <1>2, ShownStep
<1>4. Shown'[c] = data'[c]
  BY <1>2, <1>3 DEF Shown
<1> QED
  BY <1>1, <1>3, <1>4 DEF Recording

LEMMA ReadingIsHidden ==
  ASSUME HInv, UnreadIsEmpty, NEW c \in Chats,
         data' = [data EXCEPT ![c] = Read(c)], loaded' = loaded \cup {c}, UNCHANGED table
  PROVE  UNCHANGED <<Shown, table>> /\ UnreadIsEmpty'
<1>1. Shown' = [Shown EXCEPT ![c] = Read(c)] /\ UnreadIsEmpty'
  BY ShownStep
<1>2. [Shown EXCEPT ![c] = Read(c)] = Shown
  BY DEF Shown
<1> QED
  BY <1>1, <1>2

LEMMA WindowStep ==
  ASSUME HInv, UnreadIsEmpty, "load" \notin Faults, [HistoryNext]_history
  PROVE  /\ UnreadIsEmpty'
         /\ \/ \E c \in Chats, piece \in Window!Pieces : Recording(c, piece)
            \/ Shown' = [c \in Chats |-> Trim(table[c])] /\ UNCHANGED table
            \/ UNCHANGED <<Shown, table>>
<1>1. ASSUME NEW c \in Chats, NEW m \in Messages, Add(c, Message(m))
      PROVE  UnreadIsEmpty' /\ \E piece \in Window!Pieces : Recording(c, piece)
  BY <1>1, AddIsRecording, MessageFacts DEF Add, Window!Pieces
<1>2. ASSUME NEW c \in Chats, NEW m \in Messages, NEW n \in Messages,
             AddAll(c, <<Message(m), Message(n)>>)
      PROVE  UnreadIsEmpty' /\ \E piece \in Window!Pieces : Recording(c, piece)
  BY <1>2, AddIsRecording, MessageFacts DEF Window!Pieces
<1>3. ASSUME NEW c \in Chats, Get(c)
      PROVE  UnreadIsEmpty' /\ UNCHANGED <<Shown, table>>
  BY <1>3, ReadingIsHidden DEF Get, Outcomes, Known, LoadedThen, Loads
<1>4. ASSUME NEW c \in Chats, NEW r \in Reactions, NEW m \in Messages, AddReaction(c, r, m)
      PROVE  UnreadIsEmpty' /\ (\/ \E piece \in Window!Pieces : Recording(c, piece)
                                \/ UNCHANGED <<Shown, table>>)
  <2>1. CASE Recorded(r, Read(c))
    BY <1>4, <2>1, ReadingIsHidden DEF AddReaction
  <2>2. CASE ~Recorded(r, Read(c))
    <3>1. ResolveTarget(m, Read(c)) \in BOOLEAN
      BY DEF ResolveTarget
    <3>2. PICK e \in Entries : e = Reaction(r, m, ResolveTarget(m, Read(c)))
      BY <3>1, ReactionFacts
    <3>3. /\ data' = [data EXCEPT ![c] = Trim(Append(Read(c), e))] /\ loaded' = loaded \cup {c}
          /\ table' = table \/ table' = [table EXCEPT ![c] = data'[c]]
      BY <1>4, <2>2, <3>2 DEF AddReaction, Persist, Outcomes
    <3>4. Append(Read(c), e) = Read(c) \o <<e>>
      BY ReadFacts DEF Good
    <3>5. data'[c] = Trim(Read(c) \o <<e>>)
      BY <3>3, <3>4 DEF HInv
    <3>6. Shown' = [Shown EXCEPT ![c] = Trim(Read(c) \o <<e>>)] /\ UnreadIsEmpty'
      BY <3>3, <3>4, <3>5, ShownStep
    <3>7. Shown'[c] = data'[c]
      BY <3>5, <3>6 DEF Shown
    <3>8. Recording(c, <<e>>)
      BY <3>3, <3>6, <3>7 DEF Recording
    <3> QED
      BY <3>6, <3>8 DEF Window!Pieces
  <2> QED
    BY <2>1, <2>2
<1>5. CASE HistoryRestart
  <2>1. \A c \in Chats : Read(c)' = Trim(table[c])
    BY <1>5, TrimEmpty DEF HistoryRestart, Read
  <2> QED
    BY <1>5, <2>1 DEF HistoryRestart, Shown, UnreadIsEmpty
<1>6. CASE UNCHANGED history
  BY <1>6 DEF history, Shown, Read, UnreadIsEmpty
<1> QED
  BY <1>1, <1>2, <1>3, <1>4, <1>5, <1>6 DEF HistoryNext

(* While the table can be read, the history is a window on the latest      *)
(* entries: nobody sees when a chat is read in, and a restart falls back   *)
(* to what was saved (history.go: ensureLoadedLocked, appendLocked).       *)
THEOREM HistoryIsAWindow ==
  ASSUME "load" \notin Faults
  PROVE  HistorySpec => ImplementsWindow
<1>1. HistoryInit => UnreadIsEmpty /\ Window!WindowInit
  <2> SUFFICES ASSUME HistoryInit PROVE UnreadIsEmpty /\ Window!WindowInit
    OBVIOUS
  <2>1. \A c \in Chats : Read(c) = Trim(table[c])
    BY TrimEmpty DEF HistoryInit, Read
  <2>2. table \in [Chats -> Seq(Entries)]
    BY StoredAssumption DEF HistoryInit
  <2> QED
    BY <2>1, <2>2 DEF HistoryInit, UnreadIsEmpty, Window!WindowInit, Window!LastOf, Trim
<1>2. HInv /\ UnreadIsEmpty /\ [HistoryNext]_history => UnreadIsEmpty'
  BY WindowStep
<1>3. HInv /\ UnreadIsEmpty /\ [HistoryNext]_history
        => [Window!WindowNext]_<<Shown, table>>
  <2> SUFFICES ASSUME HInv, UnreadIsEmpty, [HistoryNext]_history
               PROVE  [Window!WindowNext]_<<Shown, table>>
    OBVIOUS
  <2>1. ASSUME NEW c \in Chats, NEW piece \in Window!Pieces, Recording(c, piece)
        PROVE  Window!Record(c, piece)
    BY <2>1 DEF Recording, Window!Record, Shown, Window!LastOf, Trim
  <2>2. ASSUME Shown' = [c \in Chats |-> Trim(table[c])], UNCHANGED table
        PROVE  Window!FallBack
    BY <2>2 DEF Window!FallBack, Shown, Window!LastOf, Trim
  <2> QED
    BY <2>1, <2>2, WindowStep DEF Window!WindowNext
<1>4. ImplementsWindow <=> Window!WindowInit /\ [][Window!WindowNext]_<<Shown, table>>
  BY DEF ImplementsWindow, Window!WindowSpec, Shown
<1> QED
  BY <1>1, <1>2, <1>3, <1>4, HAlways, PTL DEF HistorySpec
===============================================================================
