--------------------------- MODULE GenerationProofs ---------------------------
(***************************************************************************)
(* Proofs about the token that the descriptions of photos share, and that  *)
(* a prompt tells what happened, for any calls, retries, pools, phrases    *)
(* and histories whose messages are named by their identifiers.            *)
(***************************************************************************)
EXTENDS Generation, FiniteSetTheorems, TLAPS

Sending == {"token", "authorize", "upload", "chat", "pause"}
Phases == Sending \cup {"undescribed", "decide", "prompt", "model", "list", "done", "panic"}

Types ==
  /\ Made \subseteq Calls
  /\ phase \in [Made -> Phases]
  /\ gate \in {0, 1} /\ fresh \in BOOLEAN
  /\ tries \in [Calls -> Nat]
  /\ tokens \in Nat /\ lapses \in Nat

(* The gate is held by the one call that asks for the token. *)
GateIsHeld ==
  IF gate = 0 THEN \A c \in Made : phase[c] # "authorize"
  ELSE \E c \in Made : \A d \in Made : phase[d] = "authorize" <=> d = c

(* Who holds the gate found no token, and none comes meanwhile. *)
TokensLapse ==
  /\ gate = 1 => ~fresh
  /\ tokens <= lapses + (IF fresh THEN 1 ELSE 0)

(* A call that may send its question again has not sent it too often yet.  *)
TriesAreLeft ==
  \A c \in Made :
    /\ tries[c] <= MaxRetries + 1
    /\ phase[c] \in Sending => tries[c] <= MaxRetries

Inv == Types /\ GateIsHeld /\ TokensLapse /\ TriesAreLeft

LEMMA InvInit == Init => Inv
<1> SUFFICES ASSUME Init PROVE Inv
  OBVIOUS
<1>1. Made \subseteq Calls
  BY ScenariosAssumption DEF Init, Made
<1>2. phase \in [Made -> Phases] /\ \A c \in Made : phase[c] # "authorize"
  BY DEF Init, Phases, Sending
<1>3. tries \in [Calls -> Nat] /\ \A c \in Made : tries[c] = 0
  BY <1>1 DEF Init, GigaChatInit
<1>4. Types
  BY <1>1, <1>2, <1>3 DEF Init, GigaChatInit, Types
<1> QED
  BY <1>2, <1>3, <1>4, GigaChatAssumption DEF Init, GigaChatInit, Inv, GateIsHeld, TokensLapse, TriesAreLeft

LEMMA Moves ==
  ASSUME Types, NEW c \in Made, NEW next \in Phases, GoesTo(c, next), UNCHANGED asks
  PROVE  /\ Made' = Made /\ phase' \in [Made -> Phases] /\ phase'[c] = next
         /\ \A d \in Made : d # c => phase'[d] = phase[d]
BY DEF Types, GoesTo, Made

(* A step of a call that neither takes nor gives back the gate. *)
LEMMA GateStays ==
  ASSUME Types, GateIsHeld, NEW c \in Made, NEW next \in Phases, GoesTo(c, next),
         UNCHANGED <<asks, gate>>, phase[c] # "authorize", next # "authorize"
  PROVE  GateIsHeld'
BY Moves DEF GateIsHeld

LEMMA TriesStay ==
  ASSUME Types, TriesAreLeft, NEW c \in Made, NEW next \in Phases, GoesTo(c, next),
         UNCHANGED <<asks, tries>>,
         next \in Sending =>
           phase[c] \in Sending
  PROVE  TriesAreLeft'
BY Moves DEF TriesAreLeft

(* A step of a call that leaves the client as it is. *)
LEMMA CallStep ==
  ASSUME Inv, NEW c \in Made, NEW next \in Phases, GoesTo(c, next), UNCHANGED <<asks, client>>,
         phase[c] # "authorize", next # "authorize",
         next \in Sending =>
           phase[c] \in Sending
  PROVE  Inv'
<1>1. UNCHANGED <<gate, fresh, tries, tokens, lapses>>
  BY DEF client
<1>2. Types'
  BY <1>1, Moves DEF Inv, Types, Phases, Sending
<1>3. GateIsHeld' /\ TriesAreLeft'
  BY <1>1, GateStays, TriesStay DEF Inv, Phases, Sending
<1> QED
  BY <1>1, <1>2, <1>3 DEF Inv, TokensLapse
-------------------------------------------------------------------------------
LEMMA AskTokenStep ==
  ASSUME Inv, NEW c \in Made, AskToken(c), UNCHANGED asks
  PROVE  Inv'
<1>1. GoesTo(c, "authorize") /\ gate = 0 /\ gate' = 1 /\ ~fresh /\ phase[c] = "token"
      /\ UNCHANGED <<fresh, tries, tokens, lapses>>
  BY DEF AskToken
<1>2. Types' /\ Made' = Made
  BY <1>1, Moves DEF Inv, Types, Phases, Sending
<1>3. GateIsHeld'
  BY <1>1, Moves DEF Inv, GateIsHeld, Phases, Sending
<1>4. TriesAreLeft'
  BY <1>1, TriesStay DEF Inv, Phases, Sending
<1> QED
  BY <1>1, <1>2, <1>3, <1>4 DEF Inv, TokensLapse

LEMMA GetTokenStep ==
  ASSUME Inv, NEW c \in Made, GetToken(c), UNCHANGED asks
  PROVE  Inv'
<1>1. PICK next \in {"upload", "undescribed"} :
        /\ GoesTo(c, next) /\ phase[c] = "authorize" /\ gate' = 0 /\ UNCHANGED tries
        /\ \/ tokens' = tokens + 1 /\ fresh' = TRUE /\ lapses' = lapses
           \/ tokens' = tokens + 1 /\ fresh' = FALSE /\ lapses' = lapses + 1
           \/ UNCHANGED <<tokens, fresh, lapses>>
  BY DEF GetToken
<1>2. gate = 1 /\ ~fresh
  BY <1>1 DEF Inv, Types, GateIsHeld, TokensLapse
<1>3. Types' /\ Made' = Made
  <2>1. tokens' \in Nat /\ lapses' \in Nat
    BY <1>1 DEF Inv, Types
  <2>2. fresh' \in BOOLEAN
    BY <1>1 DEF Inv, Types
  <2>3. Made' = Made /\ phase' \in [Made -> Phases]
    BY <1>1, Moves DEF Inv, Phases, Sending
  <2> QED
    BY <1>1, <2>1, <2>2, <2>3 DEF Inv, Types
<1>4. GateIsHeld'
  BY <1>1, <1>2, Moves DEF Inv, GateIsHeld, Phases, Sending
<1>5. TriesAreLeft'
  BY <1>1, TriesStay DEF Inv, Phases, Sending
<1>6. TokensLapse'
  BY <1>1, <1>2 DEF Inv, Types, TokensLapse
<1> QED
  BY <1>3, <1>4, <1>5, <1>6 DEF Inv

LEMMA ChatStep ==
  ASSUME Inv, NEW c \in Made, Chat(c), UNCHANGED asks
  PROVE  Inv'
<1>1. PICK next \in {"decide", "undescribed", "pause"} :
        /\ GoesTo(c, next) /\ phase[c] = "chat" /\ tries' = [tries EXCEPT ![c] = @ + 1]
        /\ next = "pause" => tries[c] < MaxRetries
        /\ UNCHANGED <<gate, fresh, tokens, lapses>>
  BY DEF Chat
<1>2. Types' /\ Made' = Made
  BY <1>1, Moves DEF Inv, Types, Phases, Sending
<1>3. GateIsHeld'
  BY <1>1, GateStays DEF Inv, Phases, Sending
<1>4. /\ tries[c] \in Nat /\ tries[c] <= MaxRetries /\ tries'[c] = tries[c] + 1
      /\ \A d \in Made : d # c => tries'[d] = tries[d]
  BY <1>1 DEF Inv, Types, TriesAreLeft, Sending
<1>5. TriesAreLeft'
  BY <1>1, <1>2, <1>4, Moves, GigaChatAssumption DEF Inv, TriesAreLeft, Phases, Sending
<1> QED
  BY <1>1, <1>2, <1>3, <1>5 DEF Inv, TokensLapse

LEMMA InvStep == Inv /\ [Next]_vars => Inv'
<1> SUFFICES ASSUME Inv, [Next]_vars PROVE Inv'
  OBVIOUS
<1>1. CASE ReloadMessages \/ UNCHANGED vars
  BY <1>1 DEF ReloadMessages, vars, client, generator, Inv, Types, Made, GateIsHeld, TokensLapse,
              TriesAreLeft
<1>2. CASE TokenLapses /\ UNCHANGED generator
  <2>1. UNCHANGED <<asks, phase, gate, tries, tokens>> /\ fresh /\ fresh' = FALSE /\ lapses' = lapses + 1
    BY <1>2 DEF TokenLapses, generator, Inv, Types
  <2> QED
    <3>1. Types' /\ Made' = Made
      <4>1. Made' = Made
        BY <2>1 DEF Made
      <4>2. fresh' \in BOOLEAN
        BY <2>1
      <4>3. lapses' \in Nat
        <5>1. lapses \in Nat
          BY DEF Inv, Types
        <5> QED
          BY <2>1, <5>1
      <4>4. phase' \in [Made' -> Phases] /\ Made' \subseteq Calls
        <5>1. phase \in [Made -> Phases] /\ Made \subseteq Calls
          BY DEF Inv, Types
        <5> QED
          BY <2>1, <4>1, <5>1
      <4>5. gate' \in {0, 1} /\ tries' \in [Calls -> Nat] /\ tokens' \in Nat
        <5>1. gate \in {0, 1} /\ tries \in [Calls -> Nat] /\ tokens \in Nat
          BY DEF Inv, Types
        <5> QED
          BY <2>1, <5>1
      <4> QED
        BY <4>1, <4>2, <4>4, <4>5, <4>3 DEF Types
    <3>2. GateIsHeld' /\ TriesAreLeft'
      BY <2>1, <3>1 DEF Inv, GateIsHeld, TriesAreLeft
    <3>3. TokensLapse'
      BY <2>1 DEF Inv, Types, TokensLapse
    <3> QED
      BY <3>1, <3>2, <3>3 DEF Inv
<1>3. ASSUME NEW c \in Made, GenerateContent(c), UNCHANGED generator
      PROVE  Inv'
  <2>1. UNCHANGED asks
    BY <1>3 DEF generator
  <2>2. CASE TokenIsCached(c) \/ UploadImage(c) \/ WaitForRetry(c) \/ CallerGivesUp(c)
    BY <2>1, <2>2, CallStep DEF TokenIsCached, UploadImage, WaitForRetry, CallerGivesUp,
        Phases, Sending
  <2>3. CASE AskToken(c) \/ GetToken(c) \/ Chat(c)
    BY <2>1, <2>3, AskTokenStep, GetTokenStep, ChatStep
  <2> QED
    BY <1>3, <2>2, <2>3 DEF GenerateContent
<1>4. ASSUME NEW c \in Made, Decide(c) \/ SendPrompt(c) \/ ModelAnswers(c) \/ TakePhrase(c)
      PROVE  Inv'
  BY <1>4, CallStep DEF Decide, SendPrompt, ModelAnswers, TakePhrase, generator, Phases, Sending
<1> QED
  BY <1>1, <1>2, <1>3, <1>4 DEF Next

(* The token is asked for by one call at a time, no more often than tokens *)
(* ran out and once, and the gate is open when nobody asks; no question is *)
(* sent beyond its retries (gigachat.go: tokenGate, maxRetries).           *)
THEOREM TokenIsSharedAlways == Spec => []TokenIsShared
<1>1. Inv => TokenIsShared
  <2> SUFFICES ASSUME Inv PROVE TokenIsShared
    OBVIOUS
  <2> DEFINE asking == {c \in Made : phase[c] = "authorize"}
  <2>1. gate = Cardinality(asking)
    <3>1. CASE gate = 0
      BY <3>1, FS_EmptySet DEF Inv, GateIsHeld
    <3>2. CASE gate # 0
      <4>1. PICK c \in Made : \A d \in Made : phase[d] = "authorize" <=> d = c
        BY <3>2 DEF Inv, GateIsHeld
      <4>2. asking = {c}
        BY <4>1
      <4> QED
        BY <3>2, <4>2, FS_Singleton DEF Inv, Types, Phases, Sending
    <3> QED
      BY <3>1, <3>2
  <2>2. tokens + gate <= lapses + 1
    BY DEF Inv, Types, TokensLapse
  <2> QED
    BY <2>1, <2>2 DEF TokenIsShared, Inv, TriesAreLeft
<1> QED
  BY <1>1, InvInit, InvStep, PTL DEF Spec
-------------------------------------------------------------------------------
(***************************************************************************)
(* Sorting and filtering, for PromptTellsTheHistory                        *)
(***************************************************************************)

StrictOrder(I, R) ==
  /\ \A i \in I : <<i, i>> \notin R
  /\ \A i, j \in I : i # j => <<i, j>> \in R \/ <<j, i>> \in R
  /\ \A i, j, k \in I : <<i, j>> \in R /\ <<j, k>> \in R => <<i, k>> \in R

(* A one-to-one list of all of I. *)
ListsAll(s, I) ==
  /\ s \in [1..Cardinality(I) -> I]
  /\ \A m, n \in 1..Cardinality(I) : s[m] = s[n] => m = n
  /\ \A i \in I : \E n \in 1..Cardinality(I) : s[n] = i

(* There is a sorted list: the ranks of the elements are as many as the    *)
(* places.                                                                 *)
LEMMA SortedExists ==
  ASSUME NEW I, IsFiniteSet(I), NEW R, StrictOrder(I, R)
  PROVE  \E s \in [1..Cardinality(I) -> I] : \A m, n \in DOMAIN s : m < n => <<s[m], s[n]>> \in R
<1>b. PICK below : below = [i \in I |-> {j \in I : <<j, i>> \in R}]
  OBVIOUS
<1>r. PICK rank : rank = [i \in I |-> Cardinality(below[i]) + 1]
  OBVIOUS
<1>n. PICK size : size = Cardinality(I)
  OBVIOUS
<1>1. size \in Nat
  BY <1>n, FS_CardinalityType
<1>2. ASSUME NEW i \in I
      PROVE  /\ IsFiniteSet(below[i]) /\ Cardinality(below[i]) \in Nat
             /\ rank[i] = Cardinality(below[i]) + 1 /\ rank[i] \in 1..size
  <2>1. below[i] \subseteq I /\ i \notin below[i]
    BY <1>b DEF StrictOrder
  <2>2. /\ IsFiniteSet(below[i]) /\ Cardinality(below[i]) \in Nat
        /\ Cardinality(below[i]) <= size /\ Cardinality(below[i]) # size
    BY <1>n, <2>1, FS_Subset, FS_CardinalityType
  <2>3. rank[i] = Cardinality(below[i]) + 1
    BY <1>r
  <2> QED
    BY <1>1, <2>2, <2>3
<1>3. ASSUME NEW i \in I, NEW j \in I, <<i, j>> \in R
      PROVE  rank[i] < rank[j]
  <2>1. below[i] \subseteq below[j] /\ i \in below[j] /\ i \notin below[i]
    BY <1>3, <1>b DEF StrictOrder
  <2>2. /\ Cardinality(below[i]) <= Cardinality(below[j])
        /\ Cardinality(below[i]) # Cardinality(below[j])
    BY <1>2, <2>1, FS_Subset
  <2> QED
    BY <1>2, <2>2
<1>4. ASSUME NEW i \in I, NEW j \in I, rank[i] = rank[j]
      PROVE  i = j
  <2>1. rank[i] \in Nat /\ rank[j] \in Nat
    BY <1>2
  <2>2. <<i, j>> \notin R /\ <<j, i>> \notin R
    BY <1>3, <1>4, <2>1
  <2> QED
    BY <2>2 DEF StrictOrder
<1>5. rank \in Injection(I, 1..size)
  BY <1>2, <1>4, <1>r DEF Injection, IsInjective
<1>6. rank \in Surjection(I, 1..size)
  <2>1. IsFiniteSet(1..size) /\ Cardinality(1..size) = size
    BY <1>1, FS_Interval
  <2> QED
    BY <1>n, <1>5, <2>1, FS_Injection
<1>s. PICK s : s = [n \in 1..size |-> CHOOSE i \in I : rank[i] = n]
  OBVIOUS
<1>7. ASSUME NEW n \in 1..size
      PROVE  s[n] \in I /\ rank[s[n]] = n
  <2>1. \E i \in I : rank[i] = n
    BY <1>6 DEF Surjection
  <2> QED
    BY <1>s, <2>1
<1>8. ASSUME NEW m \in 1..size, NEW n \in 1..size, m < n
      PROVE  <<s[m], s[n]>> \in R
  <2>1. s[m] \in I /\ s[n] \in I /\ rank[s[m]] = m /\ rank[s[n]] = n
    BY <1>7
  <2>2. s[m] # s[n] /\ <<s[n], s[m]>> \notin R
    BY <1>1, <1>3, <1>8, <2>1
  <2> QED
    BY <2>1, <2>2 DEF StrictOrder
<1>9. s \in [1..size -> I] /\ DOMAIN s = 1..size
  BY <1>7, <1>s
<1> QED
  BY <1>n, <1>8, <1>9

LEMMA SortedLists ==
  ASSUME NEW I, IsFiniteSet(I), NEW R, StrictOrder(I, R)
  PROVE  /\ ListsAll(Sorted(I, R), I)
         /\ \A m, n \in 1..Cardinality(I) : m < n => <<Sorted(I, R)[m], Sorted(I, R)[n]>> \in R
<1>s. PICK s : s = Sorted(I, R)
  OBVIOUS
<1>n. PICK size : size = Cardinality(I)
  OBVIOUS
<1>1. size \in Nat /\ IsFiniteSet(1..size) /\ Cardinality(1..size) = size
  BY <1>n, FS_CardinalityType, FS_Interval
<1>2. s \in [1..size -> I] /\ \A m, n \in DOMAIN s : m < n => <<s[m], s[n]>> \in R
  BY <1>n, <1>s, SortedExists DEF Sorted
<1>3. \A m, n \in 1..size : m < n => <<s[m], s[n]>> \in R
  BY <1>2
<1>4. ASSUME NEW m \in 1..size, NEW n \in 1..size, s[m] = s[n]
      PROVE  m = n
  <2>1. s[m] \in I /\ <<s[m], s[m]>> \notin R
    BY <1>2 DEF StrictOrder
  <2>2. ~(m < n) /\ ~(n < m)
    BY <1>3, <1>4, <2>1
  <2> QED
    BY <1>1, <2>2
<1>5. s \in Injection(1..size, I)
  BY <1>2, <1>4 DEF Injection, IsInjective
<1>6. s \in Surjection(1..size, I)
  BY <1>1, <1>5, <1>n, FS_Injection
<1>7. \A i \in I : \E n \in 1..size : s[n] = i
  BY <1>6 DEF Surjection
<1> QED
  BY <1>n, <1>s, <1>2, <1>3, <1>4, <1>7 DEF ListsAll

(* The elements of a set of indices in their order. *)
Increasing(I) == Sorted(I, {p \in I \X I : p[1] < p[2]})

LEMMA IncreasingLists ==
  ASSUME NEW N \in Nat, NEW I \in SUBSET (1..N)
  PROVE  /\ IsFiniteSet(I) /\ Cardinality(I) \in Nat
         /\ ListsAll(Increasing(I), I)
         /\ \A m, n \in 1..Cardinality(I) : m < n <=> Increasing(I)[m] < Increasing(I)[n]
<1>r. PICK R : R = {p \in I \X I : p[1] < p[2]}
  OBVIOUS
<1>1. IsFiniteSet(I) /\ Cardinality(I) \in Nat /\ \A i \in I : i \in Nat
  <2>1. IsFiniteSet(1..N)
    BY FS_Interval
  <2>2. IsFiniteSet(I)
    BY <2>1, FS_Subset
  <2> QED
    BY <2>2, FS_CardinalityType
<1>2. \A i, j \in I : <<i, j>> \in R <=> i < j
  BY <1>r
<1>3. StrictOrder(I, R)
  BY <1>1, <1>2 DEF StrictOrder
<1>s. PICK s : s = Increasing(I)
  OBVIOUS
<1>4. /\ ListsAll(s, I)
      /\ \A m, n \in 1..Cardinality(I) : m < n => <<s[m], s[n]>> \in R
  BY <1>1, <1>3, <1>r, <1>s, SortedLists DEF Increasing
<1>5. \A m \in 1..Cardinality(I) : s[m] \in I /\ s[m] \in Nat
  BY <1>1, <1>4 DEF ListsAll
<1>6. ASSUME NEW m \in 1..Cardinality(I), NEW n \in 1..Cardinality(I)
      PROVE  m < n <=> s[m] < s[n]
  <2>1. s[m] \in Nat /\ s[n] \in Nat
    BY <1>5
  <2>2. (m < n => s[m] < s[n]) /\ (n < m => s[n] < s[m])
    BY <1>2, <1>4, <1>5
  <2>3. m \in Nat /\ n \in Nat
    BY <1>1
  <2> QED
    BY <2>1, <2>2, <2>3
<1> QED
  BY <1>1, <1>4, <1>6, <1>s

(* The first and the last of some indices. *)
LEMMA Ends ==
  ASSUME NEW N \in Nat, NEW I \in SUBSET (1..N), I # {}
  PROVE  /\ Min(I) \in I /\ \A i \in I : Min(I) <= i
         /\ Max(I) \in I /\ \A i \in I : Max(I) >= i
<1>n. PICK size : size = Cardinality(I)
  OBVIOUS
<1>s. PICK s : s = Increasing(I)
  OBVIOUS
<1>1. /\ IsFiniteSet(I) /\ size \in Nat /\ size # 0
      /\ ListsAll(s, I) /\ \A m, n \in 1..size : m < n <=> s[m] < s[n]
  BY <1>n, <1>s, IncreasingLists, FS_EmptySet
<1>2. ASSUME NEW i \in I
      PROVE  s[1] \in I /\ s[size] \in I /\ s[1] <= i /\ i <= s[size]
  <2>1. PICK n \in 1..size : s[n] = i
    BY <1>1, <1>n DEF ListsAll
  <2>2. s[1] \in I /\ s[size] \in I /\ s[n] \in I /\ 1 \in 1..size /\ size \in 1..size
    BY <1>1, <1>n DEF ListsAll
  <2>3. s[1] \in Nat /\ s[size] \in Nat /\ s[n] \in Nat
    <3>1. \A j \in I : j \in Nat
      OBVIOUS
    <3> QED
      BY <2>2, <3>1
  <2> QED
    BY <1>1, <2>1, <2>2, <2>3
<1>3. \E i \in I : \A j \in I : i <= j
  BY <1>2
<1>4. \E i \in I : \A j \in I : i >= j
  BY <1>2
<1> QED
  BY <1>3, <1>4 DEF Min, Max
-------------------------------------------------------------------------------
(* The order of entries is total but for those of one identifier. *)
LEMMA EntryFields ==
  ASSUME NEW e \in HistoryEntries
  PROVE  /\ e.time \in Int /\ e.id \in Int /\ e.update \in Int /\ e.sender \in Int
         /\ e.replyTo \in Int /\ e.target \in Int
         /\ e.kind \in {"user", "bot", "reaction"}
BY DEF HistoryEntries

LEMMA EarlierOrders ==
  /\ \A a \in HistoryEntries : ~Earlier(a, a)
  /\ \A a, b \in HistoryEntries : ~(Earlier(a, b) /\ Earlier(b, a))
  /\ \A a, b, c \in HistoryEntries : Earlier(a, b) /\ Earlier(b, c) => Earlier(a, c)
  /\ \A a, b, c \in HistoryEntries : ~Earlier(a, b) /\ ~Earlier(b, c) => ~Earlier(a, c)
  /\ \A a, b \in HistoryEntries :
       a.kind # "reaction" /\ b.kind # "reaction" /\ a.id # b.id => Earlier(a, b) \/ Earlier(b, a)
<1>1. \A e \in HistoryEntries : e.time \in Int /\ e.id \in Int /\ e.update \in Int
  BY EntryFields
<1>2. \A a \in HistoryEntries : ~Earlier(a, a)
  BY <1>1 DEF Earlier
<1>3. \A a, b \in HistoryEntries : ~(Earlier(a, b) /\ Earlier(b, a))
  BY <1>1 DEF Earlier
<1>4. ASSUME NEW a \in HistoryEntries, NEW b \in HistoryEntries, NEW c \in HistoryEntries
      PROVE  /\ Earlier(a, b) /\ Earlier(b, c) => Earlier(a, c)
             /\ ~Earlier(a, b) /\ ~Earlier(b, c) => ~Earlier(a, c)
  BY <1>1 DEF Earlier
<1>5. \A a, b \in HistoryEntries :
       a.kind # "reaction" /\ b.kind # "reaction" /\ a.id # b.id => Earlier(a, b) \/ Earlier(b, a)
  BY <1>1 DEF Earlier
<1> QED
  BY <1>2, <1>3, <1>4, <1>5

(* A list of the entries of h at the indices I, each once: p says which.   *)
Picks(list, h, I, p) ==
  /\ p \in [1..Len(list) -> I]
  /\ \A m, n \in 1..Len(list) : p[m] = p[n] => m = n
  /\ \A i \in I : \E n \in 1..Len(list) : p[n] = i
  /\ \A n \in 1..Len(list) : list[n] = h[p[n]]

Ordered(h) == \A m, n \in 1..Len(h) : m < n => ~Earlier(h[n], h[m])

(* orderedHistory is a rearrangement of the history, and in order. *)
LEMMA OrderedFacts ==
  ASSUME NEW h \in Seq(HistoryEntries)
  PROVE  LET o == OrderedHistory(h) IN
         /\ o \in Seq(HistoryEntries) /\ Len(o) = Len(h)
         /\ Ordered(o)
         /\ \E p : Picks(o, h, 1..Len(h), p)
<1>i. PICK I : I = 1..Len(h)
  OBVIOUS
<1>r. PICK R : R = Precedes(h)
  OBVIOUS
<1>1. I = DOMAIN h /\ Len(h) \in Nat /\ \A i \in I : i \in Nat /\ h[i] \in HistoryEntries
  BY <1>i
<1>2. IsFiniteSet(I) /\ Cardinality(I) = Len(h)
  <2>1. \A k \in Nat : IsFiniteSet(1..k) /\ Cardinality(1..k) = k
    BY FS_Interval
  <2> QED
    BY <1>1, <1>i, <2>1
<1>3. ASSUME NEW i \in I, NEW j \in I
      PROVE  <<i, j>> \in R <=> Earlier(h[i], h[j]) \/ (i < j /\ ~Earlier(h[j], h[i]))
  BY <1>1, <1>r DEF Precedes
<1>4. StrictOrder(I, R)
  <2>1. ASSUME NEW i \in I
        PROVE  <<i, i>> \notin R
    BY <1>1, <1>3, EarlierOrders
  <2>2. ASSUME NEW i \in I, NEW j \in I, i # j
        PROVE  <<i, j>> \in R \/ <<j, i>> \in R
    BY <1>1, <1>3, <2>2, EarlierOrders
  <2>3. ASSUME NEW i \in I, NEW j \in I, NEW k \in I, <<i, j>> \in R, <<j, k>> \in R
        PROVE  <<i, k>> \in R
    <3>1. i \in Nat /\ j \in Nat /\ k \in Nat /\ h[i] \in HistoryEntries /\ h[j] \in HistoryEntries
          /\ h[k] \in HistoryEntries
      BY <1>1
    <3>2. ~Earlier(h[j], h[i]) /\ ~Earlier(h[k], h[j])
      BY <1>3, <2>3, <3>1, EarlierOrders
    <3>3. ~Earlier(h[k], h[i])
      BY <3>1, <3>2, EarlierOrders
    <3>4. CASE Earlier(h[i], h[k])
      BY <1>3, <3>4
    <3>5. CASE ~Earlier(h[i], h[k])
      <4>1. ~Earlier(h[i], h[j])
        <5>1. SUFFICES ASSUME Earlier(h[i], h[j]) PROVE FALSE
          OBVIOUS
        <5>2. Earlier(h[k], h[j])
          BY <3>1, <3>5, <5>1, EarlierOrders
        <5> QED
          BY <3>2, <5>2
      <4>2. ~Earlier(h[j], h[k])
        <5>1. SUFFICES ASSUME Earlier(h[j], h[k]) PROVE FALSE
          OBVIOUS
        <5>2. Earlier(h[j], h[i])
          BY <3>1, <3>5, <5>1, EarlierOrders
        <5> QED
          BY <3>2, <5>2
      <4>3. i < j /\ j < k
        BY <1>3, <2>3, <4>1, <4>2
      <4> QED
        BY <1>3, <3>1, <3>3, <4>3
    <3> QED
      BY <3>4, <3>5
  <2> QED
    BY <2>1, <2>2, <2>3 DEF StrictOrder
<1>p. PICK p : p = Sorted(I, R)
  OBVIOUS
<1>5. /\ p \in [I -> I]
      /\ \A m, n \in I : p[m] = p[n] => m = n
      /\ \A i \in I : \E n \in I : p[n] = i
      /\ \A m, n \in I : m < n => <<p[m], p[n]>> \in R
  <2>1. /\ ListsAll(p, I)
        /\ \A m, n \in 1..Cardinality(I) : m < n => <<p[m], p[n]>> \in R
    BY <1>2, <1>4, <1>p, SortedLists
  <2>2. 1..Cardinality(I) = I
    BY <1>2, <1>i
  <2> QED
    BY <2>1, <2>2 DEF ListsAll
<1>o. PICK o : o = OrderedHistory(h)
  OBVIOUS
<1>6. o = [n \in I |-> h[p[n]]]
  <2>1. o = At(h, p)
    BY <1>o, <1>p, <1>1, <1>r DEF OrderedHistory
  <2>2. DOMAIN p = I
    BY <1>5
  <2> QED
    BY <2>1, <2>2 DEF At
<1>7. o \in [1..Len(h) -> HistoryEntries]
  BY <1>1, <1>5, <1>6, <1>i
<1>8. o \in Seq(HistoryEntries) /\ Len(o) = Len(h)
  BY <1>1, <1>7
<1>9. ASSUME NEW m \in I, NEW n \in I, m < n
      PROVE  ~Earlier(o[n], o[m])
  <2>1. p[m] \in I /\ p[n] \in I /\ <<p[m], p[n]>> \in R /\ o[m] = h[p[m]] /\ o[n] = h[p[n]]
    BY <1>5, <1>6, <1>9
  <2> QED
    BY <1>1, <1>3, <2>1, EarlierOrders
<1>10. Ordered(o)
  BY <1>8, <1>9, <1>i DEF Ordered
<1>11. Picks(o, h, 1..Len(h), p)
  <2>1. \A n \in I : o[n] = h[p[n]]
    BY <1>6
  <2> QED
    BY <1>5, <1>8, <1>i, <2>1 DEF Picks
<1> QED
  BY <1>8, <1>10, <1>11, <1>o, Zenon

(* A filter keeps what it is to keep, in its order. *)
LEMMA OnlyFacts ==
  ASSUME NEW h \in Seq(HistoryEntries), NEW I \in SUBSET (1..Len(h))
  PROVE  LET o == Only(h, I)
             p == Increasing(I)
         IN /\ o \in Seq(HistoryEntries) /\ Len(o) = Cardinality(I)
            /\ Picks(o, h, I, p)
            /\ \A m, n \in 1..Len(o) : m < n <=> p[m] < p[n]
<1>p. PICK p : p = Increasing(I)
  OBVIOUS
<1>o. PICK o : o = Only(h, I)
  OBVIOUS
<1>n. PICK size : size = Cardinality(I)
  OBVIOUS
<1>1. /\ size \in Nat /\ ListsAll(p, I)
      /\ \A m, n \in 1..size : m < n <=> p[m] < p[n]
  <2>1. Len(h) \in Nat
    OBVIOUS
  <2> QED
    BY <2>1, <1>p, <1>n, IncreasingLists
<1>2. /\ p \in [1..size -> I]
      /\ \A m, n \in 1..size : p[m] = p[n] => m = n
      /\ \A i \in I : \E n \in 1..size : p[n] = i
  BY <1>1, <1>n DEF ListsAll
<1>3. o = [n \in 1..size |-> h[p[n]]]
  <2>1. o = At(h, p)
    BY <1>o, <1>p DEF Only, Increasing
  <2>2. DOMAIN p = 1..size
    BY <1>2
  <2> QED
    BY <2>1, <2>2 DEF At
<1>4. o \in [1..size -> HistoryEntries]
  <2>1. \A i \in I : h[i] \in HistoryEntries
    OBVIOUS
  <2> QED
    BY <1>2, <1>3, <2>1
<1>5. o \in Seq(HistoryEntries) /\ Len(o) = size
  BY <1>1, <1>4
<1>6. \A n \in 1..size : o[n] = h[p[n]]
  BY <1>3
<1>7. Picks(o, h, I, p)
  BY <1>2, <1>5, <1>6 DEF Picks
<1> QED
  BY <1>1, <1>5, <1>7, <1>n, <1>o, <1>p
-------------------------------------------------------------------------------
(* What the lookups find. *)
LEMMA LastUserFacts ==
  ASSUME NEW h \in Seq(HistoryEntries)
  PROVE  LET t == LastUserMessageIndex(h) IN
         \/ t = 0 /\ \A i \in 1..Len(h) : ~IsUser(h[i])
         \/ t \in 1..Len(h) /\ IsUser(h[t]) /\ \A i \in 1..Len(h) : IsUser(h[i]) => i <= t
<1>i. PICK I : I = {i \in 1..Len(h) : IsUser(h[i])}
  OBVIOUS
<1>1. LastUserMessageIndex(h) = IF I # {} THEN Max(I) ELSE 0
  BY <1>i DEF LastUserMessageIndex, SelectLastInSeq
<1>2. Len(h) \in Nat /\ I \in SUBSET (1..Len(h))
  BY <1>i
<1>3. CASE I = {}
  BY <1>1, <1>3, <1>i
<1>4. CASE I # {}
  <2>1. Max(I) \in I /\ \A i \in I : Max(I) >= i
    BY <1>2, <1>4, Ends
  <2>2. \A i \in I : i \in Nat
    BY <1>2
  <2> QED
    BY <1>1, <1>2, <1>4, <1>i, <2>1, <2>2
<1> QED
  BY <1>3, <1>4

LEMMA ResolveFacts ==
  ASSUME NEW h \in Seq(HistoryEntries), NEW r
  PROVE  LET t == ResolveTarget(r, h) IN
         \/ t = r.known /\ \A i \in 1..Len(h) : ~(~IsReaction(h[i]) /\ h[i].id = r.target)
         \/ \E i \in 1..Len(h) : ~IsReaction(h[i]) /\ h[i].id = r.target /\ t = {WhoWrote(h[i])}
<1>i. PICK I : I = {i \in 1..Len(h) : ~IsReaction(h[i]) /\ h[i].id = r.target}
  OBVIOUS
<1>f. PICK first : first = IF I # {} THEN Min(I) ELSE 0
  OBVIOUS
<1>1. ResolveTarget(r, h) = IF first = 0 THEN r.known ELSE {WhoWrote(h[first])}
  BY <1>i, <1>f DEF ResolveTarget, SelectInSeq
<1>2. Len(h) \in Nat /\ I \in SUBSET (1..Len(h))
  BY <1>i
<1>3. CASE I = {}
  BY <1>1, <1>3, <1>f, <1>i
<1>4. CASE I # {}
  <2>1. first \in I
    BY <1>2, <1>4, <1>f, Ends
  <2>2. first # 0 /\ first \in 1..Len(h)
    BY <1>2, <2>1
  <2> QED
    BY <1>1, <1>i, <2>1, <2>2
<1> QED
  BY <1>3, <1>4

LEMMA RepliesFacts ==
  ASSUME NEW h \in Seq(HistoryEntries), NEW e
  PROVE  \/ RepliesTo(e, h) = {} /\ (e.replyTo = 0 \/ \A i \in 1..Len(h) : h[i].id # e.replyTo)
         \/ e.replyTo # 0 /\ \E i \in 1..Len(h) : h[i].id = e.replyTo /\ RepliesTo(e, h) = {h[i].author}
<1>i. PICK I : I = {i \in 1..Len(h) : h[i].id = e.replyTo}
  OBVIOUS
<1>f. PICK first : first = IF I # {} THEN Min(I) ELSE 0
  OBVIOUS
<1>1. RepliesTo(e, h) = IF e.replyTo = 0 \/ first = 0 THEN {} ELSE {h[first].author}
  BY <1>i, <1>f DEF RepliesTo, SelectInSeq
<1>2. Len(h) \in Nat /\ I \in SUBSET (1..Len(h))
  BY <1>i
<1>3. CASE I = {}
  BY <1>1, <1>3, <1>f, <1>i
<1>4. CASE I # {}
  <2>1. first \in I
    BY <1>2, <1>4, <1>f, Ends
  <2>2. first # 0 /\ first \in 1..Len(h)
    BY <1>2, <2>1
  <2> QED
    BY <1>1, <1>i, <2>1, <2>2
<1> QED
  BY <1>3, <1>4

LEMMA TurnFacts ==
  ASSUME NEW h \in Seq(HistoryEntries), NEW id
  PROVE  LET turn == AssistantTurn(h, id) IN
         \/ turn = 0 /\ \A k \in 1..Len(h) : ~(IsBot(h[k]) /\ h[k].id = id)
         \/ \E k \in 1..Len(h) : /\ IsBot(h[k]) /\ h[k].id = id
                                 /\ turn = Cardinality({j \in 1..k : IsBot(h[j])}) /\ turn > 0
<1>i. PICK I : I = {i \in 1..Len(h) : IsBot(h[i]) /\ h[i].id = id}
  OBVIOUS
<1>l. PICK last : last = IF I # {} THEN Max(I) ELSE 0
  OBVIOUS
<1>b. PICK bots : bots = {j \in 1..last : IsBot(h[j])}
  OBVIOUS
<1>1. AssistantTurn(h, id) = Cardinality(bots)
  BY <1>i, <1>l, <1>b DEF AssistantTurn, SelectLastInSeq
<1>2. Len(h) \in Nat /\ I \in SUBSET (1..Len(h))
  BY <1>i
<1>3. CASE I = {}
  <2>1. last = 0
    BY <1>3, <1>l
  <2>2. bots = {}
    BY <1>b, <2>1
  <2> QED
    BY <1>1, <1>3, <1>i, <2>2, FS_EmptySet
<1>4. CASE I # {}
  <2>1. last \in I
    BY <1>2, <1>4, <1>l, Ends
  <2>2. last \in 1..Len(h) /\ last \in Nat /\ IsBot(h[last]) /\ h[last].id = id
    BY <1>2, <1>i, <2>1
  <2>3. IsFiniteSet(1..last) /\ bots \subseteq 1..last /\ last \in bots
    BY <1>b, <2>2, FS_Interval
  <2>4. IsFiniteSet(bots) /\ Cardinality(bots) \in Nat /\ Cardinality(bots) # 0
    BY <2>3, FS_Subset, FS_CardinalityType, FS_EmptySet
  <2>5. bots = {j \in 1..last : IsBot(h[j])} /\ Cardinality(bots) > 0
    BY <1>b, <2>4
  <2> QED
    BY <1>1, <2>2, <2>5, Zenon
<1> QED
  BY <1>3, <1>4
-------------------------------------------------------------------------------
(* An entry as it was recorded, but for what is known of a target. *)
Alike(e, f) ==
  /\ e.kind = f.kind /\ e.id = f.id /\ e.update = f.update /\ e.time = f.time
  /\ e.sender = f.sender /\ e.author = f.author
  /\ e.replyTo = f.replyTo /\ e.target = f.target /\ e.meaningful = f.meaningful

(* The entries of a list are those of the sources at the indices G, each   *)
(* once, and p says which.                                                 *)
Shows(list, sources, G, p) ==
  /\ p \in [1..Len(list) -> G]
  /\ \A m, n \in 1..Len(list) : p[m] = p[n] => m = n
  /\ \A i \in G : \E n \in 1..Len(list) : p[n] = i
  /\ \A n \in 1..Len(list) : Alike(list[n], sources[p[n]])

ImageOf(p, K) == {p[k] : k \in K}

LEMMA ShowsAll ==
  ASSUME NEW h \in Seq(HistoryEntries)
  PROVE  Shows(h, h, DOMAIN h, [n \in 1..Len(h) |-> n])
BY DEF Shows, Alike

LEMMA ShowsPart ==
  ASSUME NEW list, NEW sources, NEW G, NEW p, Shows(list, sources, G, p),
         NEW part, NEW K, K \subseteq 1..Len(list), NEW q, Picks(part, list, K, q)
  PROVE  \E r : Shows(part, sources, ImageOf(p, K), r)
<1>g. PICK H : H = ImageOf(p, K)
  OBVIOUS
<1>r. PICK r : r = [n \in 1..Len(part) |-> p[q[n]]]
  OBVIOUS
<1>h. \A i : i \in H <=> \E k \in K : i = p[k]
  BY <1>g DEF ImageOf
<1>q. /\ q \in [1..Len(part) -> K]
      /\ \A m, n \in 1..Len(part) : q[m] = q[n] => m = n
      /\ \A k \in K : \E n \in 1..Len(part) : q[n] = k
      /\ \A n \in 1..Len(part) : part[n] = list[q[n]]
  BY DEF Picks
<1>1. ASSUME NEW n \in 1..Len(part)
      PROVE  q[n] \in K /\ q[n] \in 1..Len(list) /\ r[n] = p[q[n]] /\ r[n] \in H
             /\ Alike(part[n], sources[r[n]])
  BY <1>h, <1>q, <1>r DEF Shows
<1>2. r \in [1..Len(part) -> H]
  BY <1>1, <1>r
<1>3. \A m, n \in 1..Len(part) : r[m] = r[n] => m = n
  BY <1>1, <1>q DEF Shows
<1>4. ASSUME NEW i \in H
      PROVE  \E n \in 1..Len(part) : r[n] = i
  <2>1. PICK k \in K : p[k] = i
    BY <1>h
  <2>2. PICK n \in 1..Len(part) : q[n] = k
    BY <1>q
  <2> QED
    BY <1>1, <2>1, <2>2
<1>5. Shows(part, sources, H, r)
  BY <1>1, <1>2, <1>3, <1>4 DEF Shows
<1> QED
  BY <1>5, <1>g

LEMMA OrderedShows ==
  ASSUME NEW list \in Seq(HistoryEntries), NEW sources, NEW G, NEW p, Shows(list, sources, G, p)
  PROVE  \E q : Shows(OrderedHistory(list), sources, G, q)
<1>o. PICK o : o = OrderedHistory(list)
  OBVIOUS
<1>1. PICK q : Picks(o, list, 1..Len(list), q)
  BY <1>o, OrderedFacts
<1>2. \E r : Shows(o, sources, ImageOf(p, 1..Len(list)), r)
  <2>1. 1..Len(list) \subseteq 1..Len(list)
    OBVIOUS
  <2> QED
    BY <1>1, <2>1, ShowsPart
<1>3. ImageOf(p, 1..Len(list)) = G
  BY DEF Shows, ImageOf
<1> QED
  BY <1>2, <1>3, <1>o

LEMMA OnlyShows ==
  ASSUME NEW list \in Seq(HistoryEntries), NEW sources, NEW G, NEW p, Shows(list, sources, G, p),
         NEW K \in SUBSET (1..Len(list))
  PROVE  \E q : Shows(Only(list, K), sources, ImageOf(p, K), q)
<1>1. K \subseteq 1..Len(list) /\ Picks(Only(list, K), list, K, Increasing(K))
  BY OnlyFacts
<1> QED
  BY <1>1, ShowsPart

LEMMA OnlyIsOrdered ==
  ASSUME NEW list \in Seq(HistoryEntries), Ordered(list), NEW K \in SUBSET (1..Len(list))
  PROVE  Ordered(Only(list, K))
<1>o. PICK o : o = Only(list, K)
  OBVIOUS
<1>q. PICK q : q = Increasing(K)
  OBVIOUS
<1>1. /\ Picks(o, list, K, q)
      /\ \A m, n \in 1..Len(o) : m < n <=> q[m] < q[n]
  BY <1>o, <1>q, OnlyFacts
<1>2. \A n \in 1..Len(o) : q[n] \in 1..Len(list) /\ o[n] = list[q[n]]
  BY <1>1 DEF Picks
<1> QED
  BY <1>1, <1>2, <1>o DEF Ordered
-------------------------------------------------------------------------------
(***************************************************************************)
(* What an answer is made of                                               *)
(***************************************************************************)

NotBots(h) == {i \in 1..Len(h) : ~IsBot(h[i])}

LEMMA WhoWroteTypes ==
  ASSUME NEW e \in HistoryEntries
  PROVE  WhoWrote(e) \in Authors
BY DEF WhoWrote, IsBot, HistoryEntries, Authors

LEMMA ResolveTypes ==
  ASSUME NEW h \in Seq(HistoryEntries), NEW r \in HistoryEntries
  PROVE  ResolveTarget(r, h) \in SUBSET Authors
<1>1. r.known \in SUBSET Authors
  BY DEF HistoryEntries
<1>2. \A i \in 1..Len(h) : WhoWrote(h[i]) \in Authors
  BY WhoWroteTypes
<1> QED
  BY <1>1, <1>2, ResolveFacts

(* dropBotEntries drops them, and keeps what it knows of them. *)
LEMMA DropBotFacts ==
  ASSUME NEW h \in Seq(HistoryEntries)
  PROVE  LET d == DropBotEntries(h) IN
         /\ d \in Seq(HistoryEntries)
         /\ \E p : Shows(d, h, NotBots(h), p)
         /\ \A n \in 1..Len(d) : IsReaction(d[n]) =>
              \E r \in HistoryEntries :
                /\ IsReaction(r) /\ r.target = d[n].target /\ \E i \in 1..Len(h) : r = h[i]
                /\ d[n].known = IF r.known = {} THEN ResolveTarget(r, h) ELSE r.known
<1>k. PICK k : k = Only(h, NotBots(h))
  OBVIOUS
<1>p. PICK p : p = Increasing(NotBots(h))
  OBVIOUS
<1>d. PICK d : d = DropBotEntries(h)
  OBVIOUS
<1>1. NotBots(h) \in SUBSET (1..Len(h))
  BY DEF NotBots
<1>2. k \in Seq(HistoryEntries) /\ Picks(k, h, NotBots(h), p)
  BY <1>1, <1>k, <1>p, OnlyFacts
<1>3. d = [n \in DOMAIN k |->
             IF IsReaction(k[n]) /\ k[n].known = {}
             THEN [k[n] EXCEPT !.known = ResolveTarget(k[n], h)] ELSE k[n]]
  <2>1. NotBots(h) = {i \in DOMAIN h : ~IsBot(h[i])}
    BY DEF NotBots
  <2> QED
    BY <1>d, <1>k, <2>1 DEF DropBotEntries
<1>4. DOMAIN k = 1..Len(k) /\ Len(k) \in Nat
  BY <1>2
<1>5. ASSUME NEW n \in 1..Len(k)
      PROVE  /\ d[n] \in HistoryEntries /\ Alike(d[n], k[n]) /\ k[n] \in HistoryEntries
             /\ IsReaction(d[n]) =>
                  d[n].known = IF k[n].known = {} THEN ResolveTarget(k[n], h) ELSE k[n].known
  <2>1. k[n] \in HistoryEntries
    BY <1>2
  <2>2. d[n] = IF IsReaction(k[n]) /\ k[n].known = {}
               THEN [k[n] EXCEPT !.known = ResolveTarget(k[n], h)] ELSE k[n]
    BY <1>3, <1>4
  <2>3. ResolveTarget(k[n], h) \in SUBSET Authors
    BY <2>1, ResolveTypes
  <2>4. CASE IsReaction(k[n]) /\ k[n].known = {}
    <3>1. PICK t \in SUBSET Authors : t = ResolveTarget(k[n], h)
      BY <2>3
    <3>2. d[n] = [k[n] EXCEPT !.known = t]
      BY <2>2, <2>4, <3>1
    <3>3. d[n] \in HistoryEntries /\ Alike(d[n], k[n]) /\ d[n].known = t
      BY <2>1, <3>2 DEF HistoryEntries, Alike
    <3> QED
      BY <2>1, <2>4, <3>1, <3>3
  <2>5. CASE ~(IsReaction(k[n]) /\ k[n].known = {})
    BY <2>1, <2>2, <2>5 DEF Alike
  <2> QED
    BY <2>4, <2>5
<1>6. d \in Seq(HistoryEntries) /\ Len(d) = Len(k)
  <2>1. d \in [1..Len(k) -> HistoryEntries]
    BY <1>3, <1>4, <1>5
  <2> QED
    BY <1>4, <2>1
<1>7. Shows(d, h, NotBots(h), p)
  BY <1>2, <1>5, <1>6 DEF Shows, Picks, Alike
<1>8. ASSUME NEW n \in 1..Len(d), IsReaction(d[n])
      PROVE  \E r \in HistoryEntries :
                /\ IsReaction(r) /\ r.target = d[n].target /\ \E i \in 1..Len(h) : r = h[i]
                /\ d[n].known = IF r.known = {} THEN ResolveTarget(r, h) ELSE r.known
  <2>1. p[n] \in 1..Len(h) /\ k[n] = h[p[n]]
    BY <1>1, <1>2, <1>6 DEF Picks
  <2>2. k[n].target = d[n].target /\ IsReaction(k[n])
    BY <1>5, <1>6, <1>8 DEF Alike, IsReaction
  <2> QED
    BY <1>5, <1>6, <1>8, <2>1, <2>2
<1>9. \E q : Shows(d, h, NotBots(h), q)
  BY <1>7
<1> QED
  BY <1>6, <1>8, <1>9, <1>d

LEMMA AppendShows ==
  ASSUME NEW h \in Seq(HistoryEntries), NEW d \in Seq(HistoryEntries), NEW e \in HistoryEntries,
         NEW G \in SUBSET (1..Len(h)), NEW p, Shows(d, h, G, p)
  PROVE  \E q : Shows(Append(d, e), Append(h, e), G \cup {Len(h) + 1}, q)
<1>q. PICK q : q = [n \in 1..(Len(d) + 1) |-> IF n = Len(d) + 1 THEN Len(h) + 1 ELSE p[n]]
  OBVIOUS
<1>l. PICK list : list = Append(d, e)
  OBVIOUS
<1>s. PICK sources : sources = Append(h, e)
  OBVIOUS
<1>1. /\ Len(d) \in Nat /\ Len(h) \in Nat /\ Len(list) = Len(d) + 1
      /\ list[Len(d) + 1] = e /\ sources[Len(h) + 1] = e
      /\ \A n \in 1..Len(d) : list[n] = d[n]
      /\ \A i \in 1..Len(h) : sources[i] = h[i]
  BY <1>l, <1>s
<1>2. \A n \in 1..Len(list) : n \in 1..Len(d) \/ n = Len(d) + 1
  BY <1>1
<1>3. /\ q[Len(d) + 1] = Len(h) + 1
      /\ \A n \in 1..Len(d) : q[n] = p[n] /\ p[n] \in G /\ p[n] \in 1..Len(h) /\ p[n] # Len(h) + 1
                              /\ n # Len(d) + 1
  <2>1. \A i \in G : i \in 1..Len(h) /\ i # Len(h) + 1
    BY <1>1
  <2>2. \A n \in 1..Len(d) : p[n] \in G /\ n # Len(d) + 1 /\ n \in 1..(Len(d) + 1)
    BY <1>1 DEF Shows
  <2>3. Len(d) + 1 \in 1..(Len(d) + 1)
    BY <1>1
  <2> QED
    BY <1>q, <2>1, <2>2, <2>3
<1>4. q \in [1..Len(list) -> G \cup {Len(h) + 1}]
  BY <1>1, <1>q, <1>2, <1>3
<1>5. ASSUME NEW m \in 1..Len(list), NEW n \in 1..Len(list), q[m] = q[n]
      PROVE  m = n
  BY <1>2, <1>3, <1>5 DEF Shows
<1>6. ASSUME NEW i \in G \cup {Len(h) + 1}
      PROVE  \E n \in 1..Len(list) : q[n] = i
  <2>1. CASE i \in G
    <3>1. PICK n \in 1..Len(d) : p[n] = i
      BY <2>1 DEF Shows
    <3>2. n \in 1..Len(list)
      BY <1>1
    <3> QED
      BY <1>3, <3>1, <3>2
  <2>2. CASE i = Len(h) + 1
    <3>1. Len(d) + 1 \in 1..Len(list)
      BY <1>1
    <3> QED
      BY <1>3, <2>2, <3>1
  <2> QED
    BY <2>1, <2>2
<1>7. ASSUME NEW n \in 1..Len(list)
      PROVE  Alike(list[n], sources[q[n]])
  <2>1. CASE n = Len(d) + 1
    BY <1>1, <1>3, <2>1 DEF Alike
  <2>2. CASE n \in 1..Len(d)
    <3>1. list[n] = d[n] /\ sources[q[n]] = h[p[n]]
      BY <1>1, <1>3, <2>2
    <3> QED
      BY <2>2, <3>1 DEF Shows
  <2> QED
    BY <1>2, <2>1, <2>2
<1>8. Shows(list, sources, G \cup {Len(h) + 1}, q)
  BY <1>4, <1>5, <1>6, <1>7 DEF Shows
<1> QED
  BY <1>8, <1>l, <1>s

CallFacts(c) ==
  /\ asks[c] \in Asks
  /\ asks[c].mode # "tag" => IsUser(asks[c].entry)
  /\ NamesItsMessages(Sources(asks[c]))

LEMMA AskTypes ==
  ASSUME NEW c, CallFacts(c)
  PROVE  /\ asks[c].history \in Seq(HistoryEntries) /\ asks[c].entry \in HistoryEntries
         /\ asks[c].mode \in {"reply", "photo", "tag"}
         /\ Sources(asks[c]) \in Seq(HistoryEntries)
BY DEF CallFacts, Asks, Sources

(* What names messages, as the proofs use it. *)
LEMMA Names ==
  ASSUME NEW S \in Seq(HistoryEntries), NamesItsMessages(S)
  PROVE  \A i, j \in 1..Len(S) :
           /\ S[i].id = 0 <=> IsReaction(S[i])
           /\ ~IsReaction(S[i]) /\ S[i].id = S[j].id => S[i] = S[j]
           /\ IsReaction(S[i]) /\ S[i].known # {} /\ ~IsReaction(S[j]) /\ S[i].target = S[j].id
                => S[i].known = {WhoWrote(S[j])}
BY DEF NamesItsMessages

(* A photo's reactions to what the bot wrote know that it did. *)
KnowsTheBots(list, S) ==
  \A n \in 1..Len(list), i \in 1..Len(S) :
    IsReaction(list[n]) /\ IsBot(S[i]) /\ S[i].id = list[n].target => list[n].known = {WhoWrote(S[i])}

LEMMA DropBotKnows ==
  ASSUME NEW h \in Seq(HistoryEntries), NEW e \in HistoryEntries, IsUser(e),
         NEW S, S = Append(h, e), NamesItsMessages(S)
  PROVE  KnowsTheBots(Append(DropBotEntries(h), e), S)
<1>d. PICK d : d = DropBotEntries(h)
  OBVIOUS
<1>1. d \in Seq(HistoryEntries)
  BY <1>d, DropBotFacts
<1>l. PICK list : list = Append(d, e)
  OBVIOUS
<1>2. /\ Len(d) \in Nat /\ Len(h) \in Nat /\ Len(list) = Len(d) + 1 /\ Len(S) = Len(h) + 1
      /\ list[Len(d) + 1] = e /\ S[Len(h) + 1] = e /\ S \in Seq(HistoryEntries)
      /\ \A n \in 1..Len(d) : list[n] = d[n]
      /\ \A i \in 1..Len(h) : S[i] = h[i] /\ i \in 1..Len(S)
  BY <1>1, <1>l
<1>n. \A i, j \in 1..Len(S) :
        /\ S[i].id = 0 <=> IsReaction(S[i])
        /\ ~IsReaction(S[i]) /\ S[i].id = S[j].id => S[i] = S[j]
        /\ IsReaction(S[i]) /\ S[i].known # {} /\ ~IsReaction(S[j]) /\ S[i].target = S[j].id
             => S[i].known = {WhoWrote(S[j])}
  <2>1. S \in Seq(HistoryEntries)
    BY <1>2
  <2> QED
    BY <2>1, Names, Zenon
<1>3. ASSUME NEW n \in 1..Len(list), NEW i \in 1..Len(S),
             IsReaction(list[n]), IsBot(S[i]), S[i].id = list[n].target
      PROVE  list[n].known = {WhoWrote(S[i])}
  <2>1. n \in 1..Len(d) /\ list[n] = d[n]
    <3>1. n \in 1..Len(d) \/ n = Len(d) + 1
      BY <1>2
    <3> QED
      BY <1>2, <1>3, <3>1 DEF IsUser, IsReaction
  <2>2. i \in 1..Len(h) /\ S[i] = h[i]
    <3>1. i \in 1..Len(h) \/ i = Len(h) + 1
      BY <1>2
    <3> QED
      BY <1>2, <1>3, <3>1 DEF IsUser, IsBot
  <2>3. PICK r \in HistoryEntries :
          /\ IsReaction(r) /\ r.target = d[n].target /\ \E j \in 1..Len(h) : r = h[j]
          /\ d[n].known = IF r.known = {} THEN ResolveTarget(r, h) ELSE r.known
    BY <1>3, <1>d, <2>1, DropBotFacts
  <2>4. PICK j \in 1..Len(h) : r = h[j]
    BY <2>3
  <2>5. ~IsReaction(h[i]) /\ h[i].id = r.target
    BY <1>3, <2>1, <2>2, <2>3 DEF IsBot, IsReaction
  <2>6. CASE r.known = {}
    <3>1. PICK k \in 1..Len(h) :
            ~IsReaction(h[k]) /\ h[k].id = r.target /\ ResolveTarget(r, h) = {WhoWrote(h[k])}
      <4>1. ~(\A k \in 1..Len(h) : ~(~IsReaction(h[k]) /\ h[k].id = r.target))
        BY <2>2, <2>5
      <4> QED
        BY <4>1, ResolveFacts
    <3>2. S[k] = S[i]
      <4>1. S[k] = h[k] /\ k \in 1..Len(S) /\ i \in 1..Len(S) /\ S[i] = h[i]
        BY <1>2, <2>2
      <4>2. ~IsReaction(S[k]) /\ S[k].id = S[i].id
        BY <2>5, <3>1, <4>1
      <4> QED
        BY <1>n, <4>1, <4>2
    <3>3. h[k] = h[i]
      BY <1>2, <2>2, <3>2
    <3> QED
      BY <2>1, <2>2, <2>3, <2>6, <3>1, <3>3
  <2>7. CASE r.known # {}
    <3>1. S[j] = r /\ j \in 1..Len(S)
      BY <1>2, <2>4
    <3>2. r.known = {WhoWrote(S[i])}
      BY <1>n, <2>2, <2>3, <2>5, <2>7, <3>1
    <3> QED
      BY <2>1, <2>3, <2>7, <3>2
  <2> QED
    BY <2>6, <2>7
<1>4. KnowsTheBots(list, S)
  BY <1>3, Zenon DEF KnowsTheBots
<1> QED
  BY <1>4, <1>d, <1>l

LEMMA EntriesShow ==
  ASSUME NEW c, CallFacts(c), asks[c].mode # "tag"
  PROVE  /\ Entries(c) \in Seq(HistoryEntries)
         /\ \E p : Shows(Entries(c), Sources(asks[c]), Given(c), p)
         /\ asks[c].mode = "photo" => KnowsTheBots(Entries(c), Sources(asks[c]))
<1>h. PICK h : h = asks[c].history
  OBVIOUS
<1>e. PICK e : e = asks[c].entry
  OBVIOUS
<1>s. PICK S : S = Append(h, e)
  OBVIOUS
<1>1. h \in Seq(HistoryEntries) /\ e \in HistoryEntries /\ IsUser(e) /\ S = Sources(asks[c])
      /\ NamesItsMessages(S) /\ asks[c].mode \in {"reply", "photo"}
  BY <1>h, <1>e, <1>s, AskTypes DEF CallFacts, Sources
<1>2. S \in Seq(HistoryEntries) /\ Len(h) \in Nat /\ Len(S) = Len(h) + 1 /\ S[Len(h) + 1] = e
      /\ \A i \in 1..Len(h) : S[i] = h[i]
  BY <1>1, <1>s
<1>3. CASE asks[c].mode = "reply"
  <2>1. Entries(c) = S
    BY <1>3, <1>h, <1>e, <1>s DEF Entries
  <2>2. Given(c) = DOMAIN S
    BY <1>1, <1>3 DEF Given
  <2>3. Shows(S, S, DOMAIN S, [n \in 1..Len(S) |-> n])
    BY <1>2, ShowsAll
  <2> QED
    BY <1>1, <1>2, <1>3, <2>1, <2>2, <2>3
<1>4. CASE asks[c].mode = "photo"
  <2>d. PICK d : d = DropBotEntries(h)
    OBVIOUS
  <2>1. d \in Seq(HistoryEntries) /\ \E p : Shows(d, h, NotBots(h), p)
    BY <1>1, <2>d, DropBotFacts
  <2>2. Entries(c) = Append(d, e)
    BY <1>4, <1>h, <1>e, <2>d DEF Entries
  <2>3. Given(c) = NotBots(h) \cup {Len(h) + 1}
    <3>1. Given(c) = {i \in 1..Len(S) : ~IsBot(S[i])}
      BY <1>1, <1>2, <1>4 DEF Given
    <3>2. ~IsBot(S[Len(h) + 1]) /\ Len(h) + 1 \in 1..Len(S)
      BY <1>1, <1>2 DEF IsBot, IsUser
    <3>3. \A i : i \in 1..Len(S) <=> i \in 1..Len(h) \/ i = Len(h) + 1
      BY <1>2
    <3> QED
      BY <1>2, <3>1, <3>2, <3>3 DEF NotBots
  <2>4. \E q : Shows(Append(d, e), S, NotBots(h) \cup {Len(h) + 1}, q)
    <3>1. NotBots(h) \in SUBSET (1..Len(h))
      BY DEF NotBots
    <3> QED
      BY <1>1, <1>s, <2>1, <3>1, AppendShows
  <2>5. KnowsTheBots(Append(d, e), S)
    BY <1>1, <1>s, <2>d, DropBotKnows
  <2> QED
    BY <1>1, <2>1, <2>2, <2>3, <2>4, <2>5
<1> QED
  BY <1>1, <1>3, <1>4

LEMMA AlikeEntries ==
  ASSUME NEW a, NEW b, NEW e, NEW f, Alike(a, e), Alike(b, f)
  PROVE  /\ Earlier(a, b) <=> Earlier(e, f)
         /\ IsUser(a) <=> IsUser(e)
         /\ IsBot(a) <=> IsBot(e)
         /\ IsReaction(a) <=> IsReaction(e)
         /\ WhoWrote(a) = WhoWrote(e)
BY DEF Alike, Earlier, IsUser, IsBot, IsReaction, WhoWrote

(* Rearranging changes nothing of this. *)
LEMMA OrderedShowsAll ==
  ASSUME NEW list \in Seq(HistoryEntries), NEW S, NEW G, \E p : Shows(list, S, G, p)
  PROVE  LET o == OrderedHistory(list) IN
         /\ o \in Seq(HistoryEntries) /\ Ordered(o)
         /\ \E p : Shows(o, S, G, p)
         /\ KnowsTheBots(list, S) => KnowsTheBots(o, S)
<1>o. PICK o : o = OrderedHistory(list)
  OBVIOUS
<1>1. o \in Seq(HistoryEntries) /\ Ordered(o) /\ \E p : Picks(o, list, 1..Len(list), p)
  BY <1>o, OrderedFacts
<1>2. \E p : Shows(o, S, G, p)
  BY <1>o, OrderedShows
<1>3. \A n \in 1..Len(o) : \E k \in 1..Len(list) : o[n] = list[k]
  BY <1>1 DEF Picks
<1>4. KnowsTheBots(list, S) => KnowsTheBots(o, S)
  BY <1>3 DEF KnowsTheBots
<1> QED
  BY <1>1, <1>2, <1>4, <1>o

(* Of a list in order what withoutLeadingBotEntries keeps is to be shown. *)
LEMMA LeadingBotsGo ==
  ASSUME NEW list \in Seq(HistoryEntries), Ordered(list),
         NEW S \in Seq(HistoryEntries), NamesItsMessages(S),
         NEW G \in SUBSET (1..Len(S)), NEW p, Shows(list, S, G, p)
  PROVE  LET t == WithoutLeadingBotEntries(list) IN
         /\ t \in Seq(HistoryEntries) /\ Ordered(t)
         /\ \E q : Shows(t, S, Shown(S, G), q)
         /\ \A n \in 1..Len(t) : \E k \in 1..Len(list) : t[n] = list[k]
<1>k. PICK K : K = {i \in 1..Len(list) : IsReaction(list[i]) \/ \E u \in 1..i : IsUser(list[u])}
  OBVIOUS
<1>t. PICK t : t = WithoutLeadingBotEntries(list)
  OBVIOUS
<1>1. K \in SUBSET (1..Len(list)) /\ t = Only(list, K) /\ Len(list) \in Nat
  <2>1. K = {i \in DOMAIN list : IsReaction(list[i]) \/ \E u \in 1..i : IsUser(list[u])}
    BY <1>k
  <2>2. t = Only(list, K)
    BY <1>t, <2>1, Zenon DEF WithoutLeadingBotEntries
  <2>3. K \in SUBSET (1..Len(list)) /\ Len(list) \in Nat
    BY <1>k
  <2> QED
    BY <2>2, <2>3
<1>2. ASSUME NEW k \in 1..Len(list)
      PROVE  /\ p[k] \in G /\ p[k] \in 1..Len(S) /\ Alike(list[k], S[p[k]])
             /\ list[k] \in HistoryEntries
             /\ IsUser(list[k]) <=> IsUser(S[p[k]])
             /\ IsBot(list[k]) <=> IsBot(S[p[k]])
             /\ IsReaction(list[k]) <=> IsReaction(S[p[k]])
             /\ IsUser(list[k]) \/ IsBot(list[k]) \/ IsReaction(list[k])
  <2>1. p[k] \in G /\ Alike(list[k], S[p[k]])
    BY DEF Shows
  <2>2. list[k] \in HistoryEntries
    OBVIOUS
  <2>3. IsUser(list[k]) \/ IsBot(list[k]) \/ IsReaction(list[k])
    BY <2>2, EntryFields DEF IsUser, IsBot, IsReaction
  <2> QED
    BY <2>1, <2>2, <2>3, AlikeEntries
<1>3. \A k, m \in 1..Len(list) : Earlier(list[k], list[m]) <=> Earlier(S[p[k]], S[p[m]])
  BY <1>2, AlikeEntries
<1>4. ASSUME NEW k \in K
      PROVE  p[k] \in Shown(S, G)
  <2>1. k \in 1..Len(list) /\ (IsReaction(list[k]) \/ \E u \in 1..k : IsUser(list[u]))
    BY <1>k
  <2>2. SUFFICES ASSUME IsBot(S[p[k]])
                 PROVE  \E u \in G : IsUser(S[u]) /\ Earlier(S[u], S[p[k]])
    BY <1>2, <2>1 DEF Shown
  <2>3. IsBot(list[k]) /\ ~IsReaction(list[k])
    BY <1>2, <2>1, <2>2 DEF IsBot, IsReaction
  <2>4. PICK u \in 1..k : IsUser(list[u])
    BY <2>1, <2>3
  <2>5. u \in 1..Len(list) /\ u # k /\ u < k
    BY <1>1, <2>1, <2>3, <2>4 DEF IsUser, IsBot
  <2>6. list[u].id # list[k].id
    <3>1. p[u] \in 1..Len(S) /\ p[k] \in 1..Len(S) /\ IsUser(S[p[u]]) /\ IsBot(S[p[k]])
      BY <1>2, <2>1, <2>2, <2>4, <2>5
    <3>2. S[p[u]].id # S[p[k]].id
      BY <3>1, Names DEF IsUser, IsBot, IsReaction
    <3> QED
      BY <1>2, <2>1, <2>5, <3>2 DEF Alike
  <2>7. ~Earlier(list[k], list[u])
    BY <2>1, <2>5 DEF Ordered
  <2>8. Earlier(list[u], list[k])
    BY <1>2, <2>1, <2>3, <2>4, <2>5, <2>6, <2>7, EarlierOrders DEF IsUser, IsBot
  <2> QED
    BY <1>2, <1>3, <2>1, <2>4, <2>5, <2>8
<1>5. ASSUME NEW i \in Shown(S, G)
      PROVE  \E k \in K : i = p[k]
  <2>1. i \in G /\ (IsBot(S[i]) => \E u \in G : IsUser(S[u]) /\ Earlier(S[u], S[i]))
    BY DEF Shown
  <2>2. PICK k \in 1..Len(list) : p[k] = i
    BY <2>1 DEF Shows
  <2>3. CASE IsReaction(list[k])
    BY <1>k, <2>2, <2>3
  <2>4. CASE IsUser(list[k])
    <3>1. k \in 1..k
      BY <1>1
    <3> QED
      BY <1>k, <2>2, <2>4, <3>1
  <2>5. CASE IsBot(list[k])
    <3>1. PICK u \in G : IsUser(S[u]) /\ Earlier(S[u], S[i])
      BY <1>2, <2>1, <2>2, <2>5
    <3>2. PICK m \in 1..Len(list) : p[m] = u
      BY DEF Shows
    <3>3. IsUser(list[m]) /\ Earlier(list[m], list[k])
      BY <1>2, <1>3, <2>2, <3>1, <3>2
    <3>4. m # k
      BY <2>5, <3>3 DEF IsUser, IsBot
    <3>5. ~(k < m)
      BY <3>3 DEF Ordered
    <3>6. m \in 1..k
      BY <1>1, <3>4, <3>5
    <3> QED
      BY <1>k, <2>2, <3>3, <3>6
  <2> QED
    BY <1>2, <2>3, <2>4, <2>5
<1>6. ImageOf(p, K) = Shown(S, G)
  BY <1>4, <1>5 DEF ImageOf
<1>7. \E q : Shows(t, S, Shown(S, G), q)
  BY <1>1, <1>6, OnlyShows
<1>8. t \in Seq(HistoryEntries) /\ Picks(t, list, K, Increasing(K))
  BY <1>1, OnlyFacts
<1>9. Ordered(t)
  BY <1>1, OnlyIsOrdered
<1>10. ASSUME NEW n \in 1..Len(t)
       PROVE  \E k \in 1..Len(list) : t[n] = list[k]
  <2>1. PICK k : k = Increasing(K)[n]
    OBVIOUS
  <2>2. k \in K /\ t[n] = list[k]
    BY <1>8, <2>1 DEF Picks
  <2> QED
    BY <1>1, <2>2
<1> QED
  BY <1>7, <1>8, <1>9, <1>10, <1>t
-------------------------------------------------------------------------------
(* The items of an answer are what is kept of the sorted history. *)
LEMMA ItemsFacts ==
  ASSUME NEW h, NEW o, o = OrderedHistory(h), NEW t, t = WithoutLeadingBotEntries(o),
         t \in Seq(HistoryEntries), NEW items, items = BuildChatCompletions(h)
  PROVE  /\ DOMAIN items = 1..Len(t) /\ Len(items) = Len(t)
         /\ \A n \in 1..Len(t) :
              /\ items[n].entry = t[n]
              /\ items[n].now <=> IsUser(t[n]) /\ n = LastUserMessageIndex(t)
              /\ items[n].role = "assistant" <=> IsBot(t[n])
              /\ IsReaction(t[n]) => /\ items[n].turn = AssistantTurn(t, t[n].target)
                                     /\ items[n].known = ResolveTarget(t[n], o)
              /\ IsUser(t[n]) => items[n].replyTo = RepliesTo(t[n], o)
<1>m. PICK message : message = [n \in DOMAIN t |->
        CASE IsReaction(t[n]) -> FormatReaction("dialogue", t[n], o, AssistantTurn(t, t[n].target))
          [] IsBot(t[n]) -> Item("dialogue", "assistant", t[n], {}, FALSE, 0, {})
          [] IsUser(t[n]) ->
               Item("dialogue", "user", t[n], RepliesTo(t[n], o), n = LastUserMessageIndex(t), 0, {})]
  OBVIOUS
<1>1. items = message
  BY <1>m DEF BuildChatCompletions
<1>2. DOMAIN items = 1..Len(t) /\ Len(t) \in Nat
  BY <1>1, <1>m
<1>3. Len(items) = Len(t)
  BY <1>1, <1>2, <1>m
<1>4. ASSUME NEW n \in 1..Len(t)
      PROVE  /\ items[n].entry = t[n]
             /\ items[n].now <=> IsUser(t[n]) /\ n = LastUserMessageIndex(t)
             /\ items[n].role = "assistant" <=> IsBot(t[n])
             /\ IsReaction(t[n]) => /\ items[n].turn = AssistantTurn(t, t[n].target)
                                    /\ items[n].known = ResolveTarget(t[n], o)
             /\ IsUser(t[n]) => items[n].replyTo = RepliesTo(t[n], o)
  <2>1. t[n].kind \in {"user", "bot", "reaction"}
    <3>1. t[n] \in HistoryEntries
      OBVIOUS
    <3> QED
      BY <3>1, EntryFields
  <2>2. CASE IsReaction(t[n])
    <3>1. items[n] = FormatReaction("dialogue", t[n], o, AssistantTurn(t, t[n].target))
      BY <1>1, <1>2, <1>m, <2>2 DEF IsReaction, IsBot, IsUser
    <3> QED
      BY <2>2, <3>1 DEF FormatReaction, Item, IsReaction, IsBot, IsUser
  <2>3. CASE IsBot(t[n])
    <3>1. items[n] = Item("dialogue", "assistant", t[n], {}, FALSE, 0, {})
      BY <1>1, <1>2, <1>m, <2>3 DEF IsReaction, IsBot, IsUser
    <3> QED
      BY <2>3, <3>1 DEF Item, IsReaction, IsBot, IsUser
  <2>4. CASE IsUser(t[n])
    <3>1. items[n] = Item("dialogue", "user", t[n], RepliesTo(t[n], o), n = LastUserMessageIndex(t), 0, {})
      BY <1>1, <1>2, <1>m, <2>4 DEF IsReaction, IsBot, IsUser
    <3>2. PICK now \in BOOLEAN : now <=> n = LastUserMessageIndex(t)
      OBVIOUS
    <3>3. items[n] = Item("dialogue", "user", t[n], RepliesTo(t[n], o), now, 0, {})
      BY <3>1, <3>2
    <3>4. items[n].now <=> now
      BY <3>3 DEF Item
    <3> QED
      BY <2>4, <3>2, <3>3, <3>4 DEF Item, IsReaction, IsBot, IsUser
  <2> QED
    BY <2>1, <2>2, <2>3, <2>4 DEF IsReaction, IsBot, IsUser
<1> QED
  BY <1>2, <1>3, <1>4

LEMMA ShownAreAsMany ==
  ASSUME NEW list \in Seq(HistoryEntries), NEW S, NEW G, NEW p, Shows(list, S, G, p)
  PROVE  IsFiniteSet(G) /\ Len(list) = Cardinality(G)
<1>1. Len(list) \in Nat
  OBVIOUS
<1>2. IsFiniteSet(1..Len(list)) /\ Cardinality(1..Len(list)) = Len(list)
  <2>1. \A k \in Nat : IsFiniteSet(1..k) /\ Cardinality(1..k) = k
    BY FS_Interval
  <2> QED
    BY <1>1, <2>1
<1>3. p \in Bijection(1..Len(list), G)
  BY DEF Shows, Bijection, Injection, Surjection, IsInjective
<1> QED
  <2>1. ExistsBijection(1..Len(list), G)
    BY <1>3 DEF ExistsBijection
  <2> QED
    BY <1>2, <2>1, FS_Bijection

LEMMA NamedIsOne ==
  ASSUME NEW S \in Seq(HistoryEntries), NamesItsMessages(S), NEW i \in 1..Len(S), ~IsReaction(S[i])
  PROVE  Named(S, S[i].id) = {S[i]}
<1>1. S[i] \in Range(S)
  BY DEF Range
<1>2. ASSUME NEW e \in Range(S), ~IsReaction(e), e.id = S[i].id
      PROVE  e = S[i]
  <2>1. PICK j \in 1..Len(S) : e = S[j]
    BY DEF Range
  <2> QED
    BY <1>2, <2>1, Names
<1> QED
  BY <1>1, <1>2 DEF Named

LEMMA NamedIsThere ==
  ASSUME NEW S \in Seq(HistoryEntries), NEW id, Named(S, id) # {}
  PROVE  \E i \in 1..Len(S) : ~IsReaction(S[i]) /\ S[i].id = id
<1>1. PICK e \in Named(S, id) : TRUE
  OBVIOUS
<1>2. PICK i \in DOMAIN S : e = S[i]
  BY <1>1 DEF Named, Range
<1> QED
  BY <1>1, <1>2 DEF Named

(* Whose message a reaction is to is told, by the list or by the reaction. *)
KnowsOthers(S, G, r) ==
  \A i \in 1..Len(S) : ~IsReaction(S[i]) /\ S[i].id = r.target /\ i \notin G =>
    r.known = {WhoWrote(S[i])}

LEMMA ResolvedIsTold ==
  ASSUME NEW S \in Seq(HistoryEntries), NamesItsMessages(S),
         NEW list \in Seq(HistoryEntries), NEW G \in SUBSET (1..Len(S)), NEW p, Shows(list, S, G, p),
         NEW r, Named(S, r.target) # {}, KnowsOthers(S, G, r)
  PROVE  ResolveTarget(r, list) = Writers(Named(S, r.target))
<1>1. PICK i \in 1..Len(S) : ~IsReaction(S[i]) /\ S[i].id = r.target
  BY NamedIsThere
<1>2. Named(S, r.target) = {S[i]}
  BY <1>1, NamedIsOne
<1>3. Writers(Named(S, r.target)) = {WhoWrote(S[i])}
  BY <1>2 DEF Writers
<1>4. \A n \in 1..Len(list) :
        /\ p[n] \in 1..Len(S) /\ Alike(list[n], S[p[n]])
        /\ IsReaction(list[n]) <=> IsReaction(S[p[n]])
        /\ WhoWrote(list[n]) = WhoWrote(S[p[n]]) /\ list[n].id = S[p[n]].id
  <2>1. \A n \in 1..Len(list) : p[n] \in 1..Len(S) /\ Alike(list[n], S[p[n]])
    BY DEF Shows
  <2>2. ASSUME NEW n \in 1..Len(list)
        PROVE  /\ IsReaction(list[n]) <=> IsReaction(S[p[n]])
               /\ WhoWrote(list[n]) = WhoWrote(S[p[n]]) /\ list[n].id = S[p[n]].id
    <3>1. Alike(list[n], S[p[n]])
      BY <2>1
    <3> QED
      BY <3>1, AlikeEntries DEF Alike
  <2> QED
    BY <2>1, <2>2
<1>5. CASE \E k \in 1..Len(list) :
             ~IsReaction(list[k]) /\ list[k].id = r.target /\ ResolveTarget(r, list) = {WhoWrote(list[k])}
  <2>1. PICK k \in 1..Len(list) :
          ~IsReaction(list[k]) /\ list[k].id = r.target /\ ResolveTarget(r, list) = {WhoWrote(list[k])}
    BY <1>5
  <2>2. S[p[k]] = S[i]
    <3>1. p[k] \in 1..Len(S) /\ ~IsReaction(S[p[k]]) /\ S[p[k]].id = S[i].id
      BY <1>1, <1>4, <2>1
    <3> QED
      BY <3>1, Names
  <2> QED
    BY <1>3, <1>4, <2>1, <2>2
<1>6. CASE /\ ResolveTarget(r, list) = r.known
           /\ \A k \in 1..Len(list) : ~(~IsReaction(list[k]) /\ list[k].id = r.target)
  <2>1. i \notin G
    <3>1. SUFFICES ASSUME i \in G PROVE FALSE
      OBVIOUS
    <3>2. PICK k \in 1..Len(list) : p[k] = i
      BY <3>1 DEF Shows
    <3> QED
      BY <1>1, <1>4, <1>6, <3>2
  <2> QED
    BY <1>1, <1>3, <1>6, <2>1 DEF KnowsOthers
<1> QED
  BY <1>5, <1>6, ResolveFacts

(* Whose message is answered is told. *)
LEMMA RepliesAreTold ==
  ASSUME NEW S \in Seq(HistoryEntries), NamesItsMessages(S),
         NEW list \in Seq(HistoryEntries), NEW p, Shows(list, S, 1..Len(S), p), NEW e
  PROVE  RepliesTo(e, list) = WriterNames(Named(S, e.replyTo))
<1>1. \A n \in 1..Len(list) :
        /\ p[n] \in 1..Len(S) /\ list[n].author = S[p[n]].author /\ list[n].id = S[p[n]].id
  BY DEF Shows, Alike
<1>2. CASE RepliesTo(e, list) = {} /\ (e.replyTo = 0 \/ \A i \in 1..Len(list) : list[i].id # e.replyTo)
  <2>1. SUFFICES ASSUME Named(S, e.replyTo) # {} PROVE FALSE
    BY <1>2 DEF WriterNames
  <2>2. PICK i \in 1..Len(S) : ~IsReaction(S[i]) /\ S[i].id = e.replyTo
    BY <2>1, NamedIsThere
  <2>3. e.replyTo # 0
    BY <2>2, Names
  <2>4. PICK n \in 1..Len(list) : p[n] = i
    BY DEF Shows
  <2> QED
    BY <1>1, <1>2, <2>2, <2>3, <2>4
<1>3. CASE e.replyTo # 0 /\ \E i \in 1..Len(list) : list[i].id = e.replyTo /\ RepliesTo(e, list) = {list[i].author}
  <2>1. PICK i \in 1..Len(list) : list[i].id = e.replyTo /\ RepliesTo(e, list) = {list[i].author}
    BY <1>3
  <2>2. ~IsReaction(S[p[i]]) /\ S[p[i]].id = e.replyTo
    BY <1>1, <1>3, <2>1, Names
  <2>3. Named(S, e.replyTo) = {S[p[i]]}
    BY <1>1, <2>2, NamedIsOne
  <2> QED
    BY <1>1, <2>1, <2>3 DEF WriterNames
<1> QED
  BY <1>2, <1>3, RepliesFacts
-------------------------------------------------------------------------------
(* The last of a user in a list in order: no user's is later. *)
LEMMA LastUserIsLatest ==
  ASSUME NEW S \in Seq(HistoryEntries), NEW list \in Seq(HistoryEntries), Ordered(list),
         NEW H \in SUBSET (1..Len(S)), NEW p, Shows(list, S, H, p),
         NEW u \in H, IsUser(S[u])
  PROVE  LET last == LastUserMessageIndex(list) IN
         /\ last \in 1..Len(list) /\ IsUser(list[last])
         /\ \A v \in H : IsUser(S[v]) => ~Earlier(list[last], S[v])
<1>l. PICK last : last = LastUserMessageIndex(list)
  OBVIOUS
<1>1. \A v \in H : \E n \in 1..Len(list) : p[n] = v /\ Alike(list[n], S[v])
  BY DEF Shows
<1>2. \A n \in 1..Len(list) : list[n] \in HistoryEntries /\ Alike(list[n], list[n])
  BY DEF Alike
<1>3. ASSUME NEW v \in H, IsUser(S[v])
      PROVE  \E n \in 1..Len(list) : IsUser(list[n]) /\ Alike(list[n], S[v])
  BY <1>1, <1>3, AlikeEntries
<1>4. \/ last = 0 /\ \A i \in 1..Len(list) : ~IsUser(list[i])
      \/ last \in 1..Len(list) /\ IsUser(list[last])
         /\ \A i \in 1..Len(list) : IsUser(list[i]) => i <= last
  BY <1>l, LastUserFacts
<1>5. last \in 1..Len(list) /\ IsUser(list[last]) /\ \A i \in 1..Len(list) : IsUser(list[i]) => i <= last
  BY <1>3, <1>4
<1>6. ASSUME NEW v \in H, IsUser(S[v])
      PROVE  ~Earlier(list[last], S[v])
  <2>1. PICK n \in 1..Len(list) : IsUser(list[n]) /\ Alike(list[n], S[v])
    BY <1>3, <1>6
  <2>2. n <= last /\ n \in Int /\ last \in Int
    BY <1>5, <2>1
  <2>3. ~Earlier(list[last], list[n])
    <3>1. CASE n = last
      BY <1>2, <1>5, <3>1, EarlierOrders
    <3>2. CASE n < last
      BY <1>5, <3>2 DEF Ordered
    <3> QED
      BY <2>2, <3>1, <3>2
  <2> QED
    BY <1>2, <1>5, <2>1, <2>3, AlikeEntries
<1> QED
  BY <1>5, <1>6, <1>l

(* The entry that the filter looked at is the one that is marked. *)
LEMMA SameLastUser ==
  ASSUME NEW S \in Seq(HistoryEntries), NamesItsMessages(S), NEW G \in SUBSET (1..Len(S)),
         NEW i \in G, NEW j \in G, IsUser(S[i]), IsUser(S[j]),
         NEW a, Alike(a, S[i]), ~Earlier(a, S[j]),
         NEW b, Alike(b, S[j]), ~Earlier(b, S[i])
  PROVE  a.meaningful => b.meaningful
<1>1. ~Earlier(S[i], S[j]) /\ ~Earlier(S[j], S[i])
  <2>1. Alike(S[i], S[i]) /\ Alike(S[j], S[j])
    BY DEF Alike
  <2> QED
    BY <2>1, AlikeEntries
<1>2. S[i].id = S[j].id
  <2>1. S[i].kind # "reaction" /\ S[j].kind # "reaction" /\ S[i] \in HistoryEntries /\ S[j] \in HistoryEntries
    BY DEF IsUser
  <2> QED
    BY <1>1, <2>1, EarlierOrders
<1>3. S[i] = S[j]
  <2>1. ~IsReaction(S[i])
    BY DEF IsUser, IsReaction
  <2> QED
    BY <1>2, <2>1, Names
<1> QED
  BY <1>3 DEF Alike

(* The number of a reaction counts to the message that it is to. *)
LEMMA TurnsAreTold ==
  ASSUME NEW t \in Seq(HistoryEntries), NEW id,
         NEW turns, \A n : n \in turns <=> n \in 1..Len(t) /\ IsBot(t[n]),
         NEW to, \A n : n \in to <=> n \in turns /\ t[n].id = id
  PROVE  CountsTo(AssistantTurn(t, id), turns, to)
<1>t. PICK turn : turn = AssistantTurn(t, id)
  OBVIOUS
<1>1. CASE turn = 0 /\ \A k \in 1..Len(t) : ~(IsBot(t[k]) /\ t[k].id = id)
  BY <1>1, <1>t DEF CountsTo
<1>2. CASE \E k \in 1..Len(t) : /\ IsBot(t[k]) /\ t[k].id = id
                                /\ turn = Cardinality({j \in 1..k : IsBot(t[j])}) /\ turn > 0
  <2>1. PICK k \in 1..Len(t) : /\ IsBot(t[k]) /\ t[k].id = id
                               /\ turn = Cardinality({j \in 1..k : IsBot(t[j])}) /\ turn > 0
    BY <1>2
  <2>2. {j \in 1..k : IsBot(t[j])} = {j \in turns : j <= k}
    BY <2>1
  <2>3. k \in to /\ turn = Cardinality({j \in turns : j <= k})
    BY <2>1, <2>2
  <2> QED
    BY <1>t, <2>1, <2>3 DEF CountsTo
<1> QED
  BY <1>t, <1>1, <1>2, TurnFacts
-------------------------------------------------------------------------------
(* An answer, from the sources to what is sent. *)
AnswerIsMade(c, S, G, o, t) ==
  /\ S \in Seq(HistoryEntries) /\ NamesItsMessages(S) /\ G \in SUBSET (1..Len(S))
  /\ o \in Seq(HistoryEntries) /\ \E p : Shows(o, S, G, p)
  /\ asks[c].mode = "photo" => KnowsTheBots(o, S)
  /\ t \in Seq(HistoryEntries) /\ Ordered(t)
  /\ \E p : Shows(t, S, Shown(S, G), p)
  /\ \A n \in 1..Len(t) : \E k \in 1..Len(o) : t[n] = o[k]
  /\ DOMAIN asked[c].items = 1..Len(t) /\ Len(asked[c].items) = Len(t)
  /\ \A n \in 1..Len(t) :
       LET m == asked[c].items[n] IN
       /\ m.entry = t[n]
       /\ m.now <=> IsUser(t[n]) /\ n = LastUserMessageIndex(t)
       /\ m.role = "assistant" <=> IsBot(t[n])
       /\ IsReaction(t[n]) => /\ m.turn = AssistantTurn(t, t[n].target)
                              /\ m.known = ResolveTarget(t[n], o)
       /\ IsUser(t[n]) => m.replyTo = RepliesTo(t[n], o)

LEMMA AnswerIsMadeOf ==
  ASSUME NEW c, CallFacts(c), asks[c].mode # "tag",
         NEW o, o = OrderedHistory(Entries(c)),
         asked[c].items = BuildChatCompletions(o)
  PROVE  /\ o \in Seq(HistoryEntries) /\ Ordered(o) /\ \E p : Shows(o, Sources(asks[c]), Given(c), p)
         /\ AnswerIsMade(c, Sources(asks[c]), Given(c), OrderedHistory(o),
                         WithoutLeadingBotEntries(OrderedHistory(o)))
<1>s. PICK S : S = Sources(asks[c])
  OBVIOUS
<1>g. PICK G : G = Given(c)
  OBVIOUS
<1>e. PICK E : E = Entries(c)
  OBVIOUS
<1>i. PICK items : items = asked[c].items
  OBVIOUS
<1>1. S \in Seq(HistoryEntries) /\ NamesItsMessages(S)
  BY <1>s, AskTypes DEF CallFacts
<1>2. G \in SUBSET (1..Len(S))
  BY <1>1, <1>s, <1>g DEF Given
<1>3. E \in Seq(HistoryEntries) /\ (\E p : Shows(E, S, G, p)) /\ (asks[c].mode = "photo" => KnowsTheBots(E, S))
  BY <1>s, <1>g, <1>e, EntriesShow
<1>4. /\ o \in Seq(HistoryEntries) /\ Ordered(o) /\ \E p : Shows(o, S, G, p)
      /\ KnowsTheBots(E, S) => KnowsTheBots(o, S)
  BY <1>3, <1>e, OrderedShowsAll
<1>p. PICK sorted : sorted = OrderedHistory(o)
  OBVIOUS
<1>5. /\ sorted \in Seq(HistoryEntries) /\ Ordered(sorted) /\ \E p : Shows(sorted, S, G, p)
      /\ KnowsTheBots(o, S) => KnowsTheBots(sorted, S)
  BY <1>4, <1>p, OrderedShowsAll
<1>t. PICK t : t = WithoutLeadingBotEntries(sorted)
  OBVIOUS
<1>6. /\ t \in Seq(HistoryEntries) /\ Ordered(t)
      /\ \E p : Shows(t, S, Shown(S, G), p)
      /\ \A n \in 1..Len(t) : \E k \in 1..Len(sorted) : t[n] = sorted[k]
  BY <1>1, <1>2, <1>5, <1>t, LeadingBotsGo
<1>7. /\ DOMAIN items = 1..Len(t) /\ Len(items) = Len(t)
      /\ \A n \in 1..Len(t) :
           /\ items[n].entry = t[n]
           /\ items[n].now <=> IsUser(t[n]) /\ n = LastUserMessageIndex(t)
           /\ items[n].role = "assistant" <=> IsBot(t[n])
           /\ IsReaction(t[n]) => /\ items[n].turn = AssistantTurn(t, t[n].target)
                                  /\ items[n].known = ResolveTarget(t[n], sorted)
           /\ IsUser(t[n]) => items[n].replyTo = RepliesTo(t[n], sorted)
  BY <1>6, <1>i, <1>p, <1>t, ItemsFacts
<1>8. AnswerIsMade(c, S, G, sorted, t)
  BY <1>1, <1>2, <1>3, <1>4, <1>5, <1>6, <1>7, <1>i, Zenon DEF AnswerIsMade
<1> QED
  BY <1>4, <1>8, <1>s, <1>g, <1>p, <1>t

LEMMA AnswerTellsAuthors ==
  ASSUME NEW c, NEW o, NEW t, AnswerIsMade(c, Sources(asks[c]), Given(c), o, t),
         asks[c].mode \in {"reply", "photo"}
  PROVE  AuthorsAreTold(c)
<1>s. PICK S : S = Sources(asks[c])
  OBVIOUS
<1>g. PICK G : G = Given(c)
  OBVIOUS
<1>i. PICK items : items = asked[c].items
  OBVIOUS
<1>1. /\ S \in Seq(HistoryEntries) /\ NamesItsMessages(S) /\ G \in SUBSET (1..Len(S))
      /\ o \in Seq(HistoryEntries) /\ \E p : Shows(o, S, G, p)
      /\ asks[c].mode = "photo" => KnowsTheBots(o, S)
      /\ \A n \in 1..Len(t) : \E k \in 1..Len(o) : t[n] = o[k]
      /\ DOMAIN items = 1..Len(t)
      /\ \A n \in 1..Len(t) :
           /\ items[n].entry = t[n]
           /\ IsReaction(t[n]) => items[n].known = ResolveTarget(t[n], o)
           /\ IsUser(t[n]) => items[n].replyTo = RepliesTo(t[n], o)
  BY <1>s, <1>g, <1>i DEF AnswerIsMade
<1>2. ASSUME NEW n \in 1..Len(t), IsReaction(t[n]), Named(S, t[n].target) # {}
      PROVE  items[n].known = Writers(Named(S, t[n].target))
  <2>1. ASSUME NEW i \in 1..Len(S), ~IsReaction(S[i]), S[i].id = t[n].target, i \notin G
        PROVE  t[n].known = {WhoWrote(S[i])}
    <3>1. asks[c].mode = "photo" /\ IsBot(S[i])
      BY <1>s, <1>g, <2>1 DEF Given
    <3>2. PICK k \in 1..Len(o) : t[n] = o[k]
      BY <1>1
    <3>3. IsReaction(o[k]) /\ S[i].id = o[k].target
      BY <1>2, <2>1, <3>2
    <3>4. o[k].known = {WhoWrote(S[i])}
      BY <1>1, <3>1, <3>3, Zenon DEF KnowsTheBots
    <3> QED
      BY <3>2, <3>4
  <2>2. PICK r : r = t[n]
    OBVIOUS
  <2>3. PICK p : Shows(o, S, G, p)
    BY <1>1
  <2>4. /\ S \in Seq(HistoryEntries) /\ NamesItsMessages(S) /\ G \in SUBSET (1..Len(S))
        /\ o \in Seq(HistoryEntries) /\ Named(S, r.target) # {}
        /\ KnowsOthers(S, G, r)
    BY <1>1, <1>2, <2>1, <2>2, Zenon DEF KnowsOthers
  <2>5. ResolveTarget(r, o) = Writers(Named(S, r.target))
    BY <2>3, <2>4, ResolvedIsTold, ZenonT(30)
  <2> QED
    BY <1>1, <1>2, <2>2, <2>5
<1>3. ASSUME NEW n \in 1..Len(t), IsUser(t[n]), asks[c].mode = "reply"
      PROVE  items[n].replyTo = WriterNames(Named(S, t[n].replyTo))
  <2>1. G = 1..Len(S)
    BY <1>1, <1>3, <1>s, <1>g DEF Given
  <2>2. RepliesTo(t[n], o) = WriterNames(Named(S, t[n].replyTo))
    BY <1>1, <2>1, RepliesAreTold
  <2> QED
    BY <1>1, <1>3, <2>2
<1>4. ASSUME NEW n \in DOMAIN asked[c].items, NEW e, e = asked[c].items[n].entry
      PROVE  /\ IsReaction(e) /\ Named(S, e.target) # {} =>
                  asked[c].items[n].known = Writers(Named(S, e.target))
             /\ IsUser(e) /\ asks[c].mode = "reply" =>
                  asked[c].items[n].replyTo = WriterNames(Named(S, e.replyTo))
  <2>1. n \in 1..Len(t) /\ e = t[n]
    BY <1>1, <1>4, <1>i
  <2> QED
    BY <1>2, <1>3, <1>i, <2>1
<1> QED
  BY <1>4, <1>s DEF AuthorsAreTold

LEMMA AnswerTellsDialogue ==
  ASSUME NEW c, NEW o, NEW t, AnswerIsMade(c, Sources(asks[c]), Given(c), o, t),
         asks[c].mode \in {"reply", "photo"},
         NEW o1 \in Seq(HistoryEntries), Ordered(o1), \E p : Shows(o1, Sources(asks[c]), Given(c), p),
         LastUserMessageIndex(o1) # 0,
         asks[c].mode = "reply" => o1[LastUserMessageIndex(o1)].meaningful
  PROVE  DialogueIsTheHistory(c)
<1>s. PICK S : S = Sources(asks[c])
  OBVIOUS
<1>g. PICK G : G = Given(c)
  OBVIOUS
<1>i. PICK items : items = asked[c].items
  OBVIOUS
<1>h. PICK H : H = Shown(S, G)
  OBVIOUS
<1>r. PICK trigger : trigger = LastUserMessageIndex(o1)
  OBVIOUS
<1>l. PICK last : last = LastUserMessageIndex(t)
  OBVIOUS
<1>1. /\ S \in Seq(HistoryEntries) /\ NamesItsMessages(S) /\ G \in SUBSET (1..Len(S))
      /\ t \in Seq(HistoryEntries) /\ Ordered(t)
      /\ \E q : Shows(t, S, H, q)
      /\ DOMAIN items = 1..Len(t) /\ Len(items) = Len(t)
      /\ \A n \in 1..Len(t) :
           /\ items[n].entry = t[n]
           /\ items[n].now <=> IsUser(t[n]) /\ n = last
           /\ items[n].role = "assistant" <=> IsBot(t[n])
           /\ IsReaction(t[n]) => items[n].turn = AssistantTurn(t, t[n].target)
  BY <1>s, <1>g, <1>i, <1>h, <1>l DEF AnswerIsMade
<1>p. PICK p : Shows(o1, S, G, p)
  BY <1>s, <1>g
<1>q. PICK q : Shows(t, S, H, q)
  BY <1>1
<1>2. H \in SUBSET (1..Len(S)) /\ \A i \in H : i \in G
  BY <1>1, <1>h DEF Shown
<1>3. \A i \in G : IsUser(S[i]) => i \in H
  BY <1>h DEF Shown, IsUser, IsBot
<1>4. trigger \in 1..Len(o1) /\ IsUser(o1[trigger])
  BY <1>r, LastUserFacts
<1>5. p[trigger] \in G /\ Alike(o1[trigger], S[p[trigger]]) /\ IsUser(S[p[trigger]])
  <2>1. p[trigger] \in G /\ Alike(o1[trigger], S[p[trigger]])
    BY <1>4, <1>p DEF Shows
  <2> QED
    BY <1>4, <2>1, AlikeEntries
<1>6. \A v \in G : IsUser(S[v]) => ~Earlier(o1[trigger], S[v])
  BY <1>1, <1>5, <1>p, <1>r, LastUserIsLatest
<1>7. /\ last \in 1..Len(t) /\ IsUser(t[last])
      /\ \A v \in H : IsUser(S[v]) => ~Earlier(t[last], S[v])
  BY <1>1, <1>2, <1>3, <1>5, <1>q, <1>l, LastUserIsLatest
<1>8. q[last] \in H /\ Alike(t[last], S[q[last]]) /\ IsUser(S[q[last]])
  <2>1. q[last] \in H /\ Alike(t[last], S[q[last]])
    BY <1>7, <1>q DEF Shows
  <2> QED
    BY <1>7, <2>1, AlikeEntries
<1>9. o1[trigger].meaningful => t[last].meaningful
  <2>1. /\ p[trigger] \in G /\ q[last] \in G
        /\ ~Earlier(o1[trigger], S[q[last]]) /\ ~Earlier(t[last], S[p[trigger]])
    BY <1>2, <1>3, <1>5, <1>6, <1>7, <1>8
  <2>2. PICK i, j : i = p[trigger] /\ j = q[last]
    OBVIOUS
  <2>3. PICK a, b : a = o1[trigger] /\ b = t[last]
    OBVIOUS
  <2>4. /\ i \in G /\ j \in G /\ IsUser(S[i]) /\ IsUser(S[j])
        /\ Alike(a, S[i]) /\ ~Earlier(a, S[j]) /\ Alike(b, S[j]) /\ ~Earlier(b, S[i])
    BY <1>5, <1>8, <2>1, <2>2, <2>3
  <2>5. S \in Seq(HistoryEntries) /\ NamesItsMessages(S) /\ G \in SUBSET (1..Len(S))
    BY <1>1
  <2>6. a.meaningful => b.meaningful
    BY <2>4, <2>5, SameLastUser, Zenon
  <2> QED
    BY <2>3, <2>6
<1>10. Len(items) = Cardinality(H)
  BY <1>1, <1>q, ShownAreAsMany
<1>11. ASSUME NEW i \in H
       PROVE  \E n \in DOMAIN items : Alike(items[n].entry, S[i])
  <2>1. PICK n \in 1..Len(t) : q[n] = i
    BY <1>q DEF Shows
  <2>2. Alike(t[n], S[i])
    BY <1>q, <2>1 DEF Shows
  <2> QED
    BY <1>1, <2>2
<1>12. \A m, n \in DOMAIN items : m < n => ~Earlier(items[n].entry, items[m].entry)
  BY <1>1 DEF Ordered
<1>13. Marked(c) = {last}
  BY <1>1, <1>7, <1>i DEF Marked
<1>14. /\ last \in DOMAIN items /\ IsUser(items[last].entry)
       /\ \A u \in G : IsUser(S[u]) => ~Earlier(items[last].entry, S[u])
       /\ asks[c].mode = "reply" => items[last].entry.meaningful
  BY <1>1, <1>3, <1>7, <1>9, <1>r
<1>15. \A n : n \in Turns(c) <=> n \in 1..Len(t) /\ IsBot(t[n])
  BY <1>1, <1>i DEF Turns
<1>16. ASSUME NEW n \in DOMAIN items, IsReaction(items[n].entry)
       PROVE  CountsTo(items[n].turn, Turns(c), TurnsTo(c, items[n].entry.target))
  <2>i. PICK id : id = items[n].entry.target
    OBVIOUS
  <2>1. items[n].turn = AssistantTurn(t, id)
    BY <1>1, <1>16, <2>i
  <2>2. \A k : k \in TurnsTo(c, id) <=> k \in Turns(c) /\ t[k].id = id
    BY <1>1, <1>15, <1>i DEF TurnsTo
  <2>3. CountsTo(AssistantTurn(t, id), Turns(c), TurnsTo(c, id))
    BY <1>1, <1>15, <2>2, TurnsAreTold
  <2> QED
    BY <2>1, <2>3, <2>i
<1>17. \A i \in H : \E n \in DOMAIN items :
         /\ items[n].entry.kind = S[i].kind /\ items[n].entry.id = S[i].id
         /\ items[n].entry.update = S[i].update
  BY <1>11 DEF Alike
<1> QED
  BY <1>10, <1>12, <1>13, <1>14, <1>16, <1>17, <1>s, <1>g, <1>h, <1>i DEF DialogueIsTheHistory
-------------------------------------------------------------------------------
(***************************************************************************)
(* What a ping is made of                                                  *)
(***************************************************************************)

LEMMA PicksRange ==
  ASSUME NEW list \in Seq(HistoryEntries), NEW h, NEW I, NEW p, Picks(list, h, I, p)
  PROVE  \A e : e \in Range(list) <=> \E i \in I : e = h[i]
<1>1. DOMAIN list = 1..Len(list)
  OBVIOUS
<1> QED
  BY <1>1 DEF Range, Picks

LEMMA RangeOfOrdered ==
  ASSUME NEW h \in Seq(HistoryEntries)
  PROVE  OrderedHistory(h) \in Seq(HistoryEntries) /\ \A e : e \in Range(OrderedHistory(h)) <=> e \in Range(h)
<1>o. PICK o : o = OrderedHistory(h)
  OBVIOUS
<1>1. o \in Seq(HistoryEntries) /\ \E p : Picks(o, h, 1..Len(h), p)
  BY <1>o, OrderedFacts
<1>2. \A e : e \in Range(o) <=> \E i \in 1..Len(h) : e = h[i]
  BY <1>1, PicksRange
<1>3. \A e : e \in Range(h) <=> \E i \in 1..Len(h) : e = h[i]
  BY DEF Range
<1> QED
  BY <1>1, <1>2, <1>3, <1>o

(* What a filter keeps. *)
LEMMA RangeOfOnly ==
  ASSUME NEW h \in Seq(HistoryEntries), NEW I \in SUBSET (1..Len(h))
  PROVE  Only(h, I) \in Seq(HistoryEntries) /\ \A e : e \in Range(Only(h, I)) <=> \E i \in I : e = h[i]
<1>1. Only(h, I) \in Seq(HistoryEntries) /\ Picks(Only(h, I), h, I, Increasing(I))
  BY OnlyFacts
<1> QED
  BY <1>1, PicksRange

IsSection(s, name, entries, users) ==
  /\ s \in Seq(Range(s))
  /\ \A m : m \in Range(s) <=> \E e \in Range(entries) : m = TaskItem(name, e, users)

LEMMA RangeOfSection ==
  ASSUME NEW name, NEW entries \in Seq(HistoryEntries), NEW users
  PROVE  IsSection(Section(name, entries, users), name, entries, users)
<1>s. PICK s : s = Section(name, entries, users)
  OBVIOUS
<1>m. PICK made : made = [n \in 1..Len(entries) |-> TaskItem(name, entries[n], users)]
  OBVIOUS
<1>1. DOMAIN entries = 1..Len(entries) /\ Len(entries) \in Nat
  OBVIOUS
<1>2. s = made
  BY <1>1, <1>s, <1>m DEF Section
<1>3. made \in [1..Len(entries) -> Range(made)]
  BY <1>m DEF Range
<1>4. made \in Seq(Range(made))
  BY <1>1, <1>3
<1>5. \A m : m \in Range(made) <=>
        \E n \in 1..Len(entries) : m = TaskItem(name, entries[n], users)
  BY <1>m DEF Range
<1>6. \A e : e \in Range(entries) <=> \E n \in 1..Len(entries) : e = entries[n]
  BY <1>1 DEF Range
<1> QED
  BY <1>2, <1>4, <1>5, <1>6, <1>s DEF IsSection

LEMMA RangeOfReactions ==
  ASSUME NEW entries \in Seq(HistoryEntries), NEW h
  PROVE  LET s == [n \in DOMAIN entries |-> FormatReaction("reactions", entries[n], h, 0)] IN
         /\ s \in Seq(Range(s))
         /\ \A m : m \in Range(s) <=> \E e \in Range(entries) : m = FormatReaction("reactions", e, h, 0)
<1>m. PICK made : made = [n \in DOMAIN entries |-> FormatReaction("reactions", entries[n], h, 0)]
  OBVIOUS
<1>1. DOMAIN entries = 1..Len(entries) /\ Len(entries) \in Nat
  OBVIOUS
<1>2. made \in [1..Len(entries) -> Range(made)]
  BY <1>1, <1>m DEF Range
<1>3. made \in Seq(Range(made))
  BY <1>1, <1>2
<1>4. \A m : m \in Range(made) <=>
        \E n \in 1..Len(entries) : m = FormatReaction("reactions", entries[n], h, 0)
  BY <1>1, <1>m DEF Range
<1>5. \A e : e \in Range(entries) <=> \E n \in 1..Len(entries) : e = entries[n]
  BY <1>1 DEF Range
<1> QED
  BY <1>3, <1>4, <1>5, <1>m

LEMMA RangeOfJoined ==
  ASSUME NEW X, NEW a \in Seq(X), NEW b \in Seq(X)
  PROVE  a \o b \in Seq(X) /\ \A m : m \in Range(a \o b) <=> m \in Range(a) \/ m \in Range(b)
<1>j. PICK j : j = a \o b
  OBVIOUS
<1>1. /\ j \in Seq(X) /\ Len(j) = Len(a) + Len(b) /\ Len(a) \in Nat /\ Len(b) \in Nat
      /\ DOMAIN j = 1..Len(j) /\ DOMAIN a = 1..Len(a) /\ DOMAIN b = 1..Len(b)
  BY <1>j
<1>2. /\ \A n \in 1..Len(a) : j[n] = a[n] /\ n \in 1..Len(j)
      /\ \A n \in 1..Len(b) : j[Len(a) + n] = b[n] /\ Len(a) + n \in 1..Len(j)
  BY <1>1, <1>j
<1>3. \A n \in 1..Len(j) : n \in 1..Len(a) \/ (n - Len(a) \in 1..Len(b) /\ n = Len(a) + (n - Len(a)))
  BY <1>1
<1>4. ASSUME NEW m \in Range(j)
      PROVE  m \in Range(a) \/ m \in Range(b)
  <2>1. PICK n \in 1..Len(j) : m = j[n]
    BY <1>1 DEF Range
  <2>2. CASE n \in 1..Len(a)
    BY <1>1, <1>2, <2>1, <2>2 DEF Range
  <2>3. CASE n - Len(a) \in 1..Len(b) /\ n = Len(a) + (n - Len(a))
    <3>1. PICK k : k = n - Len(a)
      OBVIOUS
    <3>2. m = b[k] /\ k \in 1..Len(b)
      BY <1>2, <2>1, <2>3, <3>1
    <3> QED
      BY <1>1, <3>2 DEF Range
  <2> QED
    BY <1>3, <2>2, <2>3
<1>5. ASSUME NEW m \in Range(a)
      PROVE  m \in Range(j)
  <2>1. PICK n \in 1..Len(a) : m = a[n]
    BY <1>1 DEF Range
  <2> QED
    BY <1>1, <1>2, <2>1 DEF Range
<1>6. ASSUME NEW m \in Range(b)
      PROVE  m \in Range(j)
  <2>1. PICK n \in 1..Len(b) : m = b[n]
    BY <1>1 DEF Range
  <2>2. PICK k : k = Len(a) + n
    OBVIOUS
  <2>3. m = j[k] /\ k \in DOMAIN j
    BY <1>1, <1>2, <2>1, <2>2
  <2> QED
    BY <2>3 DEF Range
<1> QED
  BY <1>1, <1>4, <1>5, <1>6, <1>j

LEMMA TagUsers ==
  ASSUME NEW h \in Seq(HistoryEntries)
  PROVE  /\ TagUserHistory(h) \in Seq(HistoryEntries)
         /\ \A e : e \in Range(TagUserHistory(h)) <=> e \in Range(h) /\ IsUser(e)
<1>i. PICK I : I = {i \in DOMAIN h : IsUser(h[i])}
  OBVIOUS
<1>k. PICK kept : kept = Only(h, I)
  OBVIOUS
<1>1. I \in SUBSET (1..Len(h))
  BY <1>i
<1>2. kept \in Seq(HistoryEntries) /\ \A e : e \in Range(kept) <=> \E i \in I : e = h[i]
  BY <1>1, <1>k, RangeOfOnly
<1>3. TagUserHistory(h) = OrderedHistory(kept)
  BY <1>i, <1>k, Zenon DEF TagUserHistory
<1>4. \A e : e \in Range(kept) <=> e \in Range(h) /\ IsUser(e)
  BY <1>2, <1>i DEF Range
<1> QED
  BY <1>2, <1>3, <1>4, RangeOfOrdered

LEMMA TaskIsMadeOf ==
  ASSUME NEW h \in Seq(HistoryEntries), NEW recipient, NEW users, users = TagUserHistory(h),
         NEW items, items = BuildTagCompletions(h, recipient)
  PROVE  \A m : m \in Range(items) <=>
           \/ \E e \in Range(users) : IsOwn(e, recipient) /\ m = TaskItem("own", e, users)
           \/ \E e \in Range(users) : ~IsOwn(e, recipient) /\ m = TaskItem("background", e, users)
           \/ \E e \in Range(h) : IsReaction(e) /\ m = FormatReaction("reactions", e, h, 0)
<1>o. PICK own : own = {n \in DOMAIN users : IsOwn(users[n], recipient)}
  OBVIOUS
<1>s. PICK sorted : sorted = OrderedHistory(h)
  OBVIOUS
<1>r. PICK at : at = {n \in DOMAIN sorted : IsReaction(sorted[n])}
  OBVIOUS
<1>e. PICK theirs : theirs = Only(users, own)
  OBVIOUS
<1>b. PICK others : others = Only(users, DOMAIN users \ own)
  OBVIOUS
<1>a. PICK reactions : reactions = Only(sorted, at)
  OBVIOUS
<1>x. PICK A : A = Section("own", theirs, users)
  OBVIOUS
<1>y. PICK B : B = Section("background", others, users)
  OBVIOUS
<1>z. PICK C : C = [n \in DOMAIN reactions |-> FormatReaction("reactions", reactions[n], h, 0)]
  OBVIOUS
<1>1. items = (A \o B) \o C
  BY <1>o, <1>s, <1>r, <1>e, <1>b, <1>a, <1>x, <1>y, <1>z, Zenon DEF BuildTagCompletions
<1>2. users \in Seq(HistoryEntries) /\ sorted \in Seq(HistoryEntries)
      /\ \A e : e \in Range(sorted) <=> e \in Range(h)
  BY <1>s, TagUsers, RangeOfOrdered
<1>3. /\ own \in SUBSET (1..Len(users)) /\ (DOMAIN users \ own) \in SUBSET (1..Len(users))
      /\ at \in SUBSET (1..Len(sorted))
  BY <1>2, <1>o, <1>r
<1>4. theirs \in Seq(HistoryEntries) /\ \A e : e \in Range(theirs) <=> e \in Range(users) /\ IsOwn(e, recipient)
  <2>1. theirs \in Seq(HistoryEntries) /\ \A e : e \in Range(theirs) <=> \E i \in own : e = users[i]
    BY <1>2, <1>3, <1>e, RangeOfOnly
  <2> QED
    BY <2>1, <1>o DEF Range
<1>5. others \in Seq(HistoryEntries) /\ \A e : e \in Range(others) <=> e \in Range(users) /\ ~IsOwn(e, recipient)
  <2>1. others \in Seq(HistoryEntries) /\ \A e : e \in Range(others) <=> \E i \in DOMAIN users \ own : e = users[i]
    BY <1>2, <1>3, <1>b, RangeOfOnly
  <2>2. \A e : (\E i \in DOMAIN users \ own : e = users[i]) <=> e \in Range(users) /\ ~IsOwn(e, recipient)
    BY <1>o DEF Range
  <2> QED
    BY <2>1, <2>2
<1>6. reactions \in Seq(HistoryEntries) /\ \A e : e \in Range(reactions) <=> e \in Range(h) /\ IsReaction(e)
  <2>1. reactions \in Seq(HistoryEntries) /\ \A e : e \in Range(reactions) <=> \E i \in at : e = sorted[i]
    BY <1>2, <1>3, <1>a, RangeOfOnly
  <2>2. \A e : e \in Range(reactions) <=> e \in Range(sorted) /\ IsReaction(e)
    BY <2>1, <1>r DEF Range
  <2> QED
    BY <1>2, <2>1, <2>2
<1>7. A \in Seq(Range(A))
      /\ \A m : m \in Range(A) <=>
           \E e \in Range(theirs) : m = TaskItem("own", e, users)
  <2>1. theirs \in Seq(HistoryEntries)
    BY <1>4
  <2> QED
    <3>1. IsSection(Section("own", theirs, users), "own", theirs, users)
      BY <2>1, RangeOfSection
    <3> QED
      BY <1>x, <3>1 DEF IsSection
<1>8. B \in Seq(Range(B))
      /\ \A m : m \in Range(B) <=>
           \E e \in Range(others) : m = TaskItem("background", e, users)
  <2>1. others \in Seq(HistoryEntries)
    BY <1>5
  <2> QED
    <3>1. IsSection(Section("background", others, users), "background", others, users)
      BY <2>1, RangeOfSection
    <3> QED
      BY <1>y, <3>1 DEF IsSection
<1>9. C \in Seq(Range(C))
      /\ \A m : m \in Range(C) <=> \E e \in Range(reactions) : m = FormatReaction("reactions", e, h, 0)
  <2>1. reactions \in Seq(HistoryEntries)
    BY <1>6
  <2> QED
    BY <1>z, <2>1, RangeOfReactions
<1>10. \A m : m \in Range(items) <=> m \in Range(A) \/ m \in Range(B) \/ m \in Range(C)
  <2>x. PICK X : X = Range(A) \cup Range(B) \cup Range(C)
    OBVIOUS
  <2>1. A \in Seq(X) /\ B \in Seq(X) /\ C \in Seq(X)
    BY <1>7, <1>8, <1>9, <2>x
  <2>2. A \o B \in Seq(X) /\ \A m : m \in Range(A \o B) <=> m \in Range(A) \/ m \in Range(B)
    BY <2>1, RangeOfJoined
  <2>3. \A m : m \in Range((A \o B) \o C) <=> m \in Range(A \o B) \/ m \in Range(C)
    <3>1. PICK AB : AB = A \o B
      OBVIOUS
    <3>2. AB \in Seq(X) /\ C \in Seq(X)
      BY <2>1, <2>2, <3>1
    <3>3. \A m : m \in Range(AB \o C) <=> m \in Range(AB) \/ m \in Range(C)
      BY <3>2, RangeOfJoined
    <3> QED
      BY <3>1, <3>3
  <2> QED
    BY <1>1, <2>2, <2>3
<1>11. \A m : m \in Range(A) <=>
         \E e \in Range(users) : IsOwn(e, recipient) /\ m = TaskItem("own", e, users)
  BY <1>4, <1>7
<1>12. \A m : m \in Range(B) <=>
         \E e \in Range(users) : ~IsOwn(e, recipient) /\ m = TaskItem("background", e, users)
  BY <1>5, <1>8
<1>13. \A m : m \in Range(C) <=> \E e \in Range(h) : IsReaction(e) /\ m = FormatReaction("reactions", e, h, 0)
  BY <1>6, <1>9
<1> QED
  BY <1>10, <1>11, <1>12, <1>13

LEMMA ItemFields ==
  /\ \A name, e, users :
       /\ TaskItem(name, e, users).entry = e /\ TaskItem(name, e, users).section = name
       /\ ~TaskItem(name, e, users).now /\ TaskItem(name, e, users).turn = 0
  /\ \A e, h :
       /\ FormatReaction("reactions", e, h, 0).entry = e
       /\ FormatReaction("reactions", e, h, 0).section = "reactions"
       /\ ~FormatReaction("reactions", e, h, 0).now /\ FormatReaction("reactions", e, h, 0).turn = 0
       /\ FormatReaction("reactions", e, h, 0).known = ResolveTarget(e, h)
BY DEF Item, TaskItem, FormatReaction

LEMMA PingTellsTheHistory ==
  ASSUME NEW c, CallFacts(c), asks[c].mode = "tag", ~Unavailable(c),
         asked[c].items = BuildTagCompletions(OrderedHistory(Entries(c)), asks[c].recipient)
  PROVE  TaskIsTheHistory(c) /\ AuthorsAreTold(c)
<1>h. PICK h : h = asks[c].history
  OBVIOUS
<1>c. PICK recipient : recipient = asks[c].recipient
  OBVIOUS
<1>o. PICK o : o = OrderedHistory(h)
  OBVIOUS
<1>u. PICK users : users = TagUserHistory(o)
  OBVIOUS
<1>i. PICK items : items = asked[c].items
  OBVIOUS
<1>1. h \in Seq(HistoryEntries) /\ NamesItsMessages(h) /\ Entries(c) = h /\ Sources(asks[c]) = h
  BY <1>h, AskTypes DEF CallFacts, Entries, Sources
<1>2. o \in Seq(HistoryEntries) /\ \A e : e \in Range(o) <=> e \in Range(h)
  BY <1>1, <1>o, RangeOfOrdered
<1>3. users \in Seq(HistoryEntries) /\ \A e : e \in Range(users) <=> e \in Range(h) /\ IsUser(e)
  BY <1>2, <1>u, TagUsers
<1>4. items = BuildTagCompletions(o, recipient)
  BY <1>1, <1>c, <1>i, <1>o
<1>5. \A m : m \in Range(items) <=>
           \/ \E e \in Range(users) : IsOwn(e, recipient) /\ m = TaskItem("own", e, users)
           \/ \E e \in Range(users) : ~IsOwn(e, recipient) /\ m = TaskItem("background", e, users)
           \/ \E e \in Range(o) : IsReaction(e) /\ m = FormatReaction("reactions", e, o, 0)
  BY <1>2, <1>4, <1>u, TaskIsMadeOf
<1>6. ASSUME NEW m \in Range(items)
      PROVE  /\ ~m.now /\ m.turn = 0 /\ m.entry \in Range(h)
             /\ m.section = "own" <=> IsUser(m.entry) /\ IsOwn(m.entry, recipient)
             /\ m.section = "reactions" <=> IsReaction(m.entry)
             /\ ~IsBot(m.entry)
             /\ IsReaction(m.entry) => m.known = ResolveTarget(m.entry, o)
  <2>1. CASE \E e \in Range(users) : IsOwn(e, recipient) /\ m = TaskItem("own", e, users)
    BY <1>3, <2>1, ItemFields DEF IsUser, IsBot, IsReaction
  <2>2. CASE \E e \in Range(users) : ~IsOwn(e, recipient) /\ m = TaskItem("background", e, users)
    BY <1>3, <2>2, ItemFields DEF IsUser, IsBot, IsReaction
  <2>3. CASE \E e \in Range(o) : IsReaction(e) /\ m = FormatReaction("reactions", e, o, 0)
    BY <1>2, <2>3, ItemFields DEF IsUser, IsBot, IsReaction
  <2> QED
    BY <1>5, <2>1, <2>2, <2>3
<1>7. ASSUME NEW e \in Range(h), ~IsBot(e)
      PROVE  \E m \in Range(items) : m.entry = e
  <2>1. IsUser(e) \/ IsReaction(e)
    <3>1. e \in HistoryEntries
      BY <1>1 DEF Range
    <3> QED
      BY <1>7, <3>1, EntryFields DEF IsUser, IsBot, IsReaction
  <2>2. CASE IsUser(e) /\ IsOwn(e, recipient)
    <3>1. PICK m : m = TaskItem("own", e, users)
      OBVIOUS
    <3> QED
      BY <1>3, <1>5, <2>2, <3>1, ItemFields
  <2>3. CASE IsUser(e) /\ ~IsOwn(e, recipient)
    <3>1. PICK m : m = TaskItem("background", e, users)
      OBVIOUS
    <3> QED
      BY <1>3, <1>5, <2>3, <3>1, ItemFields
  <2>4. CASE IsReaction(e)
    <3>1. PICK m : m = FormatReaction("reactions", e, o, 0)
      OBVIOUS
    <3> QED
      BY <1>2, <1>5, <2>4, <3>1, ItemFields
  <2> QED
    BY <2>1, <2>2, <2>3, <2>4
<1>t. PICK told : told = {m.entry : m \in Range(items)}
  OBVIOUS
<1>8. \A e : e \in told <=> e \in Range(h) /\ ~IsBot(e)
  BY <1>6, <1>7, <1>t
<1>9. \A e \in told : \E m \in Range(items) : m.entry = e
  BY <1>t
<1>10. {m.entry : m \in {x \in Range(items) : x.section = "own"}} = {e \in told : IsUser(e) /\ IsOwn(e, recipient)}
  BY <1>6, <1>9, <1>t
<1>11. {m.entry : m \in {x \in Range(items) : x.section = "reactions"}} = {e \in told : IsReaction(e)}
  BY <1>6, <1>9, <1>t
<1>12. {m.entry : m \in {x \in Range(items) : x.section = "own"}} # {}
  <2>1. PICK i \in DOMAIN users : IsOwn(users[i], recipient)
    BY <1>1, <1>c, <1>o, <1>u DEF Unavailable
  <2>2. users[i] \in Range(users)
    BY <2>1 DEF Range
  <2> QED
    BY <1>3, <1>8, <1>10, <2>1, <2>2 DEF IsUser, IsBot
<1>13. TaskIsTheHistory(c)
  <2>1. {m.entry : m \in {x \in Range(items) : x.section = "own"}}
          = {e \in told : IsUser(e) /\ e.sender > 0 /\ e.sender = recipient}
    BY <1>10 DEF IsOwn
  <2>2. told = {e \in Range(h) : ~IsBot(e)}
    BY <1>8
  <2> QED
    BY <1>6, <1>11, <1>12, <1>t, <1>i, <1>h, <1>c, <2>1, <2>2 DEF TaskIsTheHistory
<1>14. AuthorsAreTold(c)
  <2>1. ASSUME NEW n \in DOMAIN asked[c].items, NEW e, e = asked[c].items[n].entry,
               IsReaction(e), Named(h, e.target) # {}
        PROVE  asked[c].items[n].known = Writers(Named(h, e.target))
    <3>1. asked[c].items[n] \in Range(items)
      BY <1>i DEF Range
    <3>2. asked[c].items[n].known = ResolveTarget(e, o)
      BY <1>6, <2>1, <3>1
    <3>3. h \in Seq(HistoryEntries) /\ DOMAIN h \in SUBSET (1..Len(h)) /\ DOMAIN h = 1..Len(h)
      BY <1>1
    <3>4. \E p : Shows(o, h, DOMAIN h, p)
      BY <1>1, <1>o, ShowsAll, OrderedShows
    <3>5. KnowsOthers(h, DOMAIN h, e)
      BY <3>3 DEF KnowsOthers
    <3>6. ResolveTarget(e, o) = Writers(Named(h, e.target))
      BY <1>1, <1>2, <2>1, <3>3, <3>4, <3>5, ResolvedIsTold
    <3> QED
      BY <3>2, <3>6
  <2> QED
    BY <1>1, <2>1 DEF AuthorsAreTold
<1> QED
  BY <1>13, <1>14
-------------------------------------------------------------------------------
(* What is asked does not change, and a prompt that was sent is the one    *)
(* that is made of it, in a call that the model could answer.              *)
CallsAreReal == \A c \in Made : CallFacts(c)
PromptsAreBuilt ==
  /\ DOMAIN asked = Made
  /\ \A c \in Made :
       /\ phase[c] = "prompt" => ~Unavailable(c)
       /\ asked[c] # NoPrompt => ~Unavailable(c) /\ asked[c].items = Completions(c)
PromptInv == CallsAreReal /\ PromptsAreBuilt

LEMMA SameAsk ==
  ASSUME UNCHANGED asks, NEW c
  PROVE  /\ Made' = Made /\ CallFacts(c)' = CallFacts(c)
         /\ Unavailable(c)' = Unavailable(c) /\ Completions(c)' = Completions(c)
BY DEF Made, CallFacts, Unavailable, Completions, Entries

LEMMA PromptInit == Init => PromptInv
<1> SUFFICES ASSUME Init PROVE PromptInv
  OBVIOUS
<1>1. asks \in Scenarios
  BY DEF Init
<1>2. CallsAreReal
  BY <1>1, ScenariosAssumption DEF CallsAreReal, CallFacts, Made
<1>3. PromptsAreBuilt
  BY DEF Init, PromptsAreBuilt
<1> QED
  BY <1>2, <1>3 DEF PromptInv

LEMMA PromptStays ==
  ASSUME Types, PromptInv, UNCHANGED <<asks, asked>>, \A d \in Made : phase'[d] = "prompt" => ~Unavailable(d)
  PROVE  PromptInv'
<1>1. CallsAreReal'
  BY SameAsk DEF PromptInv, CallsAreReal
<1>2. PromptsAreBuilt'
  BY SameAsk DEF PromptInv, PromptsAreBuilt, NoPrompt
<1> QED
  BY <1>1, <1>2 DEF PromptInv

LEMMA PromptStep == Inv /\ PromptInv /\ [Next]_vars => PromptInv'
<1> SUFFICES ASSUME Inv, PromptInv, [Next]_vars PROVE PromptInv'
  OBVIOUS
<1>t. Types
  BY DEF Inv
<1>p. \A d \in Made : phase[d] = "prompt" => ~Unavailable(d)
  BY DEF PromptInv, PromptsAreBuilt
<1>m. ASSUME NEW c \in Made, NEW next \in Phases, GoesTo(c, next), UNCHANGED <<asks, asked>>,
             next = "prompt" => ~Unavailable(c)
      PROVE  PromptInv'
  <2>1. phase'[c] = next /\ \A d \in Made : d # c => phase'[d] = phase[d]
    BY <1>m, <1>t, Moves
  <2> QED
    BY <1>m, <1>p, <1>t, <2>1, PromptStays
<1>1. CASE ReloadMessages \/ UNCHANGED vars \/ (TokenLapses /\ UNCHANGED generator)
  <2>1. UNCHANGED <<phase, asks, asked>>
    BY <1>1 DEF ReloadMessages, TokenLapses, vars, generator
  <2> QED
    BY <1>p, <1>t, <2>1, PromptStays
<1>2. ASSUME NEW c \in Made, GenerateContent(c), UNCHANGED generator
      PROVE  PromptInv'
  <2>1. PICK next \in Phases : GoesTo(c, next) /\ next # "prompt"
    BY <1>2 DEF GenerateContent, TokenIsCached, AskToken, GetToken, UploadImage, Chat, WaitForRetry,
                CallerGivesUp, Phases, Sending
  <2>2. UNCHANGED <<asks, asked>>
    BY <1>2 DEF generator
  <2> QED
    BY <1>m, <2>1, <2>2
<1>3. ASSUME NEW c \in Made, Decide(c)
      PROVE  PromptInv'
  <2>1. PICK next \in {"prompt", "list"} : GoesTo(c, next) /\ (next = "prompt" => ~Unavailable(c))
    BY <1>3 DEF Decide
  <2>2. UNCHANGED <<asks, asked>> /\ next \in Phases
    BY <1>3 DEF Decide, generator, Phases
  <2> QED
    BY <1>m, <2>1, <2>2
<1>4. ASSUME NEW c \in Made, SendPrompt(c)
      PROVE  PromptInv'
  <2>1. /\ UNCHANGED asks /\ phase[c] = "prompt" /\ GoesTo(c, "model") /\ "model" \in Phases
        /\ asked' = [asked EXCEPT ![c] = [examples |-> examples, items |-> Completions(c)]]
    BY <1>4 DEF SendPrompt, Phases
  <2>2. phase'[c] = "model" /\ \A d \in Made : d # c => phase'[d] = phase[d]
    BY <1>t, <2>1, Moves
  <2>3. CallsAreReal'
    BY <2>1, SameAsk DEF PromptInv, CallsAreReal
  <2>4. /\ DOMAIN asked' = Made /\ asked'[c].items = Completions(c)
        /\ \A d \in Made : d # c => asked'[d] = asked[d]
    BY <2>1 DEF PromptInv, PromptsAreBuilt
  <2>5. ~Unavailable(c)
    BY <1>p, <2>1
  <2>6. PromptsAreBuilt'
    <3>1. ASSUME NEW d \in Made
          PROVE  /\ phase'[d] = "prompt" => ~Unavailable(d)
                 /\ asked'[d] # NoPrompt => ~Unavailable(d) /\ asked'[d].items = Completions(d)
      BY <2>2, <2>4, <2>5 DEF PromptInv, PromptsAreBuilt
    <3> QED
      BY <2>1, <2>4, <3>1, SameAsk DEF PromptsAreBuilt, NoPrompt
  <2> QED
    BY <2>3, <2>6 DEF PromptInv
<1>5. ASSUME NEW c \in Made, ModelAnswers(c) \/ TakePhrase(c)
      PROVE  PromptInv'
  <2>1. PICK next \in {"done", "list", "panic"} : GoesTo(c, next)
    BY <1>5 DEF ModelAnswers, TakePhrase
  <2>2. UNCHANGED <<asks, asked>> /\ next \in Phases /\ next # "prompt"
    BY <1>5, <2>1 DEF ModelAnswers, TakePhrase, Phases
  <2> QED
    BY <1>m, <2>1, <2>2
<1> QED
  BY <1>1, <1>2, <1>3, <1>4, <1>5 DEF Next

LEMMA PromptTells == PromptInv => PromptTellsTheHistory
<1> SUFFICES ASSUME PromptInv, NEW c \in Made, asked[c] # NoPrompt
             PROVE  /\ IF asks[c].mode = "tag" THEN TaskIsTheHistory(c) ELSE DialogueIsTheHistory(c)
                    /\ AuthorsAreTold(c)
  BY DEF PromptTellsTheHistory
<1>1. CallFacts(c) /\ ~Unavailable(c) /\ asked[c].items = Completions(c)
  BY DEF PromptInv, CallsAreReal, PromptsAreBuilt
<1>o. PICK o : o = OrderedHistory(Entries(c))
  OBVIOUS
<1>2. CASE asks[c].mode = "tag"
  <2>1. asked[c].items = BuildTagCompletions(OrderedHistory(Entries(c)), asks[c].recipient)
    BY <1>1, <1>2 DEF Completions
  <2> QED
    BY <1>1, <1>2, <2>1, PingTellsTheHistory
<1>3. CASE asks[c].mode # "tag"
  <2>1. asks[c].mode \in {"reply", "photo"}
    BY <1>1, <1>3, AskTypes
  <2>2. asked[c].items = BuildChatCompletions(o)
    BY <1>1, <1>3, <1>o DEF Completions
  <2>3. /\ o \in Seq(HistoryEntries) /\ Ordered(o) /\ \E p : Shows(o, Sources(asks[c]), Given(c), p)
        /\ AnswerIsMade(c, Sources(asks[c]), Given(c), OrderedHistory(o),
                        WithoutLeadingBotEntries(OrderedHistory(o)))
    BY <1>1, <1>3, <1>o, <2>2, AnswerIsMadeOf
  <2>4. /\ LastUserMessageIndex(o) # 0
        /\ asks[c].mode = "reply" => o[LastUserMessageIndex(o)].meaningful
    BY <1>1, <1>o DEF Unavailable
  <2>t. PICK sorted, t : sorted = OrderedHistory(o) /\ t = WithoutLeadingBotEntries(sorted)
    OBVIOUS
  <2>m. AnswerIsMade(c, Sources(asks[c]), Given(c), sorted, t)
    BY <2>3, <2>t
  <2>5. DialogueIsTheHistory(c)
    BY <2>1, <2>3, <2>4, <2>m, AnswerTellsDialogue
  <2>6. AuthorsAreTold(c)
    BY <2>1, <2>m, AnswerTellsAuthors
  <2> QED
    BY <1>3, <2>5, <2>6
<1> QED
  BY <1>2, <1>3

(* Whatever the order in which messages and reactions were recorded, and   *)
(* whatever the bot's own answers among them: an answer's prompt shows     *)
(* what happened once and in order and marks the message the filter looked *)
(* at, a ping's prompt tells the recipient's words apart from the others', *)
(* and both tell whose message a reaction or an answer was to              *)
(* (completions.go: buildChatCompletions, tag_prompt.go:                   *)
(* buildTagCompletions, history_prompt.go: orderedHistory).                *)
THEOREM PromptAlwaysTellsTheHistory == Spec => []PromptTellsTheHistory
<1>1. Init => Inv /\ PromptInv
  BY InvInit, PromptInit
<1>2. Inv /\ PromptInv /\ [Next]_vars => (Inv /\ PromptInv)'
  BY InvStep, PromptStep
<1>3. Inv /\ PromptInv => PromptTellsTheHistory
  BY PromptTells
<1> QED
  BY <1>1, <1>2, <1>3, PTL DEF Spec
===============================================================================
