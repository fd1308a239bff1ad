---------------------------- MODULE CorpusProofs -----------------------------
(***************************************************************************)
(* Proofs about Corpus: what the loops over samples and the lists of       *)
(* tokens are made of, then the four invariants of its run.                *)
(***************************************************************************)
EXTENDS Corpus, CommonLemmas, FiniteSetTheorems

-----------------------------------------------------------------------------
(* The operators are reached through the instances.                        *)
LEMMA PickedIsOne ==
  ASSUME NEW s, NEW places
  PROVE  G!Picked(s, places) = Picked(s, places) /\ P!Picked(s, places) = Picked(s, places)
BY DEF G!Picked, P!Picked, Picked, G!PickedUpTo, P!PickedUpTo, PickedUpTo

LEMMA FlattenIsOne ==
  ASSUME NEW ss
  PROVE  /\ G!FlattenSeq(ss) = FlattenSeq(ss) /\ P!FlattenSeq(ss) = FlattenSeq(ss)
         /\ B!FlattenSeq(ss) = FlattenSeq(ss)
BY DEF G!FlattenSeq, P!FlattenSeq, B!FlattenSeq, FlattenSeq

LEMMA GreatestNumber ==
  ASSUME NEW n \in Nat, NEW T \in SUBSET (1..n), T # {}
  PROVE  P!Max(T) \in T /\ \A x \in T : x <= P!Max(T)
PROOF
<1> DEFINE D == {n - x : x \in T}
<1>1. D \in SUBSET Nat /\ D # {}
  <2>1. \A x \in T : n - x \in Nat OBVIOUS
  <2>2. PICK x \in T : TRUE OBVIOUS
  <2> QED BY <2>1, <2>2
<1>2. PICK d \in D : \A y \in D : d <= y
  BY <1>1, LeastNumber
<1>3. PICK m \in T : d = n - m
  OBVIOUS
<1>4. \A x \in T : m >= x
  <2> TAKE x \in T
  <2>1. n - m <= n - x BY <1>2, <1>3
  <2> QED BY <2>1
<1>5. P!Max(T) \in T /\ \A x \in T : P!Max(T) >= x
  BY <1>4 DEF P!Max
<1> QED BY <1>5

-----------------------------------------------------------------------------
(* Prepare: what a converted conversation holds.                           *)

(* The response is the last turn of the assistant, or there is none.       *)
LEMMA LastOfAssistant ==
  ASSUME NEW c, P!IsSequence(c)
  PROVE  /\ P!LastAssistant(c) \in 0..Len(c) /\ Len(c) \in Nat
         /\ \A i \in 1..Len(c) : c[i].role = "assistant" => i <= P!LastAssistant(c)
         /\ P!LastAssistant(c) # 0 => c[P!LastAssistant(c)].role = "assistant"
PROOF
<1> DEFINE I == {i \in 1..Len(c) : c[i].role = "assistant"}
<1>1. c \in Seq({c[i] : i \in DOMAIN c}) /\ Len(c) \in Nat
  BY DEF P!IsSequence
<1>2. P!LastAssistant(c) = IF I # {} THEN P!Max(I) ELSE 0
  BY DEF P!LastAssistant, P!SelectLastInSeq
<1>3. CASE I = {}
  BY <1>1, <1>2, <1>3
<1>4. CASE I # {}
  <2>1. I \in SUBSET (1..Len(c)) OBVIOUS
  <2>2. P!Max(I) \in I /\ \A x \in I : x <= P!Max(I)
    <3> HIDE DEF I
    <3> QED BY <1>1, <1>4, <2>1, GreatestNumber
  <2> QED BY <1>1, <1>2, <1>4, <2>2
<1> QED BY <1>3, <1>4

(* Parts of a prompt: they come from the first turns, all of them.         *)
Sources(prompt) == {prompt[i].from : i \in DOMAIN prompt}

LEMMA PartsOfTurns ==
  ASSUME NEW c, NEW n \in Nat
  PROVE  /\ Sources(P!Parts(c, n)) = 1..n
         /\ Len(P!Parts(c, n)) \in Nat /\ DOMAIN P!Parts(c, n) = 1..Len(P!Parts(c, n))
PROOF
<1> DEFINE tags(i) == P!Tags(c[i])
           T == {[tag |-> tags(p[1])[p[2]], from |-> p[1]] : p \in (1..n) \X {1, 2}}
           ss == [i \in 1..n |-> [k \in DOMAIN tags(i) |-> [tag |-> tags(i)[k], from |-> i]]]
<1>1. ASSUME NEW i \in 1..n
      PROVE  DOMAIN tags(i) \in {1..1, 1..2}
  BY DEF P!Tags, P!Calls
<1>2. ASSUME NEW i \in 1..n
      PROVE  /\ ss[i] \in Seq(T) /\ Len(ss[i]) \in {1, 2}
             /\ \A k \in 1..Len(ss[i]) : ss[i][k].from = i
  <2>1. PICK m \in {1, 2} : DOMAIN tags(i) = 1..m
    BY <1>1
  <2>2. ss[i] = [k \in 1..m |-> [tag |-> tags(i)[k], from |-> i]]
    BY <2>1
  <2>3. \A k \in 1..m : k \in {1, 2}
    BY <2>1
  <2>4. \A k \in 1..m : [tag |-> tags(i)[k], from |-> i] \in T
    <3> TAKE k \in 1..m
    <3>1. <<i, k>> \in (1..n) \X {1, 2} BY <2>3
    <3> QED BY <3>1
  <2> HIDE DEF ss, T
  <2>5. ss[i] \in [1..m -> T] /\ DOMAIN ss[i] = 1..m /\ m \in Nat
    BY <2>1, <2>2, <2>4
  <2> QED BY <2>1, <2>2, <2>5
<1>3. ss \in Seq(Seq(T)) /\ Len(ss) = n
  <2>1. ss = [i \in 1..n |-> ss[i]] /\ DOMAIN ss = 1..n
    OBVIOUS
  <2> HIDE DEF ss, T
  <2>2. ss \in [1..n -> Seq(T)]
    BY <1>2, <2>1
  <2> QED BY <2>1, <2>2
<1>4. P!Parts(c, n) = FlattenSeq(ss)
  BY FlattenIsOne DEF P!Parts
<1> HIDE DEF ss, T
<1>5. PICK at : ComesFrom(at, FlattenSeq(ss), ss, n)
  BY <1>3, FlattenPlaces
<1> DEFINE r == P!Parts(c, n)
<1>6. r \in Seq(T) /\ Len(r) \in Nat /\ DOMAIN r = 1..Len(r)
  BY <1>3, <1>4, FlattenPlaces
<1>7. ComesFrom(at, r, ss, n)
  BY <1>4, <1>5
<1> HIDE DEF r
<1>8. ASSUME NEW k \in 1..Len(r) PROVE r[k].from \in 1..n
  BY <1>2, <1>7 DEF ComesFrom
<1>9. ASSUME NEW i \in 1..n PROVE \E k \in 1..Len(r) : r[k].from = i
  <2>0. Len(ss[i]) = 1 \/ Len(ss[i]) = 2 BY <1>2
  <2>1. 1 \in 1..Len(ss[i]) BY <2>0
  <2>2. PICK k \in 1..Len(r) : at[k] = <<i, 1>>
    BY <1>7, <2>1 DEF ComesFrom
  <2>3. r[k] = ss[i][1]
    BY <1>7, <2>2 DEF ComesFrom
  <2> QED BY <1>2, <2>1, <2>3
<1>10. Sources(r) = 1..n
  BY <1>6, <1>8, <1>9 DEF Sources
<1> QED BY <1>6, <1>10 DEF r

(* What PromptLacksItsAnswer says of one conversation and its sample.      *)
ToucanLacks(c, s) == /\ Sources(s.prompt) = 1..(s.response - 1)
                     /\ \A i \in DOMAIN c : c[i].role = "assistant" => i <= s.response

BankLacks(c, s) == s.response # 0 => \A i \in Sources(s.prompt) : ~P!IsAgent(c[i])

Counted(prompt) == Len(prompt) \in Nat

LEMMA ToucanConverts ==
  ASSUME NEW c, P!IsSequence(c), P!ConvertToucan(c) # None, c # None
  PROVE  ToucanLacks(c, P!ConvertToucan(c)) /\ Counted(P!ConvertToucan(c).prompt)
PROOF
<1> DEFINE last == P!LastAssistant(c)
           s == P!ConvertToucan(c)
<1>1. /\ last \in 0..Len(c) /\ Len(c) \in Nat
      /\ \A i \in 1..Len(c) : c[i].role = "assistant" => i <= last
  BY LastOfAssistant
<1>2. ~(last <= 1) /\ s.prompt = P!Parts(c, last - 1) /\ s.response = last
  BY DEF P!ConvertToucan
<1>3. DOMAIN c = 1..Len(c)
  BY DEF P!IsSequence
<1> HIDE DEF last, s
<1>4. last - 1 \in Nat
  BY <1>1, <1>2
<1>5. Sources(P!Parts(c, last - 1)) = 1..(last - 1) /\ Len(P!Parts(c, last - 1)) \in Nat
  BY <1>4, PartsOfTurns
<1>6. ToucanLacks(c, s) /\ Counted(s.prompt)
  BY <1>1, <1>2, <1>3, <1>5 DEF ToucanLacks, Counted
<1> QED BY <1>6 DEF s

(* The turns of an AgentBank prompt are not the agent's.                    *)
LEMMA HistoryOfOthers ==
  ASSUME NEW c, P!IsSequence(c)
  PROVE  /\ \A i \in Sources(P!History(c)) : ~P!IsAgent(c[i])
         /\ Len(P!History(c)) \in Nat
PROOF
<1> DEFINE turns == [i \in DOMAIN c |-> i]
           others == {i \in DOMAIN c : ~P!IsAgent(c[i])}
           told == Picked(turns, others)
<1>1. turns \in Seq(Nat) /\ DOMAIN c = 1..Len(c) /\ Len(turns) = Len(c) /\ Len(c) \in Nat
  BY DEF P!IsSequence
<1>2. P!History(c) = [k \in DOMAIN told |-> [tag |-> P!BankTag(c[told[k]]), from |-> told[k]]]
  BY PickedIsOne DEF P!History
<1>3. \A k \in 1..Len(c) : turns[k] = k
  BY <1>1
<1> HIDE DEF turns, others
<1>4. told \in Seq(Nat) /\ \E e : Embeds(e, told, turns, others)
  BY <1>1, PickedEmbeds
<1>5. PICK e : Embeds(e, told, turns, others)
  BY <1>4
<1> HIDE DEF told
<1>6. ASSUME NEW k \in 1..Len(told) PROVE told[k] \in others
  <2>1. e[k] \in others /\ told[k] = turns[e[k]] /\ e[k] \in 1..Len(c)
    BY <1>1, <1>5 DEF Embeds
  <2> QED BY <1>3, <2>1
<1>7. DOMAIN told = 1..Len(told) /\ Len(told) \in Nat
  BY <1>4
<1>8. Len(P!History(c)) = Len(told)
  BY <1>2, <1>7
<1>9. ASSUME NEW i \in Sources(P!History(c)) PROVE i \in others
  BY <1>2, <1>6, <1>7 DEF Sources
<1> QED BY <1>7, <1>8, <1>9 DEF others

LEMMA BankConverts ==
  ASSUME NEW x, P!IsSequence(x.conversation), P!ConvertAgentBank(x) # None
  PROVE  /\ BankLacks(x.conversation, P!ConvertAgentBank(x))
         /\ Counted(P!ConvertAgentBank(x).prompt)
PROOF
<1> DEFINE s == P!ConvertAgentBank(x)
<1>1. \/ s.prompt = P!History(x.conversation)
      \/ s.prompt = <<[tag |-> "user", from |-> 0]>> /\ s.response = 0
  BY DEF P!ConvertAgentBank
<1>2. /\ \A i \in Sources(P!History(x.conversation)) : ~P!IsAgent(x.conversation[i])
      /\ Len(P!History(x.conversation)) \in Nat
  BY HistoryOfOthers
<1> HIDE DEF s
<1>3. CASE s.prompt = P!History(x.conversation)
  BY <1>2, <1>3 DEF BankLacks, Counted, s
<1>4. CASE s.prompt = <<[tag |-> "user", from |-> 0]>> /\ s.response = 0
  BY <1>4 DEF BankLacks, Counted, s
<1> QED BY <1>1, <1>3, <1>4

(* The sample of a row of a dataset.                                       *)
ConvertAt(d, r) == IF Datasets[d].format = "toucan" THEN P!ConvertToucan(Datasets[d].rows[r])
                   ELSE P!ConvertAgentBank(Datasets[d].rows[r])
SampleAt(d, r) == [prompt |-> ConvertAt(d, r).prompt, response |-> ConvertAt(d, r).response,
                   text |-> ConvertAt(d, r).text, dataset |-> d, row |-> r]
IsPlace(d, r) == d \in 1..Len(Datasets) /\ r \in 1..Len(Datasets[d].rows) /\ ConvertAt(d, r) # None
Converted == {SampleAt(p[1], p[2]) : p \in {q \in Nat \X Nat : IsPlace(q[1], q[2])}}

Answerless(s) ==
  IF Datasets[s.dataset].format = "toucan" THEN ToucanLacks(Datasets[s.dataset].rows[s.row], s)
  ELSE BankLacks(Datasets[s.dataset].rows[s.row].conversation, s)

LEMMA PlacesConvert ==
  ASSUME NEW d \in Nat, NEW r \in Nat, IsPlace(d, r)
  PROVE  SampleAt(d, r) \in Converted
PROOF
<1> DEFINE p == <<d, r>>
<1>1. p \in Nat \X Nat /\ p[1] = d /\ p[2] = r
  OBVIOUS
<1> QED BY <1>1 DEF Converted

LEMMA SampleLacksItsAnswer ==
  ASSUME NEW s \in Converted
  PROVE  Answerless(s) /\ Counted(s.prompt)
PROOF
<1>1. PICK d \in Nat, r \in Nat : IsPlace(d, r) /\ s = SampleAt(d, r)
  BY DEF Converted
<1> DEFINE x == Datasets[d].rows[r]
           c == ConvertAt(d, r)
<1>2. /\ s.dataset = d /\ s.row = r /\ s.prompt = c.prompt /\ s.response = c.response
      /\ c # None
  BY <1>1 DEF SampleAt, IsPlace
<1>3. IF Datasets[d].format = "toucan" THEN x = None \/ P!IsSequence(x)
      ELSE P!IsSequence(x.conversation)
  <2>1. d \in DOMAIN Datasets
    BY <1>1, CorpusAssumption DEF IsPlace, P!DatasetsAssumption, P!IsSequence
  <2>2. P!IsSequence(Datasets[d].rows)
    BY <2>1, CorpusAssumption DEF P!DatasetsAssumption
  <2>3. r \in DOMAIN Datasets[d].rows
    BY <1>1, <2>2 DEF IsPlace, P!IsSequence
  <2> QED BY <2>1, <2>3, CorpusAssumption DEF P!DatasetsAssumption
<1>4. CASE Datasets[d].format = "toucan"
  <2>1. c = P!ConvertToucan(x) BY <1>4 DEF ConvertAt
  <2>2. x # None BY <1>2, <2>1 DEF P!ConvertToucan
  <2>3. P!IsSequence(x) BY <1>3, <1>4, <2>2
  <2> HIDE DEF c, x
  <2>4. ToucanLacks(x, c) /\ Counted(c.prompt)
    BY <1>2, <2>1, <2>2, <2>3, ToucanConverts
  <2> QED BY <1>2, <1>4, <2>4 DEF Answerless, ToucanLacks, x
<1>5. CASE Datasets[d].format # "toucan"
  <2>1. c = P!ConvertAgentBank(x) BY <1>5 DEF ConvertAt
  <2>2. P!IsSequence(x.conversation) BY <1>3, <1>5
  <2> HIDE DEF c, x
  <2>3. BankLacks(x.conversation, c) /\ Counted(c.prompt)
    BY <1>2, <2>1, <2>2, BankConverts
  <2> QED BY <1>2, <1>5, <2>3 DEF Answerless, BankLacks, x
<1> QED BY <1>4, <1>5

-----------------------------------------------------------------------------
(* Prepare: the split.                                                      *)

(* The shares leave room for each other.                                    *)
LEMMA SharesFit ==
  ASSUME NEW n \in Nat
  PROVE  /\ (n * TrainShare) \div Whole \in Nat
         /\ (n * ValShare) \div Whole \in Nat
         /\ (n * TrainShare) \div Whole + (n * ValShare) \div Whole <= n
PROOF
<1> DEFINE a == n * TrainShare
           b == n * ValShare
           p == a \div Whole
           q == b \div Whole
<1>1. /\ TrainShare \in Nat /\ ValShare \in Nat /\ Whole \in Nat \ {0}
      /\ TrainShare + ValShare <= Whole
  BY CorpusAssumption DEF P!ShareAssumption
<1>2. a \in Nat /\ b \in Nat
  BY <1>1
<1>3. a + b <= n * Whole
  <2>1. a + b = n * (TrainShare + ValShare) BY <1>1
  <2>2. PICK k \in Nat : Whole = (TrainShare + ValShare) + k BY <1>1
  <2>3. n * Whole = n * (TrainShare + ValShare) + n * k BY <1>1, <2>2
  <2>4. n * k >= 0 BY SMT
  <2> HIDE DEF a, b
  <2> QED BY <1>1, <1>2, <2>1, <2>3, <2>4
<1> HIDE DEF a, b
<1>4. PICK r \in Nat : a = Whole * p + r /\ p \in Nat
  <2>1. a = Whole * (a \div Whole) + (a % Whole) /\ a % Whole \in 0..(Whole - 1)
        /\ a \div Whole \in Nat
    BY ONLY <1>1, <1>2, Division
  <2>2. a % Whole \in Nat BY <1>1, <2>1
  <2> QED BY <2>1, <2>2
<1>5. PICK t \in Nat : b = Whole * q + t /\ q \in Nat
  <2>1. b = Whole * (b \div Whole) + (b % Whole) /\ b % Whole \in 0..(Whole - 1)
        /\ b \div Whole \in Nat
    BY ONLY <1>1, <1>2, Division
  <2>2. b % Whole \in Nat BY <1>1, <2>1
  <2> QED BY <2>1, <2>2
<1> HIDE DEF p, q
<1>6. p + q <= n
  <2> SUFFICES ASSUME p + q >= n + 1 PROVE FALSE
    BY <1>4, <1>5
  <2>1. PICK k \in Nat : p + q = (n + 1) + k BY <1>4, <1>5
  <2>2. Whole * (p + q) = Whole * p + Whole * q BY <1>1, <1>4, <1>5
  <2>3. Whole * (p + q) = Whole * (n + 1) + Whole * k BY <1>1, <2>1
  <2>4. Whole * k >= 0 /\ Whole * (n + 1) = n * Whole + Whole BY <1>1, SMT
  <2>5. Whole * (p + q) <= n * Whole BY <1>1, <1>2, <1>3, <1>4, <1>5, <2>2
  <2>6. Whole > 0 /\ n * Whole \in Nat /\ Whole * k \in Nat BY <1>1
  <2> DEFINE u == Whole * (p + q)
             v == n * Whole
             w == Whole * k
  <2>7. u = (v + Whole) + w /\ u <= v /\ v \in Nat /\ w \in Nat
    BY <2>3, <2>4, <2>5, <2>6
  <2> HIDE DEF u, v, w
  <2> QED BY <2>6, <2>7, <1>1
<1> QED BY <1>4, <1>5, <1>6 DEF p, q, a, b

(* A shuffle has every element.                                             *)
LEMMA ShuffleKeeps ==
  ASSUME NEW T, NEW a \in Seq(T), NEW s \in P!Shuffles(a)
  PROVE  /\ s \in Seq(T) /\ Len(s) = Len(a)
         /\ \A k \in 1..Len(a) : \E j \in 1..Len(a) : s[j] = a[k]
PROOF
<1> DEFINE D == 1..Len(a)
<1>0. DOMAIN a = D /\ Len(a) \in Nat
  OBVIOUS
<1>1. PICK p \in [D -> D] : /\ \A j, k \in D : p[j] = p[k] => j = k
                            /\ s = [k \in D |-> a[p[k]]]
  BY <1>0 DEF P!Shuffles
<1>2. IsFiniteSet(D)
  BY <1>0, FS_Interval
<1>3. p \in Surjection(D, D)
  <2>1. p \in Injection(D, D)
    BY <1>1 DEF Injection, IsInjective
  <2> HIDE DEF D
  <2> QED BY <1>2, <2>1, FS_Injection
<1>4. ASSUME NEW k \in D PROVE \E j \in D : s[j] = a[k]
  <2>1. PICK j \in D : p[j] = k
    BY <1>3 DEF Surjection
  <2> QED BY <1>1, <2>1
<1>5. s \in Seq(T) /\ Len(s) = Len(a)
  <2>1. s \in [1..Len(a) -> T]
    BY <1>0, <1>1
  <2> QED BY <1>0, <2>1
<1> QED BY <1>4, <1>5

LEMMA SplitKeeps ==
  ASSUME NEW T, NEW s \in Seq(T)
  PROVE  /\ \A n \in P!SplitNames : P!Split(s)[n] \in Seq(T)
         /\ Len(P!Split(s).train) + Len(P!Split(s).val) + Len(P!Split(s).test) = Len(s)
         /\ \A k \in 1..Len(s) : \E n \in P!SplitNames : \E i \in DOMAIN P!Split(s)[n] :
               P!Split(s)[n][i] = s[k]
PROOF
<1> DEFINE n == Len(s)
           a == (n * TrainShare) \div Whole
           b == (n * ValShare) \div Whole
           r == P!Split(s)
<1>1. n \in Nat /\ a \in Nat /\ b \in Nat /\ a + b <= n
  BY SharesFit
<1>2. r = [train |-> SubSeq(s, 1, a), val |-> SubSeq(s, a + 1, a + b),
           test |-> SubSeq(s, a + b + 1, n)]
  BY DEF P!Split
<1> HIDE DEF a, b, r
<1>3. /\ r.train \in Seq(T) /\ Len(r.train) = a /\ \A i \in 1..a : r.train[i] = s[i]
  BY <1>1, <1>2
<1>4. /\ r.val \in Seq(T) /\ Len(r.val) = b /\ \A i \in 1..b : r.val[i] = s[a + i]
  <2>1. a + 1 \in Nat /\ a + b \in Nat BY <1>1
  <2>2. SubSeq(s, a + 1, a + b) \in Seq(T) BY <1>1, <2>1
  <2>3. Len(SubSeq(s, a + 1, a + b)) = b BY <1>1, <2>1
  <2>4. \A i \in 1..b : SubSeq(s, a + 1, a + b)[i] = s[a + i]
    BY <1>1, <2>1
  <2> QED BY <1>2, <2>2, <2>3, <2>4
<1>5. /\ r.test \in Seq(T) /\ Len(r.test) = n - (a + b)
      /\ \A i \in 1..(n - (a + b)) : r.test[i] = s[a + b + i]
  <2> DEFINE c == a + b
  <2>1. c \in Nat /\ c + 1 \in Nat /\ c <= n BY <1>1
  <2>2. r.test = SubSeq(s, c + 1, n) BY <1>2
  <2> HIDE DEF c
  <2>3. SubSeq(s, c + 1, n) \in Seq(T) BY <2>1
  <2>4. Len(SubSeq(s, c + 1, n)) = n - c BY <2>1
  <2>5. \A i \in 1..(n - c) : SubSeq(s, c + 1, n)[i] = s[c + i]
    BY <2>1
  <2> QED BY <2>2, <2>3, <2>4, <2>5 DEF c
<1>6. P!SplitNames = {"train", "val", "test"}
  BY DEF P!SplitNames
<1>7. ASSUME NEW k \in 1..n
      PROVE  \E m \in P!SplitNames : \E i \in DOMAIN r[m] : r[m][i] = s[k]
  <2>1. CASE k <= a
    <3>1. k \in 1..a /\ k \in DOMAIN r.train BY <1>1, <1>3, <2>1
    <3> QED BY <1>3, <1>6, <3>1
  <2>2. CASE a < k /\ k <= a + b
    <3>1. k - a \in 1..b /\ a + (k - a) = k BY <1>1, <2>2
    <3>2. k - a \in DOMAIN r.val /\ r.val[k - a] = s[k] BY <1>4, <3>1
    <3> QED BY <1>6, <3>2
  <2>3. CASE a + b < k
    <3>1. k - (a + b) \in 1..(n - (a + b)) /\ a + b + (k - (a + b)) = k BY <1>1, <2>3
    <3>2. k - (a + b) \in DOMAIN r.test /\ r.test[k - (a + b)] = s[k] BY <1>5, <3>1
    <3> QED BY <1>6, <3>2
  <2> QED BY <1>1, <2>1, <2>2, <2>3
<1>8. Len(r.train) + Len(r.val) + Len(r.test) = n
  BY <1>1, <1>3, <1>4, <1>5
<1> HIDE DEF n
<1> QED BY <1>3, <1>4, <1>5, <1>6, <1>7, <1>8 DEF n, r

(* Prepare: the inductive invariant.  All samples come from places of the  *)
(* datasets, and so do those of the three files.                           *)
PrepInv == /\ all \in Seq(Converted)
           /\ \A n \in P!SplitNames : splits[n] \in Seq(Converted)
           /\ dataset \in Nat /\ row \in Nat
           /\ stage \in {"load", "rows"} => dataset \in 1..Len(Datasets)
           /\ SplitsPartition

LEMMA DatasetsSequence == Len(Datasets) \in Nat \ {0} /\ DOMAIN Datasets = 1..Len(Datasets)
BY CorpusAssumption DEF P!DatasetsAssumption, P!IsSequence

LEMMA PrepInit == Init => PrepInv
PROOF
<1> SUFFICES ASSUME Init PROVE PrepInv
  OBVIOUS
<1>1. /\ stage = "load" /\ dataset = 1 /\ row = 0 /\ all = << >>
      /\ splits = [n \in P!SplitNames |-> << >>]
  BY DEF Init, P!Init
<1>2. << >> \in Seq(Converted)
  OBVIOUS
<1>3. \A n \in P!SplitNames : splits[n] \in Seq(Converted)
  BY <1>1, <1>2
<1>4. SplitsPartition
  BY <1>1 DEF SplitsPartition
<1> QED BY <1>1, <1>2, <1>3, <1>4, DatasetsSequence DEF PrepInv

(* Leaving a dataset.                                                       *)
LEMMA NextDatasetBounds ==
  ASSUME PrepInv, P!NextDataset, stage \in {"load", "rows"}
  PROVE  /\ dataset' \in Nat /\ row' \in Nat
         /\ stage' \in {"load", "split"}
         /\ stage' = "load" => dataset' \in 1..Len(Datasets)
PROOF
<1>1. /\ dataset' = dataset + 1 /\ row' = 0
      /\ stage' = IF dataset = Len(Datasets) THEN "split" ELSE "load"
  BY DEF P!NextDataset
<1>2. dataset \in Nat /\ dataset \in 1..Len(Datasets)
  BY DEF PrepInv
<1> DEFINE n == Len(Datasets)
<1>3. n \in Nat BY DatasetsSequence
<1> HIDE DEF n
<1>4. dataset # n => dataset + 1 \in 1..n
  BY <1>2, <1>3 DEF n
<1> QED BY <1>1, <1>2, <1>4 DEF n

(* Where a step writes neither samples nor files.                           *)
LEMMA PrepFrame ==
  ASSUME PrepInv, UNCHANGED <<all, splits>>,
         dataset' \in Nat, row' \in Nat,
         stage' \in {"load", "rows"} => dataset' \in 1..Len(Datasets),
         stage' = "done" => stage = "done"
  PROVE  PrepInv'
PROOF
<1>1. all' = all /\ splits' = splits
  OBVIOUS
<1>2. SplitsPartition'
  BY <1>1 DEF PrepInv, SplitsPartition
<1> QED BY <1>1, <1>2 DEF PrepInv

LEMMA PrepStep == PrepInv /\ P!Next => PrepInv'
PROOF
<1> SUFFICES ASSUME PrepInv, P!Next PROVE PrepInv'
  OBVIOUS
<1>0. /\ dataset \in Nat /\ row \in Nat /\ all \in Seq(Converted)
      /\ stage \in {"load", "rows"} => dataset \in 1..Len(Datasets)
  BY DEF PrepInv
<1>1. CASE P!Load
  <2>1. UNCHANGED <<all, splits>> /\ stage = "load"
    BY <1>1 DEF P!Load
  <2>2. CASE stage' = "rows" /\ UNCHANGED <<dataset, row>>
    BY <1>0, <2>1, <2>2, PrepFrame
  <2>3. CASE P!NextDataset
    <3>1. /\ dataset' \in Nat /\ row' \in Nat /\ stage' \in {"load", "split"}
          /\ stage' = "load" => dataset' \in 1..Len(Datasets)
      BY <2>1, <2>3, NextDatasetBounds
    <3> QED BY <2>1, <3>1, PrepFrame
  <2> QED BY <1>1, <2>2, <2>3 DEF P!Load
<1>2. CASE P!ConvertRow
  <2>1. /\ stage = "rows" /\ row < Len(P!Source.rows) /\ row' = row + 1
        /\ UNCHANGED <<dataset, splits>>
    BY <1>2 DEF P!ConvertRow
  <2>2. dataset \in 1..Len(Datasets) /\ row + 1 \in Nat
    BY <1>0, <2>1
  <2>3. CASE P!Raises
    <3>1. stage' = "raised" /\ UNCHANGED all
      BY <1>2, <2>3 DEF P!ConvertRow
    <3> QED BY <1>0, <2>1, <2>2, <3>1, PrepFrame
  <2>4. CASE ~P!Raises
    <3>1. /\ stage' = stage
          /\ all' = all \o (IF P!Convert = None THEN << >> ELSE <<P!Placed(P!Convert)>>)
      BY <1>2, <2>4 DEF P!ConvertRow
    <3>2. CASE P!Convert = None
      <4>1. all' = all
        <5>1. all' = all \o << >> BY <3>1, <3>2
        <5> QED BY <1>0, <5>1
      <4> QED BY <1>0, <2>1, <2>2, <3>1, <4>1, PrepFrame
    <3>3. CASE P!Convert # None
      <4>1. P!Convert = ConvertAt(dataset, row + 1)
        BY DEF P!Convert, P!Source, P!Sample, ConvertAt
      <4>2. P!Placed(P!Convert) = SampleAt(dataset, row + 1)
        BY <4>1 DEF P!Placed, SampleAt
      <4>3. row + 1 \in 1..Len(P!Source.rows)
        <5>1. P!IsSequence(P!Source.rows)
          BY <2>2, DatasetsSequence, CorpusAssumption DEF P!DatasetsAssumption, P!Source
        <5>2. Len(P!Source.rows) \in Nat
          BY <5>1 DEF P!IsSequence
        <5> QED BY <1>0, <2>1, <5>2
      <4>4. IsPlace(dataset, row + 1)
        BY <2>2, <3>3, <4>1, <4>3 DEF IsPlace, P!Source
      <4>5. SampleAt(dataset, row + 1) \in Converted
        BY ONLY <1>0, <2>2, <4>4, PlacesConvert
      <4>6. all' \in Seq(Converted)
        <5>1. all' = all \o <<SampleAt(dataset, row + 1)>> BY <3>1, <3>3, <4>2
        <5> HIDE DEF SampleAt
        <5> QED BY <1>0, <4>5, <5>1
      <4>7. stage' = "rows" /\ splits' = splits /\ dataset' = dataset /\ row' \in Nat
        BY <2>1, <2>2, <3>1
      <4>8. SplitsPartition'
        BY <4>7 DEF SplitsPartition
      <4>9. \A n \in P!SplitNames : splits[n] \in Seq(Converted)
        BY DEF PrepInv
      <4>10. dataset' \in 1..Len(Datasets) /\ dataset' \in Nat
        BY <1>0, <2>2, <4>7
      <4> QED BY <4>6, <4>7, <4>8, <4>9, <4>10 DEF PrepInv
    <3> QED BY <3>2, <3>3
  <2> QED BY <2>3, <2>4
<1>3. CASE P!StreamBreaks
  BY <1>0, <1>3, PrepFrame DEF P!StreamBreaks
<1>4. CASE P!DatasetDone
  <2>1. UNCHANGED <<all, splits>> /\ stage = "rows"
    BY <1>4 DEF P!DatasetDone
  <2>2. CASE stage' = "raised" /\ UNCHANGED <<dataset, row>>
    BY <1>0, <2>1, <2>2, PrepFrame
  <2>3. CASE P!NextDataset
    <3>1. /\ dataset' \in Nat /\ row' \in Nat /\ stage' \in {"load", "split"}
          /\ stage' = "load" => dataset' \in 1..Len(Datasets)
      BY <2>1, <2>3, NextDatasetBounds
    <3> QED BY <2>1, <3>1, PrepFrame
  <2> QED BY <1>4, <2>2, <2>3 DEF P!DatasetDone
<1>5. CASE P!SplitAndSave
  <2>1. stage = "split" /\ UNCHANGED <<dataset, row, counted, all>>
    BY <1>5 DEF P!SplitAndSave
  <2>2. CASE all = << >>
    <3>1. stage' = "raised" /\ UNCHANGED splits
      BY <1>5, <2>2 DEF P!SplitAndSave
    <3> QED BY <1>0, <2>1, <3>1, PrepFrame
  <2>3. CASE all # << >>
    <3>1. PICK s \in P!Shuffles(all) : stage' = "done" /\ splits' = P!Split(s)
      BY <1>5, <2>3 DEF P!SplitAndSave
    <3>2. /\ s \in Seq(Converted) /\ Len(s) = Len(all)
          /\ \A k \in 1..Len(all) : \E j \in 1..Len(all) : s[j] = all[k]
      BY <1>0, ShuffleKeeps
    <3> DEFINE r == P!Split(s)
    <3>3. /\ \A n \in P!SplitNames : r[n] \in Seq(Converted)
          /\ Len(r.train) + Len(r.val) + Len(r.test) = Len(s)
          /\ \A k \in 1..Len(s) : \E n \in P!SplitNames : \E i \in DOMAIN r[n] : r[n][i] = s[k]
      BY <3>2, SplitKeeps
    <3> HIDE DEF r
    <3>4. DOMAIN all = 1..Len(all) BY <1>0
    <3>5. \A k \in DOMAIN all : \E n \in P!SplitNames : \E i \in DOMAIN r[n] : r[n][i] = all[k]
      <4> TAKE k \in DOMAIN all
      <4>1. PICK j \in 1..Len(all) : s[j] = all[k] BY <3>2, <3>4
      <4>2. j \in 1..Len(s) BY ONLY <3>2
      <4>3. \E n \in P!SplitNames : \E i \in DOMAIN r[n] : r[n][i] = s[j]
        BY ONLY <3>3, <4>2
      <4> QED BY ONLY <4>1, <4>3
    <3>6. splits' = r BY <3>1 DEF r
    <3>7. SplitsPartition'
      BY <2>1, <3>2, <3>3, <3>5, <3>6 DEF SplitsPartition
    <3> QED BY <1>0, <2>1, <3>1, <3>3, <3>6, <3>7 DEF PrepInv
  <2> QED BY <2>2, <2>3
<1> QED BY <1>1, <1>2, <1>3, <1>4, <1>5 DEF P!Next

LEMMA PrepInvariance == Spec => []PrepInv
PROOF
<1>1. Init => PrepInv
  BY PrepInit
<1>2. PrepInv /\ [Next]_vars => PrepInv'
  <2> SUFFICES ASSUME PrepInv, [Next]_vars PROVE PrepInv'
    OBVIOUS
  <2>1. CASE UNCHANGED preparing
    BY <2>1 DEF PrepInv, SplitsPartition, preparing
  <2>2. CASE P!Next
    BY <2>2, PrepStep
  <2>3. UNCHANGED preparing \/ P!Next
    BY DEF Next, vars, Generate, Prepare, LoadGenerated, LoadPrepared, LoadChunk, Forget
  <2> QED BY <2>1, <2>2, <2>3
<1> QED BY <1>1, <1>2, PTL DEF Spec

(* SplitsPartition: once the files are written, every converted sample is  *)
(* in exactly one of them, whatever shares the split has.                  *)
THEOREM EverySampleOnce == Spec => []SplitsPartition
PROOF
<1>1. PrepInv => SplitsPartition
  BY DEF PrepInv
<1> QED BY <1>1, PrepInvariance, PTL

(* PromptLacksItsAnswer: whatever the conversations are, no turn of a      *)
(* prompt is the answer that is to be learned.                             *)
THEOREM PromptsLackAnswers == Spec => []PromptLacksItsAnswer
PROOF
<1>1. PrepInv => PromptLacksItsAnswer
  <2> SUFFICES ASSUME PrepInv, NEW k \in DOMAIN all
               PROVE  LET s == all[k]
                          source == Datasets[s.dataset]
                          from == {s.prompt[i].from : i \in DOMAIN s.prompt}
                          rowOf == source.rows[s.row]
                      IN IF source.format = "toucan"
                         THEN /\ from = 1..(s.response - 1)
                              /\ \A i \in DOMAIN rowOf : rowOf[i].role = "assistant" => i <= s.response
                         ELSE s.response # 0 => \A i \in from : ~P!IsAgent(rowOf.conversation[i])
    BY DEF PromptLacksItsAnswer
  <2>1. all[k] \in Converted
    BY DEF PrepInv
  <2>2. Answerless(all[k])
    BY <2>1, SampleLacksItsAnswer
  <2> QED BY <2>2 DEF Answerless, ToucanLacks, BankLacks, Sources
<1> QED BY <1>1, PrepInvariance, PTL

-----------------------------------------------------------------------------
(* Generate: what a stage collects, keeps and writes.                       *)

Template == {Templates[i] : i \in DOMAIN Templates}
Prompts == [of : {t.id : t \in Template}, form : {"template"} \cup G!StageNames,
            augmented : BOOLEAN, len : Nat \ {0}]
Learned == [prompt : Prompts, response : G!Text]
Collected == [prompt : Prompts, response : G!Text \cup {None}]
Paired == [prompt : Prompts, chosen : G!Text, rejected : G!Text]
Lines == Learned \cup Paired

\* What WrittenIsClean says of the lines of one file.
Clean(lines) ==
  \A i \in DOMAIN lines :
    /\ G!Passes(lines[i])
    /\ \A j \in DOMAIN lines \ {i} :
         lines[i].prompt = lines[j].prompt => lines[i].prompt.augmented

LEMMA TemplateTypes ==
  /\ Templates \in Seq(Template)
  /\ \A t \in Template : t.len \in Nat \ {0} /\ t.chosen \in G!Text /\ t.rejected \in G!Text
BY CorpusAssumption DEF G!TemplatesAssumption, G!IsSequence, Template

LEMMA OptionTypes ==
  ASSUME NEW a \in CommandLines
  PROVE  a.maxSamples \in Nat /\ a.augment \in Nat /\ G!IsSequence(a.faultTypes)
BY CorpusAssumption DEF G!OptionsAssumption

LEMMA SelectedTemplates ==
  ASSUME NEW a \in CommandLines
  PROVE  G!Selected(a) \in Seq(Template)
PROOF
<1> DEFINE of(k) == Picked(Templates, {i \in DOMAIN Templates : Templates[i].fault = a.faultTypes[k]})
           ss == [k \in DOMAIN a.faultTypes |-> of(k)]
           typed == IF a.faultTypes = << >> THEN Templates ELSE FlattenSeq(ss)
           wanted == {i \in DOMAIN typed : typed[i].difficulty = a.difficulty}
<1>1. G!Selected(a) = IF a.difficulty = "all" THEN typed ELSE Picked(typed, wanted)
  BY DEF G!Selected, G!Picked, Picked, G!PickedUpTo, PickedUpTo, G!FlattenSeq, FlattenSeq
<1>2. ss \in Seq(Seq(Template))
  <2>1. DOMAIN a.faultTypes = 1..Len(a.faultTypes) /\ Len(a.faultTypes) \in Nat
    BY OptionTypes DEF G!IsSequence
  <2>2. \A k : of(k) \in Seq(Template)
    BY TemplateTypes, PickedEmbeds
  <2> HIDE DEF of
  <2> QED BY <2>1, <2>2
<1> HIDE DEF ss
<1>3. typed \in Seq(Template)
  BY <1>2, TemplateTypes, FlattenPlaces
<1> HIDE DEF typed, wanted
<1>4. Picked(typed, wanted) \in Seq(Template)
  BY <1>3, PickedEmbeds
<1> QED BY <1>1, <1>3, <1>4

LEMMA WantedTemplates ==
  ASSUME NEW a \in CommandLines
  PROVE  G!Wanted(a) \in Seq(Template)
PROOF
<1> DEFINE ts == G!Selected(a)
<1>1. ts \in Seq(Template) /\ a.maxSamples \in Nat
  BY SelectedTemplates, OptionTypes
<1>2. G!Wanted(a) = IF a.maxSamples = 0 \/ a.maxSamples > Len(ts) THEN ts
                    ELSE SubSeq(ts, 1, a.maxSamples)
  BY DEF G!Wanted
<1> HIDE DEF ts
<1>3. ASSUME ~(a.maxSamples = 0 \/ a.maxSamples > Len(ts))
      PROVE  SubSeq(ts, 1, a.maxSamples) \in Seq(Template)
  BY <1>1, <1>3
<1> QED BY <1>1, <1>2, <1>3

LEMMA StagesAreNames ==
  ASSUME NEW a
  PROVE  G!StagesOf(a) \in Seq(G!StageNames)
PROOF
<1> DEFINE names == <<"sft_template", "dpo_template", "sft_api", "dpo_api">>
<1>1. names \in Seq(G!StageNames)
  BY DEF G!StageNames
<1>2. \E places : G!StagesOf(a) = Picked(names, places)
  BY PickedIsOne DEF G!StagesOf
<1> HIDE DEF names
<1> QED BY <1>1, <1>2, PickedEmbeds

(* filter_and_dedup: what is kept passes, and no two have one prompt.       *)
LEMMA FilterKeeps ==
  ASSUME NEW T, NEW ss \in Seq(T)
  PROVE  LET kept == G!FilterAndDedup(ss)
         IN /\ kept \in Seq(T)
            /\ \A k \in DOMAIN kept : \E i \in G!FirstOfPrompt(ss) : kept[k] = ss[i]
            /\ Clean(kept)
PROOF
<1> DEFINE places == {i \in G!FirstOfPrompt(ss) : G!Passes(ss[i])}
           kept == G!FilterAndDedup(ss)
<1>1. kept = Picked(ss, places)
  BY PickedIsOne DEF G!FilterAndDedup
<1>2. \A i \in places : i \in G!FirstOfPrompt(ss) /\ G!Passes(ss[i])
  OBVIOUS
<1> HIDE DEF places, kept
<1>3. kept \in Seq(T)
  BY <1>1, PickedEmbeds
<1>4. PICK e : Embeds(e, kept, ss, places)
  BY <1>1, PickedEmbeds
<1>5. DOMAIN kept = 1..Len(kept) /\ Len(kept) \in Nat /\ DOMAIN ss = 1..Len(ss)
  BY <1>3
<1>6. ASSUME NEW k \in DOMAIN kept
      PROVE  /\ e[k] \in G!FirstOfPrompt(ss) /\ kept[k] = ss[e[k]]
             /\ G!Passes(kept[k]) /\ e[k] \in 1..Len(ss)
  <2>1. e[k] \in places /\ kept[k] = ss[e[k]] /\ e[k] \in 1..Len(ss)
    BY <1>4, <1>5 DEF Embeds
  <2> QED BY <1>2, <2>1
<1>7. ASSUME NEW i \in DOMAIN kept, NEW j \in DOMAIN kept, i < j
      PROVE  kept[i].prompt # kept[j].prompt
  <2>1. e[i] < e[j]
    BY <1>4, <1>5, <1>7 DEF Embeds
  <2>2. e[i] \in 1..(e[j] - 1)
    BY <1>6, <2>1
  <2>3. \A m \in 1..(e[j] - 1) : ss[m].prompt # ss[e[j]].prompt
    BY <1>6 DEF G!FirstOfPrompt
  <2> QED BY <1>6, <2>2, <2>3
<1>8. ASSUME NEW i \in DOMAIN kept, NEW j \in DOMAIN kept \ {i}
      PROVE  kept[i].prompt # kept[j].prompt
  <2>1. i < j \/ j < i BY <1>5
  <2> QED BY <1>7, <2>1
<1>9. Clean(kept)
  BY <1>6, <1>8 DEF Clean
<1> QED BY <1>3, <1>6, <1>9 DEF kept

(* augment_samples: a variant passes where its sample does.                 *)
LEMMA VariantPasses ==
  ASSUME NEW s \in Learned
  PROVE  /\ G!Variant(s) \in Learned /\ G!Variant(s).prompt.augmented = TRUE
         /\ G!Passes(s) => G!Passes(G!Variant(s))
PROOF
<1> DEFINE v == G!Variant(s)
<1>1. v = [prompt |-> [s.prompt EXCEPT !.augmented = TRUE, !.len = @ + 45], response |-> s.response]
  BY DEF G!Variant
<1>2. s.prompt \in Prompts /\ s.response \in G!Text /\ s = [prompt |-> s.prompt, response |-> s.response]
  BY DEF Learned
<1>3. /\ v.response = s.response /\ v.prompt.len = s.prompt.len + 45
      /\ v.prompt \in Prompts /\ v.prompt.augmented = TRUE /\ s.prompt.len \in Nat
  <2> DEFINE p == s.prompt
             q == [p EXCEPT !.augmented = TRUE, !.len = @ + 45]
  <2>1. v.prompt = q /\ v.response = s.response /\ p \in Prompts
    BY <1>1, <1>2
  <2> HIDE DEF p
  <2>2. /\ p = [of |-> p.of, form |-> p.form, augmented |-> p.augmented, len |-> p.len]
        /\ p.len \in Nat \ {0} /\ p.of \in {t.id : t \in Template}
        /\ p.form \in {"template"} \cup G!StageNames
    BY <2>1 DEF Prompts
  <2>2a. DOMAIN p = {"of", "form", "augmented", "len"}
    BY ONLY <2>2
  <2>2b. q = [x \in {"of", "form", "augmented", "len"} |->
               IF x = "augmented" THEN TRUE ELSE IF x = "len" THEN p.len + 45 ELSE p[x]]
    BY ONLY <2>2a
  <2>2c. q = [of |-> p.of, form |-> p.form, augmented |-> TRUE, len |-> p.len + 45]
    <3> HIDE DEF q
    <3> DEFINE l == p.len + 45
    <3>1. q = [x \in {"of", "form", "augmented", "len"} |->
                 IF x = "augmented" THEN TRUE ELSE IF x = "len" THEN l ELSE p[x]]
      BY <2>2b
    <3> HIDE DEF l
    <3>2. q.of = p.of /\ q.form = p.form /\ q.augmented = TRUE /\ q.len = l
      BY ONLY <3>1
    <3>3. q = [x \in {"of", "form", "augmented", "len"} |-> q[x]]
      BY ONLY <3>1
    <3>4. q = [of |-> q.of, form |-> q.form, augmented |-> q.augmented, len |-> q.len]
      BY ONLY <3>3
    <3> QED BY <3>2, <3>4 DEF l
  <2> HIDE DEF q
  <2>3. q \in Prompts
    BY <2>2, <2>2c DEF Prompts
  <2> HIDE DEF v
  <2> QED BY <2>1, <2>2, <2>2c, <2>3 DEF p
<1>4. v \in Learned
  BY <1>1, <1>2, <1>3 DEF Learned
<1>5. DOMAIN s = {"prompt", "response"} /\ DOMAIN v = {"prompt", "response"}
  BY <1>1, <1>2
<1> HIDE DEF v
<1>6. ASSUME NEW w, DOMAIN w = {"prompt", "response"}
      PROVE  G!Passes(w) <=> /\ w.response.len \in G!MinSftResponse..G!MaxSftResponse
                            /\ w.prompt.len >= G!MinPrompt
                            /\ ~w.response.black
                            /\ w.response.strong >= 2
  <2>1. ~G!Has(w, "chosen") /\ ~G!Has(w, "expected") /\ G!Has(w, "response")
    BY <1>6 DEF G!Has
  <2> QED BY <2>1 DEF G!Passes, G!IsPair, G!SftPasses, G!Get, G!Covers
<1>7. G!Passes(s) => G!Passes(v)
  BY <1>3, <1>5, <1>6 DEF G!MinPrompt
<1> QED BY <1>3, <1>4, <1>7 DEF v

LEMMA AugmentedIsClean ==
  ASSUME NEW ss \in Seq(Learned), Clean(ss), NEW n \in Nat, NEW r \in G!Augmented(ss, n)
  PROVE  r \in Seq(Learned) /\ Clean(r)
PROOF
<1> DEFINE k == G!Min({n, 2 * Len(ss)})
           m == Len(ss)
<1>1. k \in Nat
  <2>1. (n <= 2 * Len(ss) \/ 2 * Len(ss) <= n) /\ 2 * Len(ss) \in Nat
    BY SMT
  <2>2. \E x \in {n, 2 * Len(ss)} : \A y \in {n, 2 * Len(ss)} : x <= y
    BY <2>1
  <2>3. k \in {n, 2 * Len(ss)}
    BY <2>2 DEF G!Min
  <2> QED BY <2>3
<1>2. PICK pick \in [1..k -> DOMAIN ss] : r = ss \o [j \in 1..k |-> G!Variant(ss[pick[j]])]
  BY DEF G!Augmented
<1> DEFINE v == [j \in 1..k |-> G!Variant(ss[pick[j]])]
<1> HIDE DEF k
<1>3. ASSUME NEW j \in 1..k
      PROVE  v[j] \in Learned /\ G!Passes(v[j]) /\ v[j].prompt.augmented = TRUE
  <2>1. pick[j] \in DOMAIN ss /\ ss[pick[j]] \in Learned /\ v[j] = G!Variant(ss[pick[j]])
    BY <1>2
  <2>2. G!Passes(ss[pick[j]])
    BY <2>1 DEF Clean
  <2> HIDE DEF v
  <2> QED BY <2>1, <2>2, VariantPasses
<1>4. v \in Seq(Learned) /\ Len(v) = k
  <2>1. v = [j \in 1..k |-> v[j]] OBVIOUS
  <2> HIDE DEF v
  <2>2. v \in [1..k -> Learned] BY <1>3, <2>1
  <2> QED BY <1>1, <2>1, <2>2
<1> HIDE DEF v, m
<1>5. /\ r \in Seq(Learned) /\ Len(r) = m + k /\ m \in Nat /\ m = Len(ss)
      /\ \A i \in 1..m : r[i] = ss[i]
      /\ \A i \in (m + 1)..(m + k) : r[i] = v[i - m]
  <2>1. r = ss \o v BY <1>2 DEF v
  <2>2. Len(r) = m + k /\ m \in Nat /\ r \in Seq(Learned) BY <1>4, <2>1 DEF m
  <2>3. \A i \in 1..m : r[i] = ss[i] BY <1>4, <2>1 DEF m
  <2>4. \A i \in (m + 1)..(m + k) : r[i] = v[i - m] BY <1>1, <1>4, <2>1 DEF m
  <2> QED BY <2>2, <2>3, <2>4 DEF m
<1>6. DOMAIN r = 1..(m + k) /\ DOMAIN ss = 1..m
  BY <1>5
<1>7. \A i \in 1..(m + k) : i \notin 1..m => i \in (m + 1)..(m + k) /\ i - m \in 1..k
  BY <1>1, <1>5
<1>8. ASSUME NEW i \in 1..(m + k), i \notin 1..m
      PROVE  G!Passes(r[i]) /\ r[i].prompt.augmented = TRUE
  BY <1>3, <1>5, <1>7, <1>8
<1>9. ASSUME NEW i \in 1..m, NEW j \in 1..m, i # j, r[i].prompt = r[j].prompt
      PROVE  r[i].prompt.augmented
  BY <1>5, <1>6, <1>9 DEF Clean
<1>10. ASSUME NEW i \in 1..m PROVE G!Passes(r[i])
  BY <1>5, <1>6 DEF Clean
<1>11. Clean(r)
  BY <1>6, <1>8, <1>9, <1>10 DEF Clean
<1> QED BY <1>5, <1>11

(* Generate: the inductive invariant.                                       *)
Filed(lines) == lines \in Seq(Lines) /\ Clean(lines)

GenInv == /\ stages \in Seq(G!StageNames)
          /\ stages # << >> => args \in CommandLines
          /\ asked \in Nat
          /\ samples \in Seq(Collected)
          /\ out # None => Filed(out)
          /\ DOMAIN files = G!StageNames
          /\ \A n \in G!StageNames : Filed(files[n].lines)

LEMMA EmptyIsFiled == Filed(<< >>)
BY DEF Filed, Clean

LEMMA BeginningIsFiled ==
  ASSUME NEW lines, Filed(lines), NEW n \in 0..Len(lines)
  PROVE  Filed(SubSeq(lines, 1, n))
PROOF
<1> DEFINE r == SubSeq(lines, 1, n)
<1>1. lines \in Seq(Lines) /\ Len(lines) \in Nat /\ DOMAIN lines = 1..Len(lines)
  BY DEF Filed
<1>2. /\ r \in Seq(Lines) /\ DOMAIN r = 1..n
      /\ \A i \in 1..n : r[i] = lines[i] /\ i \in 1..Len(lines)
  BY <1>1
<1> HIDE DEF r
<1>3. Clean(r)
  BY <1>1, <1>2 DEF Filed, Clean
<1> QED BY <1>2, <1>3 DEF Filed, r

(* Where a step leaves the files and what is to be written alone.           *)
LEMMA GenFrame ==
  ASSUME GenInv, UNCHANGED <<out, files>>,
         stages' \in Seq(G!StageNames), stages' # << >> => args' \in CommandLines,
         asked' \in Nat, samples' \in Seq(Collected)
  PROVE  GenInv'
PROOF
<1>1. out' = out /\ files' = files
  OBVIOUS
<1> QED BY <1>1 DEF GenInv, Filed

(* The samples of the templates and of the teacher have their types.        *)
LEMMA SampleTypes ==
  ASSUME NEW t \in Template, NEW n \in G!StageNames
  PROVE  /\ n = "sft_template" => G!TemplateSample(t, n) \in Learned
         /\ n # "sft_template" => G!TemplateSample(t, n) \in Paired
         /\ \A text \in G!Text \cup {None} : G!ApiSample(t, n, text) \in Collected
PROOF
<1>1. /\ t.len \in Nat \ {0} /\ t.chosen \in G!Text /\ t.rejected \in G!Text
      /\ t.id \in {u.id : u \in Template}
  BY TemplateTypes
<1>2. \A form \in {"template"} \cup G!StageNames : G!Prompt(t, form) \in Prompts
  BY <1>1 DEF G!Prompt, Prompts
<1> QED BY <1>1, <1>2 DEF G!TemplateSample, G!ApiSample, Learned, Paired, Collected

LEMMA CollectStep ==
  ASSUME GenInv, G!Asking, NEW new \in Seq(Collected), G!Collect(new)
  PROVE  GenInv'
PROOF
<1>1. /\ samples' = samples \o new /\ asked' = asked + 1
      /\ UNCHANGED <<args, stages, out, files, launches>>
  BY DEF G!Collect
<1>2. /\ stages \in Seq(G!StageNames) /\ samples \in Seq(Collected) /\ asked \in Nat
      /\ stages # << >> => args \in CommandLines
  BY DEF GenInv
<1>3. samples' \in Seq(Collected) /\ asked' \in Nat
  BY <1>1, <1>2
<1> QED BY <1>1, <1>2, <1>3, GenFrame

LEMMA AskingTypes ==
  ASSUME GenInv, ~G!Ended
  PROVE  /\ G!Stage \in G!StageNames /\ args \in CommandLines
         /\ Tail(stages) \in Seq(G!StageNames)
         /\ G!Asking => G!Template \in Template
PROOF
<1>1. stages # << >> /\ stages \in Seq(G!StageNames) /\ args \in CommandLines /\ asked \in Nat
  BY DEF G!Ended, GenInv
<1>2. G!Stage \in G!StageNames /\ Tail(stages) \in Seq(G!StageNames)
  BY <1>1 DEF G!Stage
<1>3. ASSUME G!Asking PROVE G!Template \in Template
  <2>1. G!Wanted(args) \in Seq(Template) BY <1>1, WantedTemplates
  <2>2. asked < Len(G!Wanted(args)) BY <1>3 DEF G!Asking
  <2>3. asked + 1 \in 1..Len(G!Wanted(args)) BY <1>1, <2>1, <2>2
  <2> QED BY <2>1, <2>3 DEF G!Template
<1> QED BY <1>1, <1>2, <1>3

LEMMA GenInit == Init => GenInv
PROOF
<1> SUFFICES ASSUME Init PROVE GenInv
  OBVIOUS
<1>1. /\ stages = << >> /\ asked = 0 /\ samples = << >> /\ out = None
      /\ files = [n \in G!StageNames |-> G!NoFile]
  BY DEF Init, G!Init
<1>2. G!NoFile.lines = << >>
  BY DEF G!NoFile
<1>3. \A n \in G!StageNames : Filed(files[n].lines)
  BY <1>1, <1>2, EmptyIsFiled
<1>4. stages \in Seq(G!StageNames) /\ samples \in Seq(Collected)
  BY <1>1
<1> QED BY <1>1, <1>3, <1>4 DEF GenInv

LEMMA GenStep == GenInv /\ G!Next => GenInv'
PROOF
<1> SUFFICES ASSUME GenInv, G!Next PROVE GenInv'
  OBVIOUS
<1>0. /\ stages \in Seq(G!StageNames) /\ samples \in Seq(Collected) /\ asked \in Nat
      /\ stages # << >> => args \in CommandLines
      /\ out # None => Filed(out)
      /\ DOMAIN files = G!StageNames
      /\ \A n \in G!StageNames : Filed(files[n].lines)
  BY DEF GenInv
<1>1. CASE G!Launch
  <2>1. /\ args' \in CommandLines /\ asked' = 0 /\ samples' = << >> /\ out' = None
        /\ files' = files
        /\ stages' = << >> \/ stages' = G!StagesOf(args')
    BY <1>1 DEF G!Launch
  <2>2. stages' \in Seq(G!StageNames) /\ samples' \in Seq(Collected)
    <3>1. \A a : G!StagesOf(a) \in Seq(G!StageNames) BY StagesAreNames
    <3>2. << >> \in Seq(G!StageNames) /\ << >> \in Seq(Collected) OBVIOUS
    <3> QED BY <2>1, <3>1, <3>2
  <2> QED BY <1>0, <2>1, <2>2 DEF GenInv, Filed
<1>2. CASE G!FromTemplates
  <2>1. ~G!Ended /\ UNCHANGED <<args, stages, asked, samples, files, launches>>
    BY <1>2 DEF G!FromTemplates
  <2>2. G!Stage \in G!StageNames /\ args \in CommandLines
    BY <2>1, AskingTypes
  <2> DEFINE ts == G!Wanted(args)
             ss == [k \in DOMAIN ts |-> G!TemplateSample(ts[k], G!Stage)]
             kept == G!FilterAndDedup(ss)
  <2>3. IF G!Stage = "sft_template" /\ args.augment > 0
        THEN out' \in G!Augmented(kept, args.augment) ELSE out' = kept
    BY <1>2 DEF G!FromTemplates
  <2>4. ts \in Seq(Template) /\ DOMAIN ts = 1..Len(ts) /\ Len(ts) \in Nat
    BY <2>2, WantedTemplates
  <2>5. \A k \in DOMAIN ts : ts[k] \in Template
    BY <2>4
  <2> HIDE DEF kept
  <2>6. CASE G!Stage = "sft_template"
    <3>1. ss \in Seq(Learned)
      <4>1. \A k \in DOMAIN ts : G!TemplateSample(ts[k], G!Stage) \in Learned
        BY <2>2, <2>5, <2>6, SampleTypes
      <4> HIDE DEF ts
      <4> QED BY <2>4, <4>1
    <3> HIDE DEF ss
    <3>2. kept \in Seq(Learned) /\ Clean(kept)
      BY <3>1, FilterKeeps DEF kept
    <3>3. args.augment \in Nat
      BY <2>2, OptionTypes
    <3>4. out' \in Seq(Learned) /\ Clean(out')
      <4>1. \A r \in G!Augmented(kept, args.augment) : r \in Seq(Learned) /\ Clean(r)
        BY <3>2, <3>3, AugmentedIsClean
      <4>2. \E r : r = out' OBVIOUS
      <4>3. PICK r : r = out' BY <4>2
      <4>4. r \in Seq(Learned) /\ Clean(r)
        BY <2>3, <3>2, <4>1, <4>3
      <4> QED BY <4>3, <4>4 DEF Clean
    <3>5. Filed(out')
      BY <3>4 DEF Filed, Lines
    <3> QED BY <1>0, <2>1, <3>5 DEF GenInv, Filed
  <2>7. CASE G!Stage # "sft_template"
    <3>1. ss \in Seq(Paired)
      <4>1. \A k \in DOMAIN ts : G!TemplateSample(ts[k], G!Stage) \in Paired
        BY <2>2, <2>5, <2>7, SampleTypes
      <4> HIDE DEF ts
      <4> QED BY <2>4, <4>1
    <3> HIDE DEF ss
    <3>2. kept \in Seq(Paired) /\ Clean(kept)
      BY <3>1, FilterKeeps DEF kept
    <3>3. Filed(kept)
      BY <3>2 DEF Filed, Lines
    <3>4. out' = kept
      BY <2>3, <2>7
    <3>5. Filed(out')
      BY <3>3, <3>4 DEF Filed, Clean
    <3> QED BY <1>0, <2>1, <3>5 DEF GenInv, Filed
  <2> QED BY <2>6, <2>7
<1>3. CASE G!Answered
  <2>1. PICK text \in Answers : G!Collect(<<G!ApiSample(G!Template, G!Stage, text)>>)
    BY <1>3 DEF G!Answered
  <2>2. G!Asking /\ ~G!Ended
    BY <1>3 DEF G!Answered, G!Asking
  <2>3. text \in G!Text
    BY CorpusAssumption DEF G!OptionsAssumption
  <2>4. G!ApiSample(G!Template, G!Stage, text) \in Collected
    BY <2>2, <2>3, AskingTypes, SampleTypes
  <2>5. <<G!ApiSample(G!Template, G!Stage, text)>> \in Seq(Collected)
    BY <2>4
  <2> QED BY <2>1, <2>2, <2>5, CollectStep
<1>4. ASSUME G!Asking
      PROVE  G!Fallback \in Collected /\ G!ApiSample(G!Template, G!Stage, None) \in Collected
  <2>1. ~G!Ended BY <1>4 DEF G!Asking
  <2>2. G!Stage \in G!StageNames /\ G!Template \in Template
    BY <1>4, <2>1, AskingTypes
  <2>3. G!Template.chosen \in G!Text
    BY <2>2, TemplateTypes
  <2> QED BY <2>2, <2>3, SampleTypes DEF G!Fallback
<1>5. CASE G!RequestFails
  <2>1. <<G!Fallback>> \in Seq(Collected)
    BY <1>4, <1>5 DEF G!RequestFails
  <2> QED BY <1>5, <2>1, CollectStep DEF G!RequestFails
<1>6. CASE G!NullAnswer
  <2>1. <<G!ApiSample(G!Template, G!Stage, None), G!Fallback>> \in Seq(Collected)
    BY <1>4, <1>6 DEF G!NullAnswer
  <2> QED BY <1>6, <2>1, CollectStep DEF G!NullAnswer
<1>7. CASE G!FilterAnswers
  <2>1. ~G!Ended /\ UNCHANGED <<args, files, launches>>
    BY <1>7 DEF G!FilterAnswers
  <2>2. CASE G!FilterRaises(samples)
    <3>1. stages' = << >> /\ asked' = 0 /\ samples' = << >> /\ out' = None
      BY <1>7, <2>2 DEF G!FilterAnswers, G!Idle
    <3>2. stages' \in Seq(G!StageNames) /\ samples' \in Seq(Collected)
      BY <3>1
    <3> QED BY <1>0, <2>1, <3>1, <3>2 DEF GenInv, Filed
  <2>3. CASE ~G!FilterRaises(samples)
    <3> DEFINE kept == G!FilterAndDedup(samples)
    <3>1. out' = kept /\ UNCHANGED <<stages, asked, samples>>
      BY <1>7, <2>3 DEF G!FilterAnswers
    <3>2. /\ kept \in Seq(Collected) /\ Clean(kept)
          /\ \A k \in DOMAIN kept : \E i \in G!FirstOfPrompt(samples) : kept[k] = samples[i]
      BY <1>0, FilterKeeps
    <3> HIDE DEF kept
    <3>3. ASSUME NEW k \in DOMAIN kept PROVE kept[k] \in Learned
      <4>1. PICK i \in G!FirstOfPrompt(samples) : kept[k] = samples[i]
        BY <3>2
      <4>2. kept[k] \in Collected
        BY <3>2
      <4>3. DOMAIN kept[k] = {"prompt", "response"}
        BY <4>2 DEF Collected
      <4>4. ~G!EvaluationRaises(kept[k])
        BY <2>3, <4>1 DEF G!FilterRaises
      <4>5. kept[k].response # None
        BY <4>3, <4>4 DEF G!EvaluationRaises, G!IsPair, G!Has, G!Get
      <4> QED BY <4>2, <4>5 DEF Collected, Learned
    <3>4. kept \in Seq(Learned)
      <4>1. DOMAIN kept = 1..Len(kept) /\ Len(kept) \in Nat /\ kept = [k \in 1..Len(kept) |-> kept[k]]
        BY <3>2
      <4> QED BY <3>3, <4>1
    <3>5. Filed(kept)
      BY <3>2, <3>4 DEF Filed, Lines
    <3>6. Filed(out')
      BY <3>1, <3>5 DEF Filed, Clean
    <3> QED BY <1>0, <2>1, <3>1, <3>6 DEF GenInv, Filed
  <2> QED BY <2>2, <2>3
<1>8. CASE G!Write
  <2>1. /\ ~G!Ended /\ out # None
        /\ files' = [files EXCEPT ![G!Stage] = [lines |-> out, cut |-> FALSE]]
        /\ stages' = Tail(stages) /\ asked' = 0 /\ samples' = << >> /\ out' = None
        /\ UNCHANGED <<args, launches>>
    BY <1>8 DEF G!Write
  <2>2. Tail(stages) \in Seq(G!StageNames) /\ args \in CommandLines
    BY <2>1, AskingTypes
  <2>3. \A n \in G!StageNames : Filed(files'[n].lines)
    BY <1>0, <2>1
  <2>4. DOMAIN files' = G!StageNames
    BY <1>0, <2>1
  <2>5. samples' \in Seq(Collected)
    BY <2>1
  <2> QED BY <2>1, <2>2, <2>3, <2>4, <2>5 DEF GenInv, Filed
<1>9. CASE G!Killed
  <2>1. stages' = << >> /\ asked' = 0 /\ samples' = << >> /\ out' = None
    BY <1>9 DEF G!Killed, G!Idle
  <2>2. DOMAIN files' = G!StageNames /\ \A n \in G!StageNames : Filed(files'[n].lines)
    <3>1. CASE UNCHANGED files
      BY <1>0, <3>1
    <3>2. ASSUME out # None, NEW n \in 0..Len(out), NEW cut \in BOOLEAN,
                 files' = [files EXCEPT ![G!Stage] = [lines |-> SubSeq(out, 1, n), cut |-> cut]]
          PROVE  DOMAIN files' = G!StageNames /\ \A m \in G!StageNames : Filed(files'[m].lines)
      <4>1. Filed(SubSeq(out, 1, n))
        BY <1>0, <3>2, BeginningIsFiled
      <4> QED BY <1>0, <3>2, <4>1
    <3> QED BY <1>9, <3>1, <3>2 DEF G!Killed
  <2>3. stages' \in Seq(G!StageNames) /\ samples' \in Seq(Collected)
    BY <2>1
  <2> QED BY <2>1, <2>2, <2>3 DEF GenInv, Filed
<1> QED BY <1>1, <1>2, <1>3, <1>5, <1>6, <1>7, <1>8, <1>9 DEF G!Next

LEMMA GenInvariance == Spec => []GenInv
PROOF
<1>1. Init => GenInv
  BY GenInit
<1>2. GenInv /\ [Next]_vars => GenInv'
  <2> SUFFICES ASSUME GenInv, [Next]_vars PROVE GenInv'
    OBVIOUS
  <2>1. CASE UNCHANGED generating
    BY <2>1 DEF GenInv, generating, Filed
  <2>2. CASE G!Next
    BY <2>2, GenStep
  <2>3. UNCHANGED generating \/ G!Next
    BY DEF Next, vars, Generate, Prepare, LoadGenerated, LoadPrepared, LoadChunk, Forget
  <2> QED BY <2>1, <2>2, <2>3
<1> QED BY <1>1, <1>2, PTL DEF Spec

(* WrittenIsClean: whatever answers came and wherever the process was      *)
(* killed, every line of every file passes the filter and two lines have   *)
(* one prompt only where augment_samples made them.                        *)
THEOREM FilesAreClean == Spec => []WrittenIsClean
PROOF
<1>1. GenInv => WrittenIsClean
  BY DEF GenInv, WrittenIsClean, Filed, Clean
<1> QED BY <1>1, GenInvariance, PTL

-----------------------------------------------------------------------------
(* Batches: the items.                                                      *)

(* What LossSkipsPrompts says of one item, by its kind.                   *)
LineCovered(x) ==
  LET targets == B!Targets(x.item)
      ids == x.item.ids
  IN /\ targets = {i \in 2..Len(ids) : ids[i] \in {"marker", "response"}}
     /\ \A i \in targets : x.item.mask[i] = 1
     /\ Len(ids) = MaxSeqLen
     /\ targets = {} <=> x.prompt >= MaxSeqLen

PairCovered(x) ==
  \A side \in {x.chosen, x.rejected} :
    /\ B!Targets(side) = {i \in DOMAIN side.ids : side.ids[i] # "prompt"}
    /\ {i \in DOMAIN side.ids : side.ids[i] = "prompt"}
         = {i \in DOMAIN x.chosen.ids : x.chosen.ids[i] = "prompt"}
    /\ Last(side.ids) # "eos" =>
         x.prompt >= MaxPromptLen /\ Len(side.ids) = MaxPromptLen + MaxResponseLen

Tokens(c) == {c[i] : i \in DOMAIN c}

ChunksCovered(x) ==
  LET total == Len(B!Stream(x.sizes))
  IN /\ \A c, d \in x.chunks : c # d => Tokens(c) \cap Tokens(d) = {}
     /\ \A c \in x.chunks : Len(c) = MaxSeqLen
     /\ total - Cardinality(UNION {Tokens(c) : c \in x.chunks}) \in 0..(MaxSeqLen - 1)

Covers(x) == /\ x.kind = "sft" => LineCovered(x)
             /\ x.kind = "pair" => PairCovered(x)
             /\ x.kind = "chunks" => ChunksCovered(x)

LEMMA Lengths ==
  /\ MarkerLen \in Nat /\ MarkerLen >= 2 /\ MaxSeqLen \in Nat /\ MaxSeqLen >= 2
  /\ MaxPromptLen \in Nat /\ MaxPromptLen >= 1 /\ MaxResponseLen \in Nat
BY CorpusAssumption DEF B!LengthsAssumption

LEMMA MinOfTwo ==
  ASSUME NEW a \in Nat, NEW b \in Nat
  PROVE  B!Min({a, b}) = Lesser(a, b) /\ Lesser(a, b) \in Nat
                                      /\ Lesser(a, b) <= a /\ Lesser(a, b) <= b
BY LesserIs DEF B!Min, Lesser

(* A cut keeps a beginning.                                                 *)
LEMMA CutKeeps ==
  ASSUME NEW T, NEW s \in Seq(T), NEW n \in Nat
  PROVE  /\ B!Cut(s, n) \in Seq(T) /\ Len(B!Cut(s, n)) = Lesser(n, Len(s))
         /\ \A i \in 1..Lesser(n, Len(s)) : B!Cut(s, n)[i] = s[i]
PROOF
<1> DEFINE m == Lesser(n, Len(s))
<1>1. Len(s) \in Nat OBVIOUS
<1>2. m \in Nat /\ m <= Len(s) /\ B!Min({n, Len(s)}) = m
  BY <1>1, MinOfTwo
<1>3. B!Cut(s, n) = SubSeq(s, 1, m)
  BY <1>2 DEF B!Cut
<1> HIDE DEF m
<1>4. SubSeq(s, 1, m) \in Seq(T) /\ Len(SubSeq(s, 1, m)) = m
      /\ \A i \in 1..m : SubSeq(s, 1, m)[i] = s[i]
  BY <1>2
<1> QED BY <1>3, <1>4 DEF m

(* A sequence of padding after another.                                     *)
LEMMA PaddedKeeps ==
  ASSUME NEW T, NEW s \in Seq(T), NEW pad \in T, NEW n \in Nat, Len(s) <= n
  PROVE  /\ B!Padded(s, pad, n) \in Seq(T) /\ Len(B!Padded(s, pad, n)) = n
         /\ \A i \in 1..Len(s) : B!Padded(s, pad, n)[i] = s[i]
         /\ \A i \in (Len(s) + 1)..n : B!Padded(s, pad, n)[i] = pad
PROOF
<1> DEFINE m == Len(s)
           k == n - m
           v == [i \in 1..k |-> pad]
<1>1. m \in Nat /\ k \in Nat /\ m + k = n
  OBVIOUS
<1>2. B!Padded(s, pad, n) = s \o v
  BY DEF B!Padded
<1>3. v \in Seq(T) /\ Len(v) = k /\ \A i \in 1..k : v[i] = pad
  <2> HIDE DEF k
  <2> QED BY <1>1
<1> HIDE DEF v
<1>4. s \o v \in Seq(T) /\ Len(s \o v) = m + k
  BY <1>1, <1>3
<1>5. \A i \in 1..m : (s \o v)[i] = s[i]
  BY <1>1, <1>3
<1>6. \A i \in (m + 1)..n : (s \o v)[i] = pad
  <2> TAKE i \in (m + 1)..n
  <2>1. i - m \in 1..k /\ i \in (m + 1)..(m + k) BY <1>1
  <2>2. (s \o v)[i] = v[i - m] BY <1>1, <1>3, <2>1
  <2> QED BY <1>3, <2>1, <2>2
<1> QED BY <1>1, <1>2, <1>4, <1>5, <1>6

Token == {"prompt", "marker", "response", "eos", "pad", B!Ignored}

LEMMA EncodeIs ==
  ASSUME NEW part \in Token, NEW n \in Nat
  PROVE  /\ B!Encode(part, n) \in Seq(Token) /\ Len(B!Encode(part, n)) = n
         /\ \A i \in 1..n : B!Encode(part, n)[i] = part
BY DEF B!Encode

LEMMA MaskedIs ==
  ASSUME NEW s \in Seq(Token), NEW n \in Nat
  PROVE  /\ B!Masked(s, n) \in Seq(Token) /\ Len(B!Masked(s, n)) = Len(s)
         /\ \A i \in 1..Len(s) : B!Masked(s, n)[i] = IF i <= n THEN B!Ignored ELSE s[i]
PROOF
<1>1. DOMAIN s = 1..Len(s) /\ Len(s) \in Nat OBVIOUS
<1>2. B!Masked(s, n) = [i \in 1..Len(s) |-> IF i <= n THEN B!Ignored ELSE s[i]]
  BY <1>1 DEF B!Masked
<1>3. B!Masked(s, n) \in [1..Len(s) -> Token]
  BY <1>1, <1>2 DEF Token
<1> QED BY <1>1, <1>2, <1>3

(* Two sequences of tokens, one after the other.                            *)
LEMMA JoinIs ==
  ASSUME NEW s \in Seq(Token), NEW t \in Seq(Token)
  PROVE  /\ s \o t \in Seq(Token) /\ Len(s \o t) = Len(s) + Len(t)
         /\ \A i \in 1..Len(s) : (s \o t)[i] = s[i]
         /\ \A i \in (Len(s) + 1)..(Len(s) + Len(t)) : (s \o t)[i] = t[i - Len(s)]
BY SMT

(* SFTDataset: the tokens of a line before it is cut.                       *)
SftTokens(p, r) ==
  (B!Encode("prompt", p) \o B!Encode("marker", MarkerLen)) \o B!Encode("response", r)

LEMMA SftTokensAre ==
  ASSUME NEW p \in Nat, NEW r \in Nat
  PROVE  /\ SftTokens(p, r) \in Seq(Token) /\ Len(SftTokens(p, r)) = (p + MarkerLen) + r
         /\ \A i \in 1..((p + MarkerLen) + r) :
              SftTokens(p, r)[i] = IF i <= p THEN "prompt"
                                   ELSE IF i <= p + MarkerLen THEN "marker" ELSE "response"
PROOF
<1> DEFINE u == B!Encode("prompt", p)
           v == B!Encode("marker", MarkerLen)
           w == B!Encode("response", r)
           m == p + MarkerLen
<1>0. MarkerLen \in Nat /\ m \in Nat
  BY Lengths
<1>1. /\ u \in Seq(Token) /\ Len(u) = p /\ \A i \in 1..p : u[i] = "prompt"
      /\ v \in Seq(Token) /\ Len(v) = MarkerLen /\ \A i \in 1..MarkerLen : v[i] = "marker"
      /\ w \in Seq(Token) /\ Len(w) = r /\ \A i \in 1..r : w[i] = "response"
  BY <1>0, EncodeIs DEF Token
<1> HIDE DEF u, v, w
<1> DEFINE y == u \o v
<1>2. y \in Seq(Token) /\ Len(y) = m
  BY <1>1, JoinIs
<1>3. ASSUME NEW i \in 1..m PROVE y[i] = IF i <= p THEN "prompt" ELSE "marker"
  <2>1. CASE i <= p
    <3>1. i \in 1..p BY <2>1
    <3> QED BY <1>1, <2>1, <3>1, JoinIs
  <2>2. CASE ~(i <= p)
    <3>1. i \in (p + 1)..(p + MarkerLen) /\ i - p \in 1..MarkerLen BY <1>0, <2>2
    <3>2. y[i] = v[i - p] BY <1>1, <3>1, JoinIs
    <3> QED BY <1>1, <2>2, <3>1, <3>2
  <2> QED BY <2>1, <2>2
<1> HIDE DEF y
<1>4. y \o w \in Seq(Token) /\ Len(y \o w) = m + r
  <2>1. y \o w \in Seq(Token) /\ Len(y \o w) = Len(y) + Len(w)
    BY <1>1, <1>2, JoinIs, Zenon
  <2> HIDE DEF m
  <2> QED BY ONLY <2>1, <1>1, <1>2, Zenon
<1>5. ASSUME NEW i \in 1..(m + r)
      PROVE  (y \o w)[i] = IF i <= p THEN "prompt" ELSE IF i <= m THEN "marker" ELSE "response"
  <2>1. CASE i <= m
    <3>1. i \in 1..m BY <1>0, <2>1
    <3>2. (y \o w)[i] = y[i] BY <1>1, <1>2, <3>1, JoinIs
    <3> QED BY <1>3, <2>1, <3>1, <3>2
  <2>2. CASE ~(i <= m)
    <3>1. i \in (m + 1)..(m + r) /\ i - m \in 1..r /\ ~(i <= p) BY <1>0, <2>2, Lengths
    <3>2. (y \o w)[i] = w[i - m] BY <1>1, <1>2, <3>1, JoinIs
    <3> QED BY <1>1, <2>2, <3>1, <3>2
  <2> QED BY <2>1, <2>2
<1>6. SftTokens(p, r) = y \o w
  BY DEF SftTokens, y, u, v, w
<1> QED BY <1>4, <1>5, <1>6

(* The targets of a line: what follows the prompt, as far as it was kept.   *)
LEMMA SftItemIs ==
  ASSUME NEW p \in Nat, NEW r \in Nat
  PROVE  LET x == B!SftItem(p, r)
             c == Lesser(MaxSeqLen, (p + MarkerLen) + r)
         IN /\ DOMAIN x.ids = 1..MaxSeqLen /\ Len(x.ids) = MaxSeqLen
            /\ \A i \in 1..MaxSeqLen :
                 x.ids[i] = IF i > c THEN "pad" ELSE IF i <= p THEN "prompt"
                            ELSE IF i <= p + MarkerLen THEN "marker" ELSE "response"
            /\ \A i \in 1..MaxSeqLen : i <= c => x.mask[i] = 1
            /\ B!Targets(x) = {i \in 2..MaxSeqLen : p < i /\ i <= c}
PROOF
<1> DEFINE N == MaxSeqLen
           n == (p + MarkerLen) + r
           c == Lesser(N, n)
           s == SftTokens(p, r)
           ids == B!Cut(s, N)
           e == B!MaskEnd(p, ids)
           labels == B!Masked(ids, e)
           x == B!SftItem(p, r)
<1>0. N \in Nat /\ N >= 2 /\ n \in Nat /\ MarkerLen \in Nat
  BY Lengths
<1>1. /\ s \in Seq(Token) /\ Len(s) = n
      /\ \A i \in 1..n : s[i] = IF i <= p THEN "prompt"
                                ELSE IF i <= p + MarkerLen THEN "marker" ELSE "response"
  BY SftTokensAre
<1>2. c \in Nat /\ c <= N /\ c <= n
  BY <1>0, MinOfTwo
<1>3. ids \in Seq(Token) /\ Len(ids) = c /\ \A i \in 1..c : ids[i] = s[i]
  <2> HIDE DEF s
  <2> QED BY <1>0, <1>1, CutKeeps
<1>4. e = Lesser(p, c) /\ e \in Nat /\ e <= p /\ e <= c
  <2>1. e = B!Min({p, c}) BY <1>3 DEF B!MaskEnd
  <2> HIDE DEF e, c
  <2> QED BY <1>2, <2>1, MinOfTwo
<1>5. /\ labels \in Seq(Token) /\ Len(labels) = c
      /\ \A i \in 1..c : labels[i] = IF i <= e THEN B!Ignored ELSE ids[i]
  <2> HIDE DEF ids, e
  <2> QED BY <1>3, <1>4, MaskedIs
<1>6. /\ x.ids = B!Padded(ids, "pad", N) /\ x.labels = B!Padded(labels, B!Ignored, N)
      /\ x.mask = B!Padded(B!Encode(1, c), 0, N)
  BY <1>3 DEF B!SftItem, SftTokens
<1>7. /\ Len(x.ids) = N /\ DOMAIN x.ids = 1..N
      /\ \A i \in 1..c : x.ids[i] = ids[i]
      /\ \A i \in (c + 1)..N : x.ids[i] = "pad"
  <2> HIDE DEF ids, c, x, N
  <2>1. "pad" \in Token BY DEF Token
  <2>2. /\ B!Padded(ids, "pad", N) \in Seq(Token) /\ Len(B!Padded(ids, "pad", N)) = N
        /\ \A i \in 1..c : B!Padded(ids, "pad", N)[i] = ids[i]
        /\ \A i \in (c + 1)..N : B!Padded(ids, "pad", N)[i] = "pad"
    <3>1. ids \in Seq(Token) /\ Len(ids) <= N /\ N \in Nat /\ Len(ids) = c
      BY <1>0, <1>2, <1>3
    <3>2. /\ B!Padded(ids, "pad", N) \in Seq(Token) /\ Len(B!Padded(ids, "pad", N)) = N
          /\ \A i \in 1..Len(ids) : B!Padded(ids, "pad", N)[i] = ids[i]
          /\ \A i \in (Len(ids) + 1)..N : B!Padded(ids, "pad", N)[i] = "pad"
      BY ONLY <3>1, <2>1, PaddedKeeps, SMT
    <3> QED BY ONLY <3>1, <3>2, Zenon
  <2> QED BY <1>6, <2>2
<1>8. /\ Len(x.labels) = N
      /\ \A i \in 1..c : x.labels[i] = labels[i]
      /\ \A i \in (c + 1)..N : x.labels[i] = B!Ignored
  <2> HIDE DEF labels, c, x, N
  <2>1. B!Ignored \in Token BY DEF Token
  <2>2. /\ B!Padded(labels, B!Ignored, N) \in Seq(Token) /\ Len(B!Padded(labels, B!Ignored, N)) = N
        /\ \A i \in 1..c : B!Padded(labels, B!Ignored, N)[i] = labels[i]
        /\ \A i \in (c + 1)..N : B!Padded(labels, B!Ignored, N)[i] = B!Ignored
    <3>1. labels \in Seq(Token) /\ Len(labels) <= N /\ N \in Nat /\ Len(labels) = c
      BY <1>0, <1>2, <1>5
    <3>2. /\ B!Padded(labels, B!Ignored, N) \in Seq(Token) /\ Len(B!Padded(labels, B!Ignored, N)) = N
          /\ \A i \in 1..Len(labels) : B!Padded(labels, B!Ignored, N)[i] = labels[i]
          /\ \A i \in (Len(labels) + 1)..N : B!Padded(labels, B!Ignored, N)[i] = B!Ignored
      BY ONLY <3>1, <2>1, PaddedKeeps, SMT
    <3> QED BY ONLY <3>1, <3>2, Zenon
  <2> QED BY <1>6, <2>2
<1>9. \A i \in 1..c : x.mask[i] = 1
  <2> HIDE DEF c, x, N
  <2> DEFINE ones == B!Encode(1, c)
             bits == {0, 1}
  <2>1. ones \in Seq(bits) /\ Len(ones) = c /\ \A i \in 1..c : ones[i] = 1
    BY <1>2 DEF B!Encode
  <2>3. 0 \in bits OBVIOUS
  <2> HIDE DEF ones, bits
  <2>2. \A i \in 1..c : B!Padded(ones, 0, N)[i] = ones[i]
    <3>1. 0 \in bits /\ ones \in Seq(bits) /\ Len(ones) <= N /\ N \in Nat
      BY <1>0, <1>2, <2>1, <2>3
    <3>2. \A i \in 1..Len(ones) : B!Padded(ones, 0, N)[i] = ones[i]
      BY ONLY <3>1, PaddedKeeps, SMT
    <3> QED BY ONLY <2>1, <3>2, Zenon
  <2> QED BY <1>6, <2>1, <2>2 DEF ones
<1> HIDE DEF ids, labels, s, x, c, e, n, N
<1>10. ASSUME NEW i \in 1..c
       PROVE  /\ i \in 1..n
              /\ ids[i] = IF i <= p THEN "prompt"
                          ELSE IF i <= p + MarkerLen THEN "marker" ELSE "response"
              /\ x.labels[i] = IF i <= p THEN B!Ignored ELSE ids[i]
              /\ ids[i] # B!Ignored
  <2>1. i \in 1..n BY <1>0, <1>2
  <2>2. ids[i] = IF i <= p THEN "prompt" ELSE IF i <= p + MarkerLen THEN "marker" ELSE "response"
    BY <1>1, <1>3, <2>1
  <2>3. i <= p <=> i <= e
    BY <1>2, <1>4 DEF Lesser
  <2>4. x.labels[i] = IF i <= e THEN B!Ignored ELSE ids[i]
    BY <1>5, <1>8
  <2> QED BY <2>1, <2>2, <2>3, <2>4 DEF B!Ignored
<1>11. ASSUME NEW i \in 1..N
       PROVE  /\ i > c => i \in (c + 1)..N
              /\ ~(i > c) => i \in 1..c
  BY <1>0, <1>2
<1>12. \A i \in 1..N : x.ids[i] = IF i > c THEN "pad" ELSE IF i <= p THEN "prompt"
                                 ELSE IF i <= p + MarkerLen THEN "marker" ELSE "response"
  BY <1>7, <1>10, <1>11
<1>13. B!Targets(x) = {i \in 2..N : p < i /\ i <= c}
  <2>1. B!Targets(x) = {i \in 2..N : x.labels[i] # B!Ignored}
    BY <1>8 DEF B!Targets
  <2>2. ASSUME NEW i \in 2..N PROVE x.labels[i] # B!Ignored <=> p < i /\ i <= c
    <3>0. i \in 1..N /\ (p < i <=> ~(i <= p)) /\ (i > c <=> ~(i <= c)) BY <1>0, <1>2
    <3>1. CASE i > c
      BY <1>8, <1>11, <3>0, <3>1
    <3>2. CASE ~(i > c)
      <4>1. i \in 1..c BY <1>11, <3>0, <3>2
      <4> QED BY <1>10, <3>0, <3>2, <4>1
    <3> QED BY <3>1, <3>2
  <2> QED BY <2>1, <2>2
<1>14. \A i \in 1..N : i <= c => x.mask[i] = 1
  BY <1>9, <1>11
<1> QED BY <1>7, <1>12, <1>13, <1>14 DEF c, n, N, x

LEMMA SftCovers ==
  ASSUME NEW p \in Nat, NEW r \in Nat
  PROVE  Covers(SftItemOf(p, r))
PROOF
<1> DEFINE N == MaxSeqLen
           n == (p + MarkerLen) + r
           c == Lesser(N, n)
           x == B!SftItem(p, r)
           y == SftItemOf(p, r)
<1>0. /\ N \in Nat /\ N >= 2 /\ n \in Nat /\ MarkerLen \in Nat /\ MarkerLen >= 2
      /\ c \in Nat /\ c <= N /\ c <= n /\ (c = N \/ c = n)
  BY Lengths, MinOfTwo DEF Lesser
<1>1. /\ DOMAIN x.ids = 1..N /\ Len(x.ids) = N
      /\ \A i \in 1..N : x.ids[i] = IF i > c THEN "pad" ELSE IF i <= p THEN "prompt"
                                    ELSE IF i <= p + MarkerLen THEN "marker" ELSE "response"
      /\ \A i \in 1..N : i <= c => x.mask[i] = 1
      /\ B!Targets(x) = {i \in 2..N : p < i /\ i <= c}
  BY SftItemIs
<1>2. y.kind = "sft" /\ y.prompt = p /\ y.item = x
  BY DEF SftItemOf
<1>3. n >= p + 2
  BY Lengths
<1> HIDE DEF x, y, c, n
<1>4. B!Targets(x) = {i \in 2..N : x.ids[i] \in {"marker", "response"}}
  <2>1. \A i \in 2..N : p < i /\ i <= c <=> x.ids[i] \in {"marker", "response"}
    <3> TAKE i \in 2..N
    <3>1. i \in 1..N /\ i \in Nat
      BY <1>0
    <3> QED BY <1>0, <1>1, <3>1
  <2> QED BY <1>1, <2>1
<1>5. \A i \in B!Targets(x) : x.mask[i] = 1
  <2> TAKE i \in B!Targets(x)
  <2>1. i \in 1..N /\ i <= c
    BY <1>0, <1>1
  <2> QED BY <1>1, <2>1
<1>6. B!Targets(x) = {} <=> p >= N
  <2>1. ASSUME p >= N PROVE B!Targets(x) = {}
    BY <1>0, <1>1, <2>1
  <2>2. ASSUME ~(p >= N) PROVE B!Targets(x) # {}
    <3>1. CASE p = 0
      <4>1. 2 \in 2..N /\ p < 2 /\ 2 <= c BY <1>0, <1>3, <3>1
      <4> QED BY <1>1, <4>1
    <3>2. CASE p # 0
      <4>1. p + 1 \in 2..N /\ p < p + 1 /\ p + 1 <= c BY <1>0, <1>3, <2>2, <3>2
      <4> QED BY <1>1, <4>1
    <3> QED BY <3>1, <3>2
  <2> QED BY <2>1, <2>2
<1>7. Covers(y)
  BY <1>1, <1>2, <1>4, <1>5, <1>6 DEF Covers, LineCovered
<1> QED BY <1>7 DEF y

(* DPODataset: the tokens of a side before it is cut.                       *)
PairTokens(p, r) == (B!Encode("prompt", p) \o B!Encode("response", r)) \o <<"eos">>

LEMMA PairTokensAre ==
  ASSUME NEW u \in Seq(Token), NEW w \in Seq(Token), NEW p \in Nat, NEW r \in Nat,
         Len(u) = p, Len(w) = r,
         \A i \in 1..p : u[i] = "prompt", \A i \in 1..r : w[i] = "response"
  PROVE  LET s == (u \o w) \o <<"eos">>
         IN /\ s \in Seq(Token) /\ Len(s) = (p + r) + 1
            /\ \A i \in 1..((p + r) + 1) :
                 s[i] = IF i <= p THEN "prompt" ELSE IF i <= p + r THEN "response" ELSE "eos"
PROOF
<1> DEFINE y == u \o w
           m == p + r
           e == <<"eos">>
<1>1. y \in Seq(Token) /\ Len(y) = Len(u) + Len(w)
  BY JoinIs, Zenon
<1>2. Len(y) = m /\ m \in Nat
  BY <1>1
<1>3. ASSUME NEW i \in 1..m PROVE y[i] = IF i <= p THEN "prompt" ELSE "response"
  <2>1. CASE i <= p
    <3>1. i \in 1..p BY <2>1
    <3> QED BY <2>1, <3>1, JoinIs
  <2>2. CASE ~(i <= p)
    <3>1. i \in (p + 1)..(p + r) /\ i - p \in 1..r BY <2>2
    <3>2. y[i] = w[i - p] BY <3>1, JoinIs
    <3> QED BY <2>2, <3>1, <3>2
  <2> QED BY <2>1, <2>2
<1>4. e \in Seq(Token) /\ Len(e) = 1 /\ e[1] = "eos"
  BY DEF Token
<1> HIDE DEF y, e
<1>5. y \o e \in Seq(Token) /\ Len(y \o e) = Len(y) + Len(e)
  BY <1>1, <1>4, JoinIs, Zenon
<1>6. Len(y \o e) = m + 1
  BY <1>2, <1>4, <1>5
<1>7. ASSUME NEW i \in 1..(m + 1)
      PROVE  (y \o e)[i] = IF i <= p THEN "prompt" ELSE IF i <= m THEN "response" ELSE "eos"
  <2>1. CASE i <= m
    <3>1. i \in 1..m BY <1>2, <2>1
    <3>2. (y \o e)[i] = y[i] BY <1>1, <1>2, <1>4, <3>1, JoinIs
    <3> QED BY <1>3, <2>1, <3>1, <3>2
  <2>2. CASE ~(i <= m)
    <3>1. i = m + 1 /\ i \in (m + 1)..(m + 1) /\ i - m = 1 /\ ~(i <= p) BY <1>2, <2>2
    <3>2. (y \o e)[i] = e[i - m] BY <1>1, <1>2, <1>4, <3>1, JoinIs
    <3> QED BY <1>4, <2>2, <3>1, <3>2
  <2> QED BY <2>1, <2>2
<1> QED BY <1>5, <1>6, <1>7 DEF y, e

(* A side of a pair: its prompt cut to its limit, its response cut to its   *)
(* own, and the end marker unless both are at their limits.                 *)
LEMMA PairSideIs ==
  ASSUME NEW p \in Nat, NEW r \in Nat
  PROVE  LET x == B!PairSide(p, r)
             k == Lesser(MaxPromptLen, p)
             m == Lesser(MaxResponseLen, r)
             limit == Lesser((k + m) + 1, MaxPromptLen + MaxResponseLen)
         IN /\ DOMAIN x.ids = 1..limit /\ Len(x.ids) = limit
            /\ \A i \in 1..limit :
                 x.ids[i] = IF i <= k THEN "prompt" ELSE IF i <= k + m THEN "response" ELSE "eos"
            /\ B!Targets(x) = {i \in 2..limit : ~(i <= k)}
PROOF
<1> DEFINE k == Lesser(MaxPromptLen, p)
           m == Lesser(MaxResponseLen, r)
           n == (k + m) + 1
           most == MaxPromptLen + MaxResponseLen
           limit == Lesser(n, most)
           up == B!Encode("prompt", p)
           wp == B!Encode("response", r)
           u == B!Cut(up, MaxPromptLen)
           w == B!Cut(wp, MaxResponseLen)
           s == (u \o w) \o <<"eos">>
           ids == B!Cut(s, limit)
           x == B!PairSide(p, r)
<1>1. /\ k \in Nat /\ m \in Nat /\ n \in Nat /\ most \in Nat /\ limit \in Nat
      /\ k <= MaxPromptLen /\ limit <= n /\ k <= limit
  BY Lengths DEF Lesser
<1>2. /\ up \in Seq(Token) /\ Len(up) = p /\ \A i \in 1..p : up[i] = "prompt"
      /\ wp \in Seq(Token) /\ Len(wp) = r /\ \A i \in 1..r : wp[i] = "response"
  BY EncodeIs DEF Token
<1> HIDE DEF up, wp
<1>3. u \in Seq(Token) /\ Len(u) = k /\ \A i \in 1..k : u[i] = "prompt"
  <2>1. /\ u \in Seq(Token) /\ Len(u) = Lesser(MaxPromptLen, Len(up))
        /\ \A i \in 1..Lesser(MaxPromptLen, Len(up)) : u[i] = up[i]
    <3>1. up \in Seq(Token) /\ MaxPromptLen \in Nat BY <1>2, Lengths
    <3> QED BY ONLY <3>1, CutKeeps, Zenon
  <2>2. \A i \in 1..k : i \in 1..p BY <1>1 DEF Lesser
  <2> QED BY <1>2, <2>1, <2>2
<1>4. w \in Seq(Token) /\ Len(w) = m /\ \A i \in 1..m : w[i] = "response"
  <2>1. /\ w \in Seq(Token) /\ Len(w) = Lesser(MaxResponseLen, Len(wp))
        /\ \A i \in 1..Lesser(MaxResponseLen, Len(wp)) : w[i] = wp[i]
    <3>1. wp \in Seq(Token) /\ MaxResponseLen \in Nat BY <1>2, Lengths
    <3> QED BY ONLY <3>1, CutKeeps, Zenon
  <2>2. \A i \in 1..m : i \in 1..r BY <1>1, Lengths DEF Lesser
  <2> QED BY <1>2, <2>1, <2>2
<1> HIDE DEF u, w, k, m
<1>5. /\ s \in Seq(Token) /\ Len(s) = n
      /\ \A i \in 1..n :
           s[i] = IF i <= k THEN "prompt" ELSE IF i <= k + m THEN "response" ELSE "eos"
  BY <1>1, <1>3, <1>4, PairTokensAre
<1> HIDE DEF n, most, limit, s
<1>6. ids \in Seq(Token) /\ Len(ids) = limit /\ \A i \in 1..limit : ids[i] = s[i]
  <2>1. /\ ids \in Seq(Token) /\ Len(ids) = Lesser(limit, Len(s))
        /\ \A i \in 1..Lesser(limit, Len(s)) : ids[i] = s[i]
    <3>1. s \in Seq(Token) /\ limit \in Nat BY <1>1, <1>5
    <3> QED BY ONLY <3>1, CutKeeps, Zenon
  <2>2. Lesser(limit, Len(s)) = limit
    BY <1>1, <1>5 DEF Lesser
  <2> QED BY ONLY <2>1, <2>2, Zenon
<1>7. x.ids = ids /\ x.labels = B!Masked(ids, k)
  <2>1. B!Min({Len(u) + Len(w) + 1, MaxPromptLen + MaxResponseLen}) = limit
    BY <1>1, <1>3, <1>4, MinOfTwo DEF n, most, limit
  <2>2. B!Min({Len(u), limit}) = k
    BY <1>1, <1>3, MinOfTwo DEF Lesser
  <2> QED BY <2>1, <2>2 DEF B!PairSide, u, w, up, wp, s
<1> HIDE DEF ids
<1>8. /\ Len(x.labels) = limit
      /\ \A i \in 1..limit : x.labels[i] = IF i <= k THEN B!Ignored ELSE ids[i]
  BY <1>1, <1>6, <1>7, MaskedIs
<1>9. \A i \in 1..limit :
        /\ i \in 1..n
        /\ ids[i] = IF i <= k THEN "prompt" ELSE IF i <= k + m THEN "response" ELSE "eos"
        /\ ids[i] # B!Ignored
  <2> TAKE i \in 1..limit
  <2>1. i \in 1..n BY <1>1
  <2>2. ids[i] = IF i <= k THEN "prompt" ELSE IF i <= k + m THEN "response" ELSE "eos"
    BY <1>5, <1>6, <2>1
  <2> QED BY <2>1, <2>2 DEF B!Ignored
<1>10. B!Targets(x) = {i \in 2..limit : ~(i <= k)}
  <2>1. B!Targets(x) = {i \in 2..limit : x.labels[i] # B!Ignored}
    BY <1>8 DEF B!Targets
  <2>2. ASSUME NEW i \in 2..limit PROVE x.labels[i] # B!Ignored <=> ~(i <= k)
    <3>1. i \in 1..limit BY <1>1
    <3> QED BY <1>8, <1>9, <3>1
  <2> QED BY <2>1, <2>2
<1>11. DOMAIN x.ids = 1..limit /\ Len(x.ids) = limit
  BY <1>6, <1>7
<1>12. \A i \in 1..limit :
         x.ids[i] = IF i <= k THEN "prompt" ELSE IF i <= k + m THEN "response" ELSE "eos"
  BY <1>7, <1>9
<1> QED BY <1>10, <1>11, <1>12 DEF k, m, n, most, limit

(* What LossSkipsPrompts says of a side, and which tokens are its prompt. *)
SideCovered(side, p) ==
  /\ B!Targets(side) = {i \in DOMAIN side.ids : side.ids[i] # "prompt"}
  /\ {i \in DOMAIN side.ids : side.ids[i] = "prompt"} = 1..Lesser(MaxPromptLen, p)
  /\ Last(side.ids) # "eos" =>
       p >= MaxPromptLen /\ Len(side.ids) = MaxPromptLen + MaxResponseLen

LEMMA SideCovers ==
  ASSUME NEW p \in Nat \ {0}, NEW r \in Nat
  PROVE  SideCovered(B!PairSide(p, r), p)
PROOF
<1> DEFINE k == Lesser(MaxPromptLen, p)
           m == Lesser(MaxResponseLen, r)
           n == (k + m) + 1
           most == MaxPromptLen + MaxResponseLen
           limit == Lesser(n, most)
           x == B!PairSide(p, r)
<1>1. /\ k \in Nat /\ k >= 1 /\ m \in Nat /\ n \in Nat /\ most \in Nat /\ limit \in Nat
      /\ k <= limit /\ limit <= n
  BY Lengths DEF Lesser
<1>2. limit # n => limit = most /\ p >= MaxPromptLen
  BY Lengths DEF Lesser
<1>3. /\ DOMAIN x.ids = 1..limit /\ Len(x.ids) = limit
      /\ \A i \in 1..limit :
           x.ids[i] = IF i <= k THEN "prompt" ELSE IF i <= k + m THEN "response" ELSE "eos"
      /\ B!Targets(x) = {i \in 2..limit : ~(i <= k)}
  BY PairSideIs
<1> HIDE DEF k, m, limit, x, most
<1>4. \A i \in 1..limit : x.ids[i] = "prompt" <=> i <= k
  BY <1>3
<1>5. B!Targets(x) = {i \in 1..limit : ~(i <= k)}
  BY <1>1, <1>3
<1>6. B!Targets(x) = {i \in DOMAIN x.ids : x.ids[i] # "prompt"}
  BY <1>3, <1>4, <1>5
<1>7. {i \in DOMAIN x.ids : x.ids[i] = "prompt"} = 1..k
  <2>1. {i \in 1..limit : i <= k} = 1..k
    BY <1>1
  <2> QED BY <1>3, <1>4, <2>1
<1>8. Last(x.ids) # "eos" => limit # n
  <2> SUFFICES ASSUME limit = n PROVE Last(x.ids) = "eos"
    OBVIOUS
  <2>1. limit \in 1..limit /\ ~(limit <= k) /\ ~(limit <= k + m)
    BY <1>1
  <2>2. Last(x.ids) = x.ids[limit]
    BY <1>3 DEF Last
  <2> QED BY <1>3, <2>1, <2>2
<1> QED BY <1>2, <1>3, <1>6, <1>7, <1>8 DEF SideCovered, k, x, most

LEMMA PairCovers ==
  ASSUME NEW p \in Nat \ {0}, NEW c \in Nat, NEW r \in Nat, NEW y,
         y = [kind |-> "pair", prompt |-> p, chosen |-> B!PairSide(p, c),
              rejected |-> B!PairSide(p, r)]
  PROVE  Covers(y)
PROOF
<1>1. /\ y.kind = "pair" /\ y.prompt = p
      /\ y.chosen = B!PairSide(p, c) /\ y.rejected = B!PairSide(p, r)
  OBVIOUS
<1>2. \A side \in {y.chosen, y.rejected} : SideCovered(side, p)
  BY <1>1, SideCovers
<1>3. {i \in DOMAIN y.chosen.ids : y.chosen.ids[i] = "prompt"} = 1..Lesser(MaxPromptLen, p)
  BY ONLY <1>2, Zenon DEF SideCovered
<1>4. \A side \in {y.chosen, y.rejected} :
        /\ B!Targets(side) = {i \in DOMAIN side.ids : side.ids[i] # "prompt"}
        /\ {i \in DOMAIN side.ids : side.ids[i] = "prompt"}
             = {i \in DOMAIN y.chosen.ids : y.chosen.ids[i] = "prompt"}
        /\ Last(side.ids) # "eos" =>
             y.prompt >= MaxPromptLen /\ Len(side.ids) = MaxPromptLen + MaxResponseLen
  BY ONLY <1>1, <1>2, <1>3, Zenon DEF SideCovered
<1>5. y.kind = "pair"
  BY <1>1
<1>6. PairCovered(y)
  BY ONLY <1>4 DEF PairCovered
<1> QED BY <1>5, <1>6 DEF Covers

-----------------------------------------------------------------------------
(* Batches: the chunks.                                                     *)

(* Multiples of a number, in their order.                                   *)
LEMMA MultiplesOrdered ==
  ASSUME NEW m \in Nat \ {0}, NEW i \in Nat, NEW j \in Nat
  PROVE  /\ i < j => (i + 1) * m <= j * m
         /\ i <= j => i * m <= j * m
         /\ i * m \in Nat /\ (i + 1) * m = i * m + m
BY SMT

(* The tokens of a piece of a sequence.                                     *)
LEMMA PieceIs ==
  ASSUME NEW T, NEW s \in Seq(T), NEW a \in Nat, NEW b \in Nat, a <= b, b <= Len(s)
  PROVE  /\ Len(SubSeq(s, a + 1, b)) = b - a
         /\ Tokens(SubSeq(s, a + 1, b)) = {s[k] : k \in (a + 1)..b}
PROOF
<1> DEFINE c == SubSeq(s, a + 1, b)
<1>1. Len(c) = b - a /\ DOMAIN c = 1..(b - a) /\ \A i \in 1..(b - a) : c[i] = s[a + i]
  OBVIOUS
<1> HIDE DEF c
<1>2. Tokens(c) = {c[i] : i \in 1..(b - a)}
  BY <1>1 DEF Tokens
<1>3. ASSUME NEW x \in Tokens(c) PROVE x \in {s[k] : k \in (a + 1)..b}
  <2>1. PICK i \in 1..(b - a) : x = c[i] BY <1>2, <1>3
  <2>2. a + i \in (a + 1)..b BY <2>1
  <2> QED BY <1>1, <2>1, <2>2
<1>4. ASSUME NEW x \in {s[k] : k \in (a + 1)..b} PROVE x \in Tokens(c)
  <2>1. PICK k \in (a + 1)..b : x = s[k] BY <1>4
  <2>2. k - a \in 1..(b - a) /\ a + (k - a) = k BY <2>1
  <2>3. c[k - a] = s[k] BY ONLY <1>1, <2>2
  <2> QED BY <1>2, <2>1, <2>2, <2>3
<1>5. Tokens(c) = {s[k] : k \in (a + 1)..b}
  BY ONLY <1>3, <1>4, Zenon
<1> QED BY <1>1, <1>5 DEF c

Distinct(s) == \A j, k \in 1..Len(s) : s[j] = s[k] => j = k

Piece(s, m, i) == SubSeq(s, i * m + 1, (i + 1) * m)

PieceFits(s, m, i) ==
  /\ Len(Piece(s, m, i)) = m
  /\ Tokens(Piece(s, m, i)) = {s[k] : k \in (i * m + 1)..(i * m + m)}

LEMMA OnePiece ==
  ASSUME NEW T, NEW s \in Seq(T), NEW m \in Nat, NEW i \in Nat, i * m + m <= Len(s)
  PROVE  PieceFits(s, m, i)
PROOF
<1> DEFINE a == i * m
           b == (i + 1) * m
<1>2. a \in Nat /\ b = a + m
  BY SMT
<1>3. b \in Nat /\ a <= b /\ b <= Len(s) /\ b - a = m
  <2> HIDE DEF a, b
  <2>1. a + m <= Len(s) BY DEF a
  <2> QED BY <1>2, <2>1
<1>4. Piece(s, m, i) = SubSeq(s, a + 1, b)
  BY DEF Piece
<1> HIDE DEF a, b
<1>5. /\ Len(SubSeq(s, a + 1, b)) = b - a
      /\ Tokens(SubSeq(s, a + 1, b)) = {s[k] : k \in (a + 1)..b}
  <2>1. s \in Seq(T) /\ a \in Nat /\ b \in Nat /\ a <= b /\ b <= Len(s) BY <1>2, <1>3
  <2> QED BY ONLY <2>1, PieceIs, SMT
<1>6. Len(Piece(s, m, i)) = m /\ Tokens(Piece(s, m, i)) = {s[k] : k \in (a + 1)..(a + m)}
  BY ONLY <1>2, <1>3, <1>4, <1>5, Zenon
<1> QED BY <1>6 DEF a, PieceFits

(* Pieces of one length, one after another, of a sequence whose elements    *)
(* differ.                                                                  *)
PiecesFit(pieces, m, n) ==
  /\ \A c \in pieces : Len(c) = m
  /\ \A c, d \in pieces : c # d => Tokens(c) \cap Tokens(d) = {}
  /\ Cardinality(UNION {Tokens(c) : c \in pieces}) = n

LEMMA PiecesOf ==
  ASSUME NEW T, NEW s \in Seq(T), Distinct(s), NEW m \in Nat \ {0}, NEW q \in Nat,
         q * m <= Len(s), NEW pieces, pieces = {Piece(s, m, i) : i \in 0..(q - 1)}
  PROVE  PiecesFit(pieces, m, q * m)
PROOF
<1> DEFINE n == q * m
<1>0. n \in Nat /\ n <= Len(s) /\ Len(s) \in Nat
  BY MultiplesOrdered
<1> DEFINE start == [i \in 0..(q - 1) |-> i * m]
<1>1. /\ \A i \in 0..(q - 1) : /\ start[i] \in Nat /\ start[i] + m <= n
                                /\ Len(Piece(s, m, i)) = m
                                /\ Tokens(Piece(s, m, i)) =
                                     {s[k] : k \in (start[i] + 1)..(start[i] + m)}
      /\ \A i, j \in 0..(q - 1) : i < j => start[i] + m <= start[j]
  <2>1. ASSUME NEW i \in 0..(q - 1)
        PROVE  /\ start[i] = i * m /\ start[i] \in Nat /\ start[i] + m <= n
               /\ \A j \in 0..(q - 1) : i < j => start[i] + m <= j * m
    <3>1. i \in Nat /\ i < q /\ start[i] = i * m OBVIOUS
    <3>2. /\ i * m \in Nat /\ (i + 1) * m = i * m + m /\ (i + 1) * m <= q * m
          /\ \A j \in 0..(q - 1) : i < j => (i + 1) * m <= j * m
      BY <3>1, MultiplesOrdered
    <3> QED BY ONLY <3>1, <3>2, Zenon
  <2>2. ASSUME NEW i \in 0..(q - 1)
        PROVE  /\ Len(Piece(s, m, i)) = m
               /\ Tokens(Piece(s, m, i)) = {s[k] : k \in (i * m + 1)..(i * m + m)}
    <3>0. s \in Seq(T) /\ m \in Nat /\ i \in Nat OBVIOUS
    <3>1. i * m + m <= Len(s)
      <4> DEFINE a == i * m
      <4>1. a + m <= n /\ a \in Nat BY <2>1
      <4> HIDE DEF a, n
      <4> QED BY <1>0, <4>1 DEF a
    <3>2. PieceFits(s, m, i) BY ONLY <3>0, <3>1, OnePiece, SMT
    <3> QED BY <3>2 DEF PieceFits
  <2> HIDE DEF start, n
  <2> QED BY <2>1, <2>2, Zenon
<1> HIDE DEF start
<1>2. \A c \in pieces : Len(c) = m
  BY <1>1, Zenon
<1>3. ASSUME NEW c \in pieces, NEW d \in pieces, c # d
      PROVE  Tokens(c) \cap Tokens(d) = {}
  <2>1. ASSUME NEW i \in 0..(q - 1), NEW j \in 0..(q - 1), i < j
        PROVE  Tokens(Piece(s, m, i)) \cap Tokens(Piece(s, m, j)) = {}
    <3> SUFFICES ASSUME NEW x \in Tokens(Piece(s, m, i)), x \in Tokens(Piece(s, m, j))
                 PROVE  FALSE
      OBVIOUS
    <3> HIDE DEF n
    <3>1. PICK k \in (start[i] + 1)..(start[i] + m) : x = s[k]
      BY <1>1
    <3>2. PICK l \in (start[j] + 1)..(start[j] + m) : x = s[l]
      BY <1>1
    <3>3. k \in 1..Len(s) /\ l \in 1..Len(s) /\ k < l
      <4> DEFINE a == start[i]
                 b == start[j]
      <4>1. a \in Nat /\ b \in Nat /\ a + m <= b /\ a + m <= n /\ b + m <= n
        BY <1>1, <2>1
      <4>2. k \in (a + 1)..(a + m) /\ l \in (b + 1)..(b + m)
        OBVIOUS
      <4> HIDE DEF a, b
      <4> QED BY <1>0, <4>1, <4>2
    <3>4. k = l BY ONLY <3>1, <3>2, <3>3, Distinct(s), Zenon DEF Distinct
    <3> QED BY <3>3, <3>4
  <2>2. PICK i \in 0..(q - 1) : c = Piece(s, m, i) OBVIOUS
  <2>3. PICK j \in 0..(q - 1) : d = Piece(s, m, j) OBVIOUS
  <2>4. i < j \/ j < i BY <1>3, <2>2, <2>3
  <2> QED BY <2>1, <2>2, <2>3, <2>4
<1> DEFINE U == UNION {Tokens(c) : c \in pieces}
           V == {s[k] : k \in 1..n}
<1>4. ASSUME NEW x \in U PROVE x \in V
  <2>1. PICK i \in 0..(q - 1) : x \in Tokens(Piece(s, m, i)) BY <1>4
  <2> HIDE DEF n
  <2>2. PICK k \in (start[i] + 1)..(start[i] + m) : x = s[k]
    BY <1>1, <2>1
  <2>3. k \in 1..n
    <3> DEFINE a == start[i]
    <3>1. a \in Nat /\ a + m <= n /\ k \in (a + 1)..(a + m) BY <1>1
    <3> HIDE DEF a
    <3> QED BY <1>0, <3>1
  <2> QED BY <2>2, <2>3
<1>5. ASSUME NEW x \in V PROVE x \in U
  <2>1. PICK k \in 1..n : x = s[k] BY <1>5
  <2> DEFINE b == k - 1
             i == b \div m
             z == b % m
             a == i * m
  <2>2. b \in Nat /\ b < n /\ k = b + 1
    <3> HIDE DEF n
    <3> QED BY <1>0
  <2> HIDE DEF b
  <2>3. b = m * i + z /\ z \in 0..(m - 1) /\ i \in Nat
    BY <2>2, Division
  <2> HIDE DEF i, z
  <2>4. a \in Nat /\ b = a + z
    <3>1. m * i = a BY <2>3
    <3>2. a \in Nat BY <2>3, MultiplesOrdered
    <3> QED BY ONLY <2>3, <3>1, <3>2, Zenon
  <2>5. k \in (a + 1)..(a + m)
    <3> HIDE DEF a
    <3> QED BY <2>2, <2>3, <2>4
  <2>6. i < q
    <3> SUFFICES ASSUME q <= i PROVE FALSE BY <2>3
    <3>1. n <= a BY <2>3, MultiplesOrdered
    <3> HIDE DEF a, n
    <3> QED BY <1>0, <2>2, <2>3, <2>4, <3>1
  <2>7. i \in 0..(q - 1) BY <2>3, <2>6
  <2>8. start[i] = a BY <2>7 DEF start
  <2> HIDE DEF a, n
  <2>9. x \in Tokens(Piece(s, m, i))
    <3>1. Tokens(Piece(s, m, i)) = {s[l] : l \in (a + 1)..(a + m)}
      BY ONLY <1>1, <2>7, <2>8, Zenon
    <3> QED BY ONLY <2>1, <2>5, <3>1, Zenon
  <2> QED BY <2>7, <2>9
<1>6. U = V
  BY ONLY <1>4, <1>5, Zenon
<1>7. Cardinality(V) = n
  <2> DEFINE g == [k \in 1..n |-> s[k]]
  <2>1. g \in Bijection(1..n, V)
    <3> HIDE DEF n
    <3>1. \A k \in 1..n : k \in 1..Len(s) BY <1>0
    <3>2. g \in [1..n -> V] OBVIOUS
    <3>3. \A j, k \in 1..n : g[j] = g[k] => j = k BY <3>1 DEF Distinct
    <3>4. \A x \in V : \E k \in 1..n : g[k] = x OBVIOUS
    <3> QED BY <3>2, <3>3, <3>4 DEF Bijection, Injection, Surjection, IsInjective
  <2>2. ExistsBijection(1..n, V)
    BY <2>1 DEF ExistsBijection
  <2> HIDE DEF V, n
  <2>3. IsFiniteSet(1..n) /\ Cardinality(1..n) = n
    BY <1>0, FS_Interval
  <2> QED BY <2>2, <2>3, FS_Bijection
<1> HIDE DEF U, V
<1> QED BY <1>2, <1>3, <1>6, <1>7 DEF PiecesFit, U

(* PretrainDataset: the tokens of the files, each named by its place, are   *)
(* all different.                                                           *)
LEMMA StreamIs ==
  ASSUME NEW sizes \in Seq(Nat)
  PROVE  B!Stream(sizes) \in Seq(Nat \X Nat) /\ Distinct(B!Stream(sizes))
PROOF
<1> DEFINE ss == [f \in DOMAIN sizes |-> [i \in 1..sizes[f] |-> <<f, i>>]]
           r == FlattenSeq(ss)
<1>0. DOMAIN sizes = 1..Len(sizes) /\ Len(sizes) \in Nat /\ \A f \in 1..Len(sizes) : sizes[f] \in Nat
  OBVIOUS
<1>1. /\ ss \in Seq(Seq(Nat \X Nat)) /\ Len(ss) = Len(sizes)
      /\ \A f \in 1..Len(sizes) :
           Len(ss[f]) = sizes[f] /\ \A i \in 1..sizes[f] : ss[f][i] = <<f, i>>
  <2>1. \A f \in 1..Len(sizes) : [i \in 1..sizes[f] |-> <<f, i>>] \in Seq(Nat \X Nat)
    <3> TAKE f \in 1..Len(sizes)
    <3> DEFINE t == sizes[f]
    <3>1. t \in Nat /\ f \in Nat BY <1>0
    <3> HIDE DEF t
    <3>2. [i \in 1..t |-> <<f, i>>] \in Seq(Nat \X Nat) BY <3>1
    <3> QED BY <3>2 DEF t
  <2>2. \A f \in 1..Len(sizes) : Len([i \in 1..sizes[f] |-> <<f, i>>]) = sizes[f]
    BY <1>0
  <2>3. ss \in [1..Len(sizes) -> Seq(Nat \X Nat)]
    BY <1>0, <2>1
  <2> QED BY <1>0, <2>2, <2>3
<1>2. B!Stream(sizes) = r
  BY FlattenIsOne DEF B!Stream
<1> HIDE DEF ss
<1>3. r \in Seq(Nat \X Nat) /\ \E at : ComesFrom(at, r, ss, Len(ss))
  BY <1>1, FlattenPlaces
<1>4. PICK at : ComesFrom(at, r, ss, Len(ss))
  BY <1>3
<1> HIDE DEF r
<1>5. \A k \in 1..Len(r) : r[k] = at[k]
  <2> TAKE k \in 1..Len(r)
  <2>1. /\ at[k] \in Nat \X Nat /\ at[k][1] \in 1..Len(ss) /\ at[k][2] \in 1..Len(ss[at[k][1]])
        /\ r[k] = ss[at[k][1]][at[k][2]]
    BY <1>4 DEF ComesFrom
  <2>2. PICK f \in Nat, i \in Nat : at[k] = <<f, i>>
    BY <2>1
  <2>3. f \in 1..Len(sizes) /\ i \in 1..Len(ss[f]) /\ r[k] = ss[f][i]
    BY <1>1, <2>1, <2>2
  <2>4. r[k] = <<f, i>>
    BY ONLY <1>1, <2>3, Zenon
  <2> QED BY <2>2, <2>4
<1>6. Distinct(r)
  BY ONLY <1>4, <1>5, Zenon DEF ComesFrom, Distinct
<1> QED BY <1>2, <1>3, <1>6

LEMMA ChunksCover ==
  ASSUME NEW sizes \in Seq(Nat), NEW y,
         y = [kind |-> "chunks", sizes |-> sizes, chunks |-> B!Chunks(sizes)]
  PROVE  Covers(y)
PROOF
<1> DEFINE s == B!Stream(sizes)
           N == MaxSeqLen
           q == Len(s) \div N
           z == Len(s) % N
           pieces == B!Chunks(sizes)
<1>1. y.kind = "chunks" /\ y.sizes = sizes /\ y.chunks = pieces
  OBVIOUS
<1>2. s \in Seq(Nat \X Nat) /\ Distinct(s)
  BY StreamIs
<1>3. pieces = {Piece(s, N, i) : i \in 0..(q - 1)}
  BY DEF B!Chunks, Piece
<1>4. N \in Nat \ {0}
  BY Lengths
<1> HIDE DEF s, N, pieces
<1>5. Len(s) \in Nat
  BY <1>2
<1>6. Len(s) = N * q + z /\ z \in 0..(N - 1) /\ q \in Nat
  BY <1>4, <1>5, Division
<1> HIDE DEF q, z
<1>7. q * N \in Nat /\ Len(s) = q * N + z /\ q * N <= Len(s)
  BY <1>4, <1>6, MultiplesOrdered
<1>8. /\ \A c \in pieces : Len(c) = N
      /\ \A c, d \in pieces : c # d => Tokens(c) \cap Tokens(d) = {}
      /\ Cardinality(UNION {Tokens(c) : c \in pieces}) = q * N
  <2>1. PiecesFit(pieces, N, q * N)
    BY <1>2, <1>3, <1>4, <1>6, <1>7, PiecesOf
  <2> QED BY <2>1 DEF PiecesFit
<1>9. Len(s) - Cardinality(UNION {Tokens(c) : c \in pieces}) \in 0..(N - 1)
  <2> DEFINE card == Cardinality(UNION {Tokens(c) : c \in pieces})
             n == q * N
  <2>1. card = n /\ Len(s) = n + z /\ n \in Nat BY <1>7, <1>8
  <2> HIDE DEF card, n
  <2>2. Len(s) - card = z BY <1>6, <2>1
  <2> QED BY <1>6, <2>2 DEF card
<1>10. ChunksCovered(y)
  BY <1>1, <1>8, <1>9 DEF ChunksCovered, s, N
<1> QED BY <1>1, <1>10 DEF Covers

-----------------------------------------------------------------------------
(* The items of a behaviour.                                                *)

(* A line of a file has a prompt, and its texts have lengths.               *)
LEMMA LineLengths ==
  ASSUME NEW s \in Lines, NEW key \in {"response", "chosen", "rejected"}
  PROVE  s.prompt.len \in Nat \ {0} /\ LengthOf(s, key) \in Nat
PROOF
<1>1. \A t \in G!Text : t.len \in Nat
  BY DEF G!Text
<1>2. CASE s \in Learned
  <2>1. s.prompt.len \in Nat \ {0} /\ DOMAIN s = {"prompt", "response"} /\ s.response \in G!Text
    BY <1>2 DEF Learned, Prompts
  <2>2. key \in DOMAIN s => s[key].len \in Nat
    BY <1>1, <2>1
  <2> QED BY <2>1, <2>2 DEF LengthOf
<1>3. CASE s \in Paired
  <2>1. /\ s.prompt.len \in Nat \ {0} /\ DOMAIN s = {"prompt", "chosen", "rejected"}
        /\ s.chosen \in G!Text /\ s.rejected \in G!Text
    BY <1>3 DEF Paired, Prompts
  <2>2. key \in DOMAIN s => s[key].len \in Nat
    BY <1>1, <2>1
  <2> QED BY <2>1, <2>2 DEF LengthOf
<1> QED BY <1>2, <1>3 DEF Lines

(* The inductive invariant: what was loaded last is covered.                *)
ItemInv == item # None => Covers(item)

LEMMA LoadStep ==
  ASSUME GenInv, PrepInv, ItemInv, [Next]_vars
  PROVE  ItemInv'
PROOF
<1>1. CASE item' = item
  BY <1>1 DEF ItemInv
<1>2. CASE item' = None
  BY <1>2 DEF ItemInv
<1>3. CASE LoadGenerated
  <2>0. PICK n \in G!StageNames : \E k \in DOMAIN files[n].lines :
          LET s == files[n].lines[k]
          IN item' = IF files[n].cut THEN Unreadable
                     ELSE IF n \in SftFiles
                          THEN SftItemOf(s.prompt.len, LengthOf(s, "response"))
                     ELSE PairOf(s)
    BY <1>3 DEF LoadGenerated
  <2>1. PICK k \in DOMAIN files[n].lines :
          LET s == files[n].lines[k]
          IN item' = IF files[n].cut THEN Unreadable
                     ELSE IF n \in SftFiles
                          THEN SftItemOf(s.prompt.len, LengthOf(s, "response"))
                     ELSE PairOf(s)
    BY <2>0
  <2>2. PICK s \in Lines : s = files[n].lines[k]
    BY DEF GenInv, Filed
  <2>3. Covers(Unreadable)
    BY DEF Unreadable, Covers
  <2>4. Covers(SftItemOf(s.prompt.len, LengthOf(s, "response")))
    BY LineLengths, SftCovers
  <2>5. Covers(PairOf(s))
    <3> DEFINE p == s.prompt.len
               c == LengthOf(s, "chosen")
               r == LengthOf(s, "rejected")
    <3>1. p \in Nat \ {0} /\ c \in Nat /\ r \in Nat
      BY LineLengths
    <3>2. PairOf(s) = [kind |-> "pair", prompt |-> p, chosen |-> B!PairSide(p, c),
                       rejected |-> B!PairSide(p, r)]
      BY DEF PairOf
    <3> HIDE DEF p, c, r
    <3> QED BY <3>1, <3>2, PairCovers
  <2>6. item' \in {Unreadable, SftItemOf(s.prompt.len, LengthOf(s, "response")), PairOf(s)}
    BY <2>1, <2>2
  <2> QED BY <2>3, <2>4, <2>5, <2>6 DEF ItemInv
<1>4. CASE LoadPrepared
  <2>0. PICK n \in P!SplitNames : \E k \in DOMAIN splits[n] :
          LET s == splits[n][k]
          IN item' = SftItemOf(PartLen * Len(s.prompt), IF s.text = "" THEN 0 ELSE PartLen)
    BY <1>4 DEF LoadPrepared
  <2>1. PICK k \in DOMAIN splits[n] :
          LET s == splits[n][k]
          IN item' = SftItemOf(PartLen * Len(s.prompt), IF s.text = "" THEN 0 ELSE PartLen)
    BY <2>0
  <2>2. PICK s \in Converted : s = splits[n][k]
    BY DEF PrepInv
  <2> DEFINE m == Len(s.prompt)
             p == PartLen * m
             r == IF s.text = "" THEN 0 ELSE PartLen
  <2>3. m \in Nat /\ PartLen \in Nat
    BY SampleLacksItsAnswer, CorpusAssumption DEF Counted
  <2>4. p \in Nat /\ r \in Nat
    <3>1. p \in Nat
      <4> HIDE DEF m
      <4> QED BY ONLY <2>3, SMT
    <3>2. r \in Nat
      BY <2>3
    <3> QED BY <3>1, <3>2
  <2>5. item' = SftItemOf(p, r)
    BY <2>1, <2>2
  <2> HIDE DEF p, r
  <2>6. PICK q \in Nat : q = p BY <2>4
  <2>7. PICK t \in Nat : t = r BY <2>4
  <2>8. Covers(SftItemOf(q, t))
    BY SftCovers
  <2>9. item' = SftItemOf(q, t) BY <2>5, <2>6, <2>7
  <2> QED BY <2>8, <2>9 DEF ItemInv
<1>5. CASE LoadChunk
  <2>1. PICK sizes \in TokenFiles :
          item' = [kind |-> "chunks", sizes |-> sizes, chunks |-> B!Chunks(sizes)]
    BY <1>5 DEF LoadChunk
  <2>2. sizes \in Seq(Nat)
    BY CorpusAssumption
  <2>3. \A y : y = [kind |-> "chunks", sizes |-> sizes, chunks |-> B!Chunks(sizes)] => Covers(y)
    BY <2>2, ChunksCover
  <2> HIDE DEF Covers
  <2> QED BY <2>1, <2>3 DEF ItemInv
<1> QED BY <1>1, <1>2, <1>3, <1>4, <1>5 DEF Next, vars, Generate, Prepare, Forget

(* LossSkipsPrompts: whatever line of whatever file is loaded, and whatever *)
(* the lengths of the texts and the limits, the loss looks at nothing of    *)
(* the prompt nor the padding and at every other token, the assistant       *)
(* marker's among them, and a stream's tokens are in at most one chunk each. *)
THEOREM LossIsAfterPrompts == Spec => []LossSkipsPrompts
PROOF
<1>1. Init => ItemInv
  BY DEF Init, ItemInv
<1>2. GenInv /\ PrepInv /\ ItemInv /\ [Next]_vars => ItemInv'
  BY LoadStep
<1>3. Spec => []ItemInv
  BY <1>1, <1>2, GenInvariance, PrepInvariance, PTL DEF Spec
<1>4. ItemInv => LossSkipsPrompts
  <2> SUFFICES ASSUME ItemInv, item # None PROVE LossSkipsPrompts
    BY DEF LossSkipsPrompts
  <2>1. Covers(item)
    BY DEF ItemInv
  <2>2. CASE item.kind = "sft"
    <3>1. LineCovered(item) BY <2>1, <2>2 DEF Covers
    <3> QED BY <2>2, <3>1 DEF LineCovered, LossSkipsPrompts
  <2>3. CASE item.kind = "pair"
    <3>1. PairCovered(item) BY <2>1, <2>3 DEF Covers
    <3> QED BY <2>3, <3>1 DEF PairCovered, LossSkipsPrompts
  <2>4. CASE item.kind = "chunks"
    <3>1. ChunksCovered(item) BY <2>1, <2>4 DEF Covers
    <3> QED BY <2>4, <3>1 DEF ChunksCovered, Tokens, LossSkipsPrompts
  <2>5. CASE item.kind \notin {"sft", "pair", "chunks"}
    BY <2>5 DEF LossSkipsPrompts
  <2> QED BY <2>2, <2>3, <2>4, <2>5
<1> QED BY <1>3, <1>4, PTL
=============================================================================
