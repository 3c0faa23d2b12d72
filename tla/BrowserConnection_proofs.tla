----------------------- MODULE BrowserConnection_proofs -----------------------
(***************************************************************************)
(* Theorems about BrowserConnection for any calls, tabs and faults.        *)
(***************************************************************************)
EXTENDS BrowserConnection, SequenceTheorems, FiniteSetTheorems, WellFoundedInduction, TLAPS

-----------------------------------------------------------------------------
(* Sequences.  Kept takes the members by their rank among those it keeps:  *)
(* ranks are a bijection, so that nothing is lost, repeated or moved.      *)
Injective(s) == \A i, j \in DOMAIN s : s[i] = s[j] => i = j

LEMMA RangeSeq ==
  ASSUME NEW S, NEW s \in Seq(S)
  PROVE  /\ DOMAIN s = 1..Len(s) /\ Len(s) \in Nat
         /\ Range(s) \in SUBSET S /\ \A i \in 1..Len(s) : s[i] \in Range(s)
BY DEF Range

LEMMA RankIsTaken ==
  ASSUME NEW n \in Nat, NEW K \in SUBSET (1..n)
  PROVE  LET m == Cardinality(K)
             rank(k) == Cardinality({j \in K : j <= k})
         IN  /\ IsFiniteSet(K) /\ m \in Nat
             /\ \A k \in K : rank(k) \in 1..m
             /\ \A j, k \in K : rank(j) = rank(k) => j = k
             /\ \A i \in 1..m : \E k \in K : rank(k) = i
<1> DEFINE m == Cardinality(K)
           below(k) == {j \in K : j <= k}
           rank == [k \in K |-> Cardinality(below(k))]
<1>0. IsFiniteSet(K) /\ m \in Nat
  <2>1. IsFiniteSet(1..n)
    BY FS_Interval
  <2>2. IsFiniteSet(K)
    BY <2>1, FS_Subset
  <2> QED BY <2>2, FS_CardinalityType
<1>1. \A k \in K : IsFiniteSet(below(k)) /\ Cardinality(below(k)) \in 1..m
  <2> TAKE k \in K
  <2>1. below(k) \in SUBSET K /\ IsFiniteSet(below(k)) /\ Cardinality(below(k)) <= m
    BY <1>0, FS_Subset, Zenon
  <2>2. k \in below(k)
    OBVIOUS
  <2>3. Cardinality(below(k)) # 0
    BY <2>1, <2>2, FS_EmptySet
  <2>4. Cardinality(below(k)) \in Nat
    BY <2>1, FS_CardinalityType
  <2> QED BY <1>0, <2>1, <2>3, <2>4
<1>2. \A j, k \in K : rank[j] = rank[k] => j = k
  <2>1. ASSUME NEW j \in K, NEW k \in K, rank[j] = rank[k], j <= k
        PROVE  j = k
    <3>1. below(j) \in SUBSET below(k)
      <4>1. \A i \in K : i \in Nat
        OBVIOUS
      <4>2. \A i \in K : i <= j => i <= k
        BY <2>1, <4>1
      <4> QED BY <4>2
    <3>2. Cardinality(below(j)) = Cardinality(below(k))
      BY <2>1
    <3>3. below(j) = below(k)
      <4> HIDE DEF below
      <4> QED BY <1>1, <3>1, <3>2, FS_Subset
    <3>4. k \in below(j)
      BY <3>3
    <3> QED BY <2>1, <3>4
  <2> QED BY <2>1
<1>3. rank \in [K -> 1..m]
  BY <1>1
<1>4. rank \in Injection(K, 1..m)
  <2> HIDE DEF rank
  <2> QED BY <1>2, <1>3 DEF Injection, IsInjective
<1>5. IsFiniteSet(1..m) /\ Cardinality(1..m) = m
  BY <1>0, FS_Interval
<1>6. rank \in Surjection(K, 1..m)
  <2> HIDE DEF rank, m
  <2> QED BY <1>0, <1>4, <1>5, FS_Injection DEF m
<1>7. \A i \in 1..m : \E k \in K : rank[k] = i
  <2> HIDE DEF rank
  <2> QED BY <1>6 DEF Surjection
<1> QED BY <1>0, <1>1, <1>2, <1>7

LEMMA KeptOnly ==
  ASSUME NEW S, NEW s \in Seq(S), NEW T
  PROVE  LET r == Kept(s, T) IN
         /\ r \in Seq(S) /\ Range(r) = Range(s) \cap T
         /\ Injective(s) => Injective(r)
         /\ (s # <<>> /\ Head(s) \in T) => r # <<>> /\ Head(r) = Head(s)
<1> DEFINE K == {k \in DOMAIN s : s[k] \in T}
           m == Cardinality(K)
           rank(k) == Cardinality({j \in K : j <= k})
           at(i) == CHOOSE k \in K : rank(k) = i
           r == [i \in 1..m |-> s[at(i)]]
<1>0. Kept(s, T) = r
  BY DEF Kept
<1>1. DOMAIN s = 1..Len(s) /\ Len(s) \in Nat /\ K \in SUBSET (1..Len(s))
  OBVIOUS
<1>2. /\ m \in Nat /\ IsFiniteSet(K)
      /\ \A k \in K : rank(k) \in 1..m
      /\ \A j, k \in K : rank(j) = rank(k) => j = k
      /\ \A i \in 1..m : \E k \in K : rank(k) = i
  <2> HIDE DEF K
  <2> QED BY <1>1, RankIsTaken
<1>3. \A i \in 1..m : at(i) \in K /\ rank(at(i)) = i
  <2> HIDE DEF K, rank
  <2> QED BY <1>2
<1>4. \A k \in K : at(rank(k)) = k
  <2> HIDE DEF K, rank, at
  <2> QED BY <1>2, <1>3
<1>5. \A i \in 1..m : s[at(i)] \in S /\ s[at(i)] \in T /\ s[at(i)] \in Range(s)
  <2> HIDE DEF at, m
  <2> QED BY <1>3, RangeSeq
<1>6. r \in Seq(S) /\ Len(r) = m /\ DOMAIN r = 1..m /\ \A i \in 1..m : r[i] = s[at(i)]
  <2> HIDE DEF at, m
  <2> QED BY <1>2, <1>5
<1>7. Range(r) = Range(s) \cap T
  <2>1. \A x \in Range(r) : x \in Range(s) \cap T
    <3> HIDE DEF r, at, m
    <3> QED BY <1>5, <1>6 DEF Range
  <2>2. ASSUME NEW x \in Range(s) \cap T
        PROVE  x \in Range(r)
    <3>1. PICK k \in K : s[k] = x
      BY <1>1 DEF Range
    <3>2. rank(k) \in 1..m /\ at(rank(k)) = k
      <4> HIDE DEF K, rank, at, m
      <4> QED BY <1>2, <1>4
    <3> HIDE DEF r, at, m, rank
    <3> QED BY <1>6, <3>1, <3>2 DEF Range
  <2> QED BY <2>1, <2>2
<1>8. Injective(s) => Injective(r)
  <2> SUFFICES ASSUME Injective(s), NEW i \in 1..m, NEW j \in 1..m, s[at(i)] = s[at(j)]
               PROVE  i = j
    <3> HIDE DEF r, at, m
    <3> QED BY <1>6 DEF Injective
  <2>1. at(i) \in DOMAIN s /\ at(j) \in DOMAIN s
    <3> HIDE DEF at, m, rank
    <3> QED BY <1>3
  <2>2. at(i) = at(j)
    <3> HIDE DEF at
    <3> QED BY <2>1 DEF Injective
  <2> HIDE DEF at, m, rank
  <2> QED BY <1>3, <2>2
<1>9. ASSUME s # <<>>, Head(s) \in T
      PROVE  r # <<>> /\ Head(r) = Head(s)
  <2>1. 1 \in K /\ Head(s) = s[1]
    BY <1>1, <1>9
  <2>2. {j \in K : j <= 1} = {1}
    BY <1>1, <2>1
  <2>3. rank(1) = 1
    BY <2>2, FS_Singleton
  <2>4. 1 \in 1..m /\ at(1) = 1
    <3>1. rank(1) \in 1..m /\ at(rank(1)) = 1
      <4> HIDE DEF K, rank, at, m
      <4> QED BY <1>2, <1>4, <2>1
    <3> HIDE DEF rank, at, m
    <3> QED BY <2>3, <3>1
  <2>5. r[1] = s[1] /\ Len(r) # 0
    <3> HIDE DEF r, at, m
    <3> QED BY <1>2, <1>6, <2>4
  <2> HIDE DEF r
  <2> QED BY <1>6, <2>1, <2>5
<1> HIDE DEF r
<1> QED BY <1>0, <1>6, <1>7, <1>8, <1>9

(* Sequences without repetition: what is added is new, what is removed was *)
(* there once.                                                             *)
LEMMA OnceSteps ==
  ASSUME NEW S, NEW q \in Seq(S), Injective(q), NEW c \in S
  PROVE  /\ c \notin Range(q) => /\ Injective(Append(q, c)) /\ Range(Append(q, c)) = Range(q) \cup {c}
                                 /\ q # <<>> => Head(Append(q, c)) = Head(q)
         /\ Injective(Without(q, c)) /\ Range(Without(q, c)) = Range(q) \ {c} /\ Without(q, c) \in Seq(S)
         /\ q # <<>> /\ Head(q) # c => Head(Without(q, c)) = Head(q)
         /\ q # <<>> /\ Head(q) = c => Injective(Tail(q)) /\ Range(Tail(q)) = Range(q) \ {c}
         /\ Range(q) # {} => q # <<>> /\ Head(q) \in Range(q)
<1>1. DOMAIN q = 1..Len(q) /\ Len(q) \in Nat /\ \A i \in 1..Len(q) : q[i] \in Range(q)
  BY RangeSeq
<1>2. ASSUME c \notin Range(q)
      PROVE  /\ Injective(Append(q, c)) /\ Range(Append(q, c)) = Range(q) \cup {c}
             /\ q # <<>> => Head(Append(q, c)) = Head(q)
  <2>1. /\ Len(Append(q, c)) = Len(q) + 1 /\ DOMAIN Append(q, c) = 1..(Len(q) + 1)
        /\ \A i \in 1..Len(q) : Append(q, c)[i] = q[i]
        /\ Append(q, c)[Len(q) + 1] = c
    BY <1>1
  <2>2. Injective(Append(q, c))
    BY <1>1, <1>2, <2>1 DEF Injective
  <2>3. Range(Append(q, c)) = Range(q) \cup {c}
    BY <1>1, <2>1 DEF Range
  <2> QED BY <1>1, <2>1, <2>2, <2>3
<1>3. LET r == Without(q, c) IN
      /\ Injective(r) /\ Range(r) = Range(q) \ {c} /\ r \in Seq(S)
      /\ q # <<>> /\ Head(q) # c => Head(r) = Head(q)
  <2>1. LET r == Kept(q, Range(q) \ {c}) IN
        /\ r \in Seq(S) /\ Range(r) = Range(q) \cap (Range(q) \ {c}) /\ Injective(r)
        /\ (q # <<>> /\ Head(q) \in Range(q) \ {c}) => Head(r) = Head(q)
    BY KeptOnly
  <2>2. q # <<>> => Head(q) \in Range(q)
    BY <1>1
  <2> QED BY <2>1, <2>2 DEF Without
<1>4. ASSUME q # <<>>, Head(q) = c
      PROVE  Injective(Tail(q)) /\ Range(Tail(q)) = Range(q) \ {c}
  <2>1. /\ DOMAIN Tail(q) = 1..(Len(q) - 1) /\ \A i \in 1..(Len(q) - 1) : Tail(q)[i] = q[i + 1]
        /\ Len(q) >= 1 /\ q[1] = c
    BY <1>1, <1>4
  <2>2. Injective(Tail(q))
    BY <1>1, <2>1 DEF Injective
  <2>3. \A x \in Range(Tail(q)) : x \in Range(q) \ {c}
    BY <1>1, <2>1 DEF Injective, Range
  <2>4. ASSUME NEW x \in Range(q) \ {c}
        PROVE  x \in Range(Tail(q))
    <3>1. PICK i \in 1..Len(q) : q[i] = x
      BY <1>1 DEF Range
    <3>2. i - 1 \in 1..(Len(q) - 1) /\ Tail(q)[i - 1] = x
      BY <1>1, <2>1, <3>1
    <3> QED BY <2>1, <3>2 DEF Range
  <2> QED BY <2>2, <2>3, <2>4
<1>5. Range(q) # {} => q # <<>> /\ Head(q) \in Range(q)
  BY <1>1 DEF Range
<1> QED BY <1>2, <1>3, <1>4, <1>5

LEMMA NatHasLeast ==
  ASSUME NEW T \in SUBSET Nat, T # {}
  PROVE  \E t \in T : \A u \in T : t <= u
<1>1. \E t \in T : \A u \in T : ~(<<u, t>> \in OpToRel(<, Nat))
  BY NatLessThanWellFounded, WFMin, Zenon
<1>2. PICK t \in T : \A u \in T : ~(<<u, t>> \in OpToRel(<, Nat))
  BY <1>1
<1>3. ASSUME NEW u \in T
      PROVE  t <= u
  <2>1. t \in Nat /\ u \in Nat
    OBVIOUS
  <2>2. u < t => <<u, t>> \in OpToRel(<, Nat)
    BY <2>1 DEF OpToRel
  <2>3. ~(<<u, t>> \in OpToRel(<, Nat))
    BY <1>2
  <2>4. ~(u < t)
    BY <2>2, <2>3, Zenon
  <2> QED BY <2>1, <2>4
<1> QED BY <1>3

-----------------------------------------------------------------------------
(* Definition 1.  Where the calls stand: who runs the start, who makes the *)
(* window, who holds the lane and the gate.                                *)
Record == [op : Op, arg : Tab \cup Provider \cup {None}, at : At, client : Nat, cut : BOOLEAN,
           pick : Tab \cup {None}, gen : Nat, then : {"lane", "handler", "start", "reattach"}]
Event == {"gone", "popup"} \X Tab \X (Tab \cup {None})

StartAt == {"endpoint", "dial", "targets", "attach", "enable", "wintargets", "create", "winwait", "fresh", "given", "refused"}
WindowAt == {"tabs", "wintargets", "create", "winwait", "fresh", "given", "refused", "open", "switch", "switched"}
Working(c) == call[c].at \notin {"new", "gate", "done"}
Starts(c) == call[c].then = "start" /\ call[c].at \in StartAt
MakesWindow(c) == call[c].at \in {"wintargets", "create"}
Handles(c) ==
  \/ call[c].at \in {"exists", "closing"}
  \/ call[c].at \in {"act", "listing"} /\ call[c].op \notin Parallel
  \/ call[c].then = "handler" /\ call[c].at \in WindowAt
InLane(c) == call[c].at = "lane" \/ Handles(c)
InGate(c) == call[c].at = "gate" \/ (call[c].op \in Exclusive /\ Working(c))

(* Definition 2.  Types are those of TypeOK; Control is what keeps a lease *)
(* and serves who waits: an exclusive call heads the gate and works alone, *)
(* a handler heads the lane, starting and inFlight name the one call that  *)
(* can settle them, and a call waits for one of them only while it is so.  *)
ControlTypes ==
  /\ call \in [Call -> Record] /\ gate \in Seq(Call) /\ lane \in Seq(Call) /\ resource \in Nat \ {0}
  /\ starting \in Call \cup {None} /\ inFlight \in Call \cup {None}
Placed(c) ==
  LET x == call[c] IN
  /\ x.at \in {"endpoint", "dial"} => x.then = "start"
  /\ x.at \in {"targets", "attach", "enable"} => x.then \in {"start", "reattach"}
  /\ x.at \in {"tabs", "open", "switch", "switched"} => x.then \in {"lane", "handler"}
  /\ x.at \in {"new", "gate"} => x.then = "lane"
  /\ x.at = "dispose" => x.op \in Exclusive /\ (x.op = "setup" => x.arg # None)
  /\ x.at = "exists" => x.op = "authorize"
  /\ x.op = "setup" => x.arg \in Provider \cup {None}
  /\ x.op \in Exclusive => /\ x.at \notin {"alive", "probe", "starting", "lane", "act", "exists", "closing", "listing"}
                           /\ x.then \notin {"handler", "reattach"}
Counted(c) == call[c].client = IF Working(c) THEN resource ELSE 0
Linked(c) ==
  /\ c = starting <=> Starts(c)
  /\ c = inFlight <=> MakesWindow(c)
  /\ call[c].at = "starting" => starting # None
  /\ call[c].at = "winwait" => inFlight # None
Ahead(c) ==
  /\ call[c].op \in Exclusive /\ Working(c) => Head(gate) = c /\ \A d \in Call : Working(d) => d = c
  /\ Handles(c) => Head(lane) = c
Queued ==
  /\ Injective(gate) /\ Range(gate) = {c \in Call : InGate(c)}
  /\ Injective(lane) /\ Range(lane) = {c \in Call : InLane(c)}
Control == Queued /\ \A c \in Call : Placed(c) /\ Counted(c) /\ Linked(c) /\ Ahead(c)

-----------------------------------------------------------------------------
(* A step of one call that moves no other: what the queues, starting and   *)
(* inFlight may do at it.                                                  *)
Same(d) == /\ call'[d].op = call[d].op /\ call'[d].arg = call[d].arg /\ call'[d].at = call[d].at
           /\ call'[d].then = call[d].then /\ call'[d].client = call[d].client
GateStep(c) ==
  \/ gate' = gate /\ (InGate(c)' <=> InGate(c))
  \/ gate' = Append(gate, c) /\ ~InGate(c) /\ InGate(c)'
  \/ gate' = Without(gate, c) /\ ~InGate(c)'
  \/ gate' = Tail(gate) /\ InGate(c) /\ Head(gate) = c /\ ~InGate(c)'
LaneStep(c) ==
  \/ lane' = lane /\ (InLane(c)' <=> InLane(c))
  \/ lane' = Append(lane, c) /\ ~InLane(c) /\ InLane(c)'
  \/ lane' = Without(lane, c) /\ ~InLane(c)'
LinkStep(c) ==
  /\ starting' = starting \/ {starting, starting'} \subseteq {c, None}
  /\ starting' = None => starting = None \/ \A d \in Call \ {c} : call[d].at # "starting"
  /\ inFlight' = inFlight \/ {inFlight, inFlight'} \subseteq {c, None}
  /\ inFlight' = None => inFlight = None \/ \A d \in Call \ {c} : call[d].at # "winwait"
  /\ Linked(c)'
Enters(c) ==
  /\ Working(c) => call'[c].op = call[c].op
  /\ Working(c)' => \/ Working(c)
                    \/ /\ call[c].at = "gate" /\ Head(gate) = c
                       /\ call'[c].op \in Exclusive => \A d \in Call \ {c} : ~Working(d)
Takes(c) == Handles(c)' => lane' = lane /\ (Handles(c) \/ (call[c].at = "lane" /\ Head(lane) = c))
Moves(c) ==
  /\ \A d \in Call \ {c} : Same(d)
  /\ resource' = resource /\ Placed(c)' /\ Counted(c)'
  /\ GateStep(c) /\ LaneStep(c) /\ LinkStep(c) /\ Enters(c) /\ Takes(c)

LEMMA QueueSteps ==
  ASSUME NEW q \in Seq(Call), Injective(q), NEW c \in Call
  PROVE  /\ c \notin Range(q) => /\ Injective(Append(q, c)) /\ Range(Append(q, c)) = Range(q) \cup {c}
                                 /\ q # <<>> => Head(Append(q, c)) = Head(q)
         /\ Injective(Without(q, c)) /\ Range(Without(q, c)) = Range(q) \ {c} /\ Without(q, c) \in Seq(Call)
         /\ q # <<>> /\ Head(q) # c => Head(Without(q, c)) = Head(q)
         /\ q # <<>> /\ Head(q) = c => Injective(Tail(q)) /\ Range(Tail(q)) = Range(q) \ {c}
         /\ Range(q) # {} => q # <<>> /\ Head(q) \in Range(q)
BY OnceSteps

LEMMA SamePlace ==
  ASSUME ControlTypes, NEW d \in Call, Same(d)
  PROVE  /\ Working(d)' <=> Working(d)
         /\ Starts(d)' <=> Starts(d)
         /\ MakesWindow(d)' <=> MakesWindow(d)
         /\ Handles(d)' <=> Handles(d)
         /\ InLane(d)' <=> InLane(d)
         /\ InGate(d)' <=> InGate(d)
         /\ Placed(d) => Placed(d)'
BY DEF Same, Working, Starts, MakesWindow, Handles, InLane, InGate, Placed

LEMMA MovesControl ==
  ASSUME ControlTypes, ControlTypes', Control, NEW c \in Call, Moves(c)
  PROVE  Control'
<1>1. None \notin Call
  BY ConnectionAssumption
<1>2. \A d \in Call \ {c} : /\ Same(d) /\ (Working(d)' <=> Working(d)) /\ (Starts(d)' <=> Starts(d))
                            /\ (MakesWindow(d)' <=> MakesWindow(d)) /\ (Handles(d)' <=> Handles(d))
                            /\ (InLane(d)' <=> InLane(d)) /\ (InGate(d)' <=> InGate(d))
                            /\ Placed(d)' /\ Placed(d)
  BY SamePlace DEF Moves, Control
<1>3. Injective(gate) /\ Range(gate) = {d \in Call : InGate(d)} /\ gate \in Seq(Call)
  BY DEF Control, Queued, ControlTypes
<1>4. Injective(lane) /\ Range(lane) = {d \in Call : InLane(d)} /\ lane \in Seq(Call)
  BY DEF Control, Queued, ControlTypes
<1>5. Injective(gate)' /\ (Range(gate) = {d \in Call : InGate(d)})'
  <2>1. CASE gate' = gate /\ (InGate(c)' <=> InGate(c))
    <3>1. {d \in Call : InGate(d)'} = {d \in Call : InGate(d)}
      BY <1>2, <2>1
    <3> QED BY <1>3, <2>1, <3>1
  <2>2. CASE gate' = Append(gate, c) /\ ~InGate(c) /\ InGate(c)'
    <3>1. {d \in Call : InGate(d)'} = {d \in Call : InGate(d)} \cup {c}
      BY <1>2, <2>2
    <3>2. c \notin Range(gate)
      BY <1>3, <2>2
    <3> QED BY <1>3, <2>2, <3>1, <3>2, QueueSteps
  <2>3. CASE ~InGate(c)' /\ (gate' = Without(gate, c) \/ (gate' = Tail(gate) /\ InGate(c) /\ Head(gate) = c))
    <3>1. {d \in Call : InGate(d)'} = {d \in Call : InGate(d)} \ {c}
      BY <1>2, <2>3
    <3>2. CASE gate' = Without(gate, c)
      BY <1>3, <3>1, <3>2, QueueSteps
    <3>3. CASE gate' = Tail(gate) /\ InGate(c) /\ Head(gate) = c
      <4>1. c \in Range(gate) /\ gate # <<>>
        BY <1>3, <3>3, QueueSteps
      <4> QED BY <1>3, <3>1, <3>3, <4>1, QueueSteps
    <3> QED BY <2>3, <3>2, <3>3
  <2> QED BY <2>1, <2>2, <2>3 DEF Moves, GateStep
<1>6. Injective(lane)' /\ (Range(lane) = {d \in Call : InLane(d)})'
  <2>1. CASE lane' = lane /\ (InLane(c)' <=> InLane(c))
    <3>1. {d \in Call : InLane(d)'} = {d \in Call : InLane(d)}
      BY <1>2, <2>1
    <3> QED BY <1>4, <2>1, <3>1
  <2>2. CASE lane' = Append(lane, c) /\ ~InLane(c) /\ InLane(c)'
    <3>1. {d \in Call : InLane(d)'} = {d \in Call : InLane(d)} \cup {c}
      BY <1>2, <2>2
    <3>2. c \notin Range(lane)
      BY <1>4, <2>2
    <3> QED BY <1>4, <2>2, <3>1, <3>2, QueueSteps
  <2>3. CASE ~InLane(c)' /\ lane' = Without(lane, c)
    <3>1. {d \in Call : InLane(d)'} = {d \in Call : InLane(d)} \ {c}
      BY <1>2, <2>3
    <3> QED BY <1>4, <2>3, <3>1, QueueSteps
  <2> QED BY <2>1, <2>2, <2>3 DEF Moves, LaneStep
<1>7. ASSUME NEW d \in Call
      PROVE  Placed(d)' /\ Counted(d)'
  <2>1. CASE d = c
    BY <2>1 DEF Moves
  <2>2. CASE d # c
    BY <1>2, <2>2 DEF Moves, Control, Counted, Same
  <2> QED BY <2>1, <2>2
<1>8. ASSUME NEW d \in Call
      PROVE  Linked(d)'
  <2>1. CASE d = c
    BY <2>1 DEF Moves, LinkStep
  <2>2. CASE d # c
    <3>1. Linked(d) /\ call'[d].at = call[d].at
      BY <1>2, <2>2 DEF Control, Same
    <3>2. d = starting' <=> d = starting
      BY <1>1, <2>2 DEF Moves, LinkStep
    <3>3. d = inFlight' <=> d = inFlight
      BY <1>1, <2>2 DEF Moves, LinkStep
    <3>4. call[d].at = "starting" => starting' # None
      BY <2>2, <3>1 DEF Moves, LinkStep, Linked
    <3>5. call[d].at = "winwait" => inFlight' # None
      BY <2>2, <3>1 DEF Moves, LinkStep, Linked
    <3> QED BY <1>2, <2>2, <3>1, <3>2, <3>3, <3>4, <3>5 DEF Linked
  <2> QED BY <2>1, <2>2
<1>9. ASSUME NEW d \in Call, call'[d].op \in Exclusive, Working(d)'
      PROVE  Head(gate') = d /\ \A e \in Call : Working(e)' => e = d
  <2>1. CASE d = c
    <3>1. CASE Working(c)
      <4>1. call[c].op \in Exclusive
        BY <1>9, <2>1, <3>1 DEF Moves, Enters
      <4>2. Head(gate) = c /\ \A e \in Call : Working(e) => e = c
        BY <3>1, <4>1 DEF Control, Ahead
      <4>3. gate' = gate
        <5>1. InGate(c) /\ InGate(c)'
          BY <1>9, <2>1, <3>1, <4>1 DEF InGate
        <5> QED BY <5>1 DEF Moves, GateStep
      <4> QED BY <1>2, <2>1, <4>2, <4>3
    <3>2. CASE ~Working(c)
      <4>1. call[c].at = "gate" /\ Head(gate) = c /\ \A e \in Call \ {c} : ~Working(e)
        BY <1>9, <2>1, <3>2 DEF Moves, Enters
      <4>2. gate' = gate
        <5>1. InGate(c) /\ InGate(c)'
          BY <1>9, <2>1, <4>1 DEF InGate
        <5> QED BY <5>1 DEF Moves, GateStep
      <4> QED BY <1>2, <2>1, <4>1, <4>2
    <3> QED BY <3>1, <3>2
  <2>2. CASE d # c
    <3>1. call[d].op \in Exclusive /\ Working(d) /\ InGate(d)
      BY <1>2, <1>9, <2>2 DEF Same, InGate
    <3>2. Head(gate) = d /\ \A e \in Call : Working(e) => e = d
      BY <3>1 DEF Control, Ahead
    <3>3. d \in Range(gate) /\ gate # <<>>
      BY <1>3, <3>1, QueueSteps
    <3>4. ~Working(c)'
      BY <2>2, <3>2 DEF Moves, Enters
    <3>5. Head(gate') = d
      <4>1. CASE gate' = Append(gate, c) /\ ~InGate(c)
        BY <1>3, <3>2, <3>3, <4>1, QueueSteps
      <4>2. CASE gate' = Without(gate, c)
        BY <1>3, <2>2, <3>2, <3>3, <4>2, QueueSteps
      <4> QED BY <2>2, <3>2, <4>1, <4>2 DEF Moves, GateStep
    <3> QED BY <1>2, <3>2, <3>4, <3>5
  <2> QED BY <2>1, <2>2
<1>10. ASSUME NEW d \in Call, Handles(d)'
       PROVE  Head(lane') = d
  <2>1. CASE d = c
    BY <1>10, <2>1 DEF Moves, Takes, Control, Ahead
  <2>2. CASE d # c
    <3>1. Handles(d) /\ InLane(d) /\ Head(lane) = d
      BY <1>2, <1>10, <2>2 DEF InLane, Control, Ahead
    <3>2. d \in Range(lane) /\ lane # <<>>
      BY <1>4, <3>1, QueueSteps
    <3>3. CASE lane' = Append(lane, c) /\ ~InLane(c)
      BY <1>4, <3>1, <3>2, <3>3, QueueSteps
    <3>4. CASE lane' = Without(lane, c)
      BY <1>4, <2>2, <3>1, <3>2, <3>4, QueueSteps
    <3> QED BY <3>1, <3>3, <3>4 DEF Moves, LaneStep
  <2> QED BY <2>1, <2>2
<1> QED BY <1>5, <1>6, <1>7, <1>8, <1>9, <1>10 DEF Control, Queued, Ahead

-----------------------------------------------------------------------------
(* What the operators on calls return.                                     *)
Held(n, c) == n \in [Call -> Record] /\ \A d \in Call \ {c} : n[d] = call[d]
Stays(x, y) == x.op = y.op /\ x.arg = y.arg /\ x.client = y.client

LEMMA GoingFields ==
  ASSUME ControlTypes, NEW c \in Call, NEW a \in At
  PROVE  LET n == Going(c, a) IN
         /\ Held(n, c) /\ Stays(n[c], call[c]) /\ n[c].at = a
         /\ n[c].then = call[c].then /\ n[c].pick = call[c].pick /\ n[c].gen = call[c].gen
         /\ n[c].cut <=> (a \in Requesting /\ ~Open)
<1> DEFINE b == a \in Requesting /\ ~Open
           n == [call EXCEPT ![c].at = a, ![c].cut = b]
<1>1. Going(c, a) = n
  BY DEF Going
<1>2. b \in BOOLEAN
  OBVIOUS
<1> HIDE DEF b
<1>3. Held(n, c) /\ Stays(n[c], call[c]) /\ n[c].at = a /\ n[c].then = call[c].then
      /\ n[c].pick = call[c].pick /\ n[c].gen = call[c].gen /\ n[c].cut = b
  BY <1>2 DEF ControlTypes, Record, Held, Stays
<1> QED BY <1>1, <1>3 DEF b

LEMMA GoPickFields ==
  ASSUME ControlTypes, NEW c \in Call, NEW a \in At, NEW t \in Tab \cup {None}, GoPick(c, a, t)
  PROVE  LET n == call' IN
         /\ Held(n, c) /\ Stays(n[c], call[c]) /\ n[c].at = a
         /\ n[c].then = call[c].then /\ n[c].pick = t /\ n[c].gen = call[c].gen
         /\ n[c].cut <=> (a \in Requesting /\ ~Open)
<1> DEFINE m == Going(c, a)
<1>1. /\ Held(m, c) /\ Stays(m[c], call[c]) /\ m[c].at = a
      /\ m[c].then = call[c].then /\ m[c].gen = call[c].gen
      /\ m[c].cut <=> (a \in Requesting /\ ~Open)
  BY GoingFields
<1> HIDE DEF m
<1>2. LET n == [m EXCEPT ![c].pick = t] IN
      /\ Held(n, c) /\ Stays(n[c], call[c]) /\ n[c].at = m[c].at
      /\ n[c].then = call[c].then /\ n[c].pick = t /\ n[c].gen = call[c].gen
      /\ n[c].cut = m[c].cut
  BY <1>1 DEF Held, Stays, Record
<1>3. call' = [m EXCEPT ![c].pick = t]
  BY DEF GoPick, m
<1> QED BY <1>1, <1>2, <1>3

LEMMA GoThenFields ==
  ASSUME ControlTypes, NEW c \in Call, NEW a \in At, NEW h \in {"lane", "handler", "start", "reattach"}, GoThen(c, a, h)
  PROVE  LET n == call' IN
         /\ Held(n, c) /\ Stays(n[c], call[c]) /\ n[c].at = a
         /\ n[c].then = h /\ n[c].pick = call[c].pick /\ n[c].gen = call[c].gen
         /\ n[c].cut <=> (a \in Requesting /\ ~Open)
<1> DEFINE g == Going(c, a)
<1>1. /\ Held(g, c) /\ Stays(g[c], call[c]) /\ g[c].at = a
      /\ g[c].then = call[c].then /\ g[c].gen = call[c].gen /\ g[c].pick = call[c].pick
      /\ g[c].cut <=> (a \in Requesting /\ ~Open)
  BY GoingFields
<1> HIDE DEF g
<1>2. LET n == [g EXCEPT ![c].then = h] IN
      /\ Held(n, c) /\ Stays(n[c], call[c]) /\ n[c].at = g[c].at
      /\ n[c].then = h /\ n[c].pick = call[c].pick /\ n[c].gen = call[c].gen
      /\ n[c].cut = g[c].cut
  BY <1>1 DEF Held, Stays, Record
<1>3. call' = [g EXCEPT ![c].then = h]
  BY DEF GoThen, g
<1> QED BY <1>1, <1>2, <1>3

(* A switch of a handler, to tab t.                                        *)
LEMMA SwitchFields ==
  ASSUME ControlTypes, NEW c \in Call, NEW t \in Tab \cup {None},
         call' = [Going(c, "switch") EXCEPT ![c].pick = t, ![c].then = "handler"]
  PROVE  LET n == call' IN
         /\ Held(n, c) /\ Stays(n[c], call[c]) /\ n[c].at = "switch"
         /\ n[c].then = "handler" /\ n[c].pick = t /\ n[c].gen = call[c].gen
         /\ n[c].cut <=> ~Open
<1> DEFINE g == Going(c, "switch")
<1>0. "switch" \in At /\ "switch" \in Requesting
  BY DEF At, Requesting
<1>1. /\ Held(g, c) /\ Stays(g[c], call[c]) /\ g[c].at = "switch"
      /\ g[c].gen = call[c].gen
      /\ g[c].cut <=> ~Open
  BY <1>0, GoingFields
<1> HIDE DEF g
<1>2. LET n == [g EXCEPT ![c].pick = t, ![c].then = "handler"] IN
      /\ Held(n, c) /\ Stays(n[c], call[c]) /\ n[c].at = g[c].at
      /\ n[c].then = "handler" /\ n[c].pick = t /\ n[c].gen = call[c].gen
      /\ n[c].cut = g[c].cut
  BY ZenonT(60), <1>1 DEF Held, Stays, Record
<1>3. call' = [g EXCEPT ![c].pick = t, ![c].then = "handler"]
  BY DEF g
<1> QED BY <1>1, <1>2, <1>3

LEMMA ActingFields ==
  ASSUME ControlTypes, NEW c \in Call, NEW now \in [tab : Tab \cup {None}, gen : Nat],
         call' = [call EXCEPT ![c] = Acting(now, @)]
  PROVE  LET n == call' IN
         /\ Held(n, c) /\ Stays(n[c], call[c]) /\ n[c].at = "act"
         /\ n[c].then = call[c].then /\ n[c].pick = now.tab /\ n[c].gen = now.gen
<1> DEFINE b == ~Open
           x == [call[c] EXCEPT !.at = "act", !.pick = now.tab, !.gen = now.gen, !.cut = b]
<1>1. Acting(now, call[c]) = x
  BY DEF Acting
<1>2. b \in BOOLEAN
  OBVIOUS
<1> HIDE DEF b
<1>3. call[c] \in Record /\ now.tab \in Tab \cup {None} /\ now.gen \in Nat /\ "act" \in At
  BY DEF ControlTypes, At, Requesting
<1>4. x \in Record
  BY <1>2, <1>3 DEF Record
<1>5. Stays(x, call[c]) /\ x.at = "act" /\ x.then = call[c].then /\ x.pick = now.tab /\ x.gen = now.gen
  BY <1>3 DEF Record, Stays
<1> HIDE DEF x
<1>6. LET n == [call EXCEPT ![c] = x] IN Held(n, c) /\ n[c] = x
  BY <1>4 DEF ControlTypes, Held
<1> QED BY <1>1, <1>5, <1>6

LEMMA ReadingFields ==
  ASSUME ControlTypes, NEW c \in Call, NEW now \in [tab : Tab \cup {None}, gen : Nat],
         call' = [call EXCEPT ![c] = Reading(now, @)]
  PROVE  LET n == call' IN
         /\ Held(n, c) /\ Stays(n[c], call[c]) /\ n[c].at = IF call[c].op = "list" THEN "listing" ELSE "act"
         /\ n[c].then = call[c].then /\ n[c].pick \in {now.tab, call[c].pick}
<1> DEFINE b == ~Open
           x == [call[c] EXCEPT !.at = "listing", !.cut = b]
<1>1. b \in BOOLEAN
  OBVIOUS
<1>2. CASE call[c].op = "list"
  <2> HIDE DEF b
  <2>1. call[c] \in Record /\ "listing" \in At
    BY DEF ControlTypes, At, Requesting
  <2>2. x \in Record /\ Stays(x, call[c]) /\ x.at = "listing" /\ x.then = call[c].then /\ x.pick = call[c].pick
    BY <1>1, <2>1 DEF Record, Stays
  <2>3. call' = [call EXCEPT ![c] = x]
    <3> USE DEF b
    <3> QED BY <1>2, <2>1 DEF Reading, ControlTypes
  <2> HIDE DEF x
  <2>4. LET n == [call EXCEPT ![c] = x] IN Held(n, c) /\ n[c] = x
    BY <2>2 DEF ControlTypes, Held
  <2> QED BY <1>2, <2>2, <2>3, <2>4
<1>3. CASE call[c].op # "list"
  <2>1. call' = [call EXCEPT ![c] = Acting(now, @)]
    BY <1>3 DEF Reading, ControlTypes
  <2> QED BY <1>3, <2>1, ActingFields
<1> QED BY <1>2, <1>3

LEMMA EndedFields ==
  ASSUME ControlTypes, NEW c \in Call
  PROVE  LET n == Ended(call, c) IN
         /\ Held(n, c) /\ n[c].op = call[c].op /\ n[c].arg = call[c].arg /\ n[c].at = "done" /\ n[c].client = 0
         /\ n[c].then = call[c].then /\ n[c].cut = FALSE
         /\ n[c].pick = IF call[c].op = "new" /\ call[c].at = "switched" THEN call[c].pick ELSE None
<1> DEFINE p == IF call[c].op = "new" /\ call[c].at = "switched" THEN call[c].pick ELSE None
           x == [call[c] EXCEPT !.at = "done", !.client = 0, !.cut = FALSE, !.gen = 0, !.pick = p]
<1>1. Ended(call, c) = [call EXCEPT ![c] = x]
  BY DEF Ended, ControlTypes
<1>2. p \in Tab \cup {None} /\ "done" \in At /\ call[c] \in Record
  BY DEF ControlTypes, Record, At, Requesting
<1> HIDE DEF p
<1>3. /\ x \in Record /\ x.op = call[c].op /\ x.arg = call[c].arg /\ x.at = "done" /\ x.client = 0
      /\ x.then = call[c].then /\ x.cut = FALSE /\ x.pick = p
  BY <1>2 DEF Record
<1> HIDE DEF x
<1>4. LET n == [call EXCEPT ![c] = x] IN Held(n, c) /\ n[c] = x
  BY <1>3 DEF ControlTypes, Held
<1> QED BY <1>1, <1>3, <1>4 DEF p

(* Cut and the closing of the transport change no call's place.            *)
LEMMA CutFields ==
  ASSUME NEW n \in [Call -> Record]
  PROVE  /\ Cut(n) \in [Call -> Record]
         /\ \A d \in Call : /\ Stays(Cut(n)[d], n[d]) /\ Cut(n)[d].at = n[d].at /\ Cut(n)[d].then = n[d].then
                            /\ Cut(n)[d].pick = n[d].pick /\ Cut(n)[d].gen = n[d].gen
                            /\ n[d].cut \/ n[d].at \in Requesting => Cut(n)[d].cut
BY ZenonT(60) DEF Cut, Record, Stays

LEMMA JoinedFields ==
  ASSUME ControlTypes, NEW c \in Call
  PROVE  LET n == Joined(call, c) IN
         /\ Held(n, c) /\ Stays(n[c], call[c]) /\ n[c].pick = call[c].pick
         /\ starting = None => n[c].at = "endpoint" /\ n[c].then = "start"
         /\ starting # None => n[c].at = "starting" /\ n[c].then = call[c].then
<1>1. {"endpoint", "starting"} \subseteq At
  BY DEF At, Requesting
<1>2. LET n == [call EXCEPT ![c].at = "endpoint", ![c].then = "start"]
          m == [call EXCEPT ![c].at = "starting", ![c].cut = FALSE]
      IN  /\ Held(n, c) /\ Stays(n[c], call[c]) /\ n[c].pick = call[c].pick /\ n[c].at = "endpoint" /\ n[c].then = "start"
          /\ Held(m, c) /\ Stays(m[c], call[c]) /\ m[c].pick = call[c].pick /\ m[c].at = "starting" /\ m[c].then = call[c].then
  BY ZenonT(60), <1>1 DEF ControlTypes, Record, Held, Stays
<1> QED BY <1>2 DEF Joined

LEMMA StartedFields ==
  ASSUME ControlTypes
  PROVE  LET y == Started(call, TRUE)
             n == Started(call, FALSE) IN
         /\ y \in [Call -> Record] /\ n \in [Call -> Record]
         /\ \A d \in Call : /\ d # starting /\ call[d].at # "starting" => y[d] = call[d] /\ n[d] = call[d]
                            /\ d = starting \/ call[d].at = "starting" =>
                                 /\ Stays(y[d], call[d]) /\ y[d].at = "check" /\ y[d].then = call[d].then
                                 /\ y[d].pick = call[d].pick
                                 /\ n[d].op = call[d].op /\ n[d].arg = call[d].arg /\ n[d].at = "done"
                                 /\ n[d].client = 0 /\ n[d].then = call[d].then
                                 /\ n[d].pick = IF call[d].op = "new" /\ call[d].at = "switched" THEN call[d].pick ELSE None
<1>1. \A d \in Call : Ended(call, d)[d] \in Record
  BY EndedFields DEF Held
<1>2. \A d \in Call : [call[d] EXCEPT !.at = "check", !.cut = FALSE] \in Record
  BY ZenonT(60) DEF ControlTypes, Record, At
<1>3. Started(call, TRUE) \in [Call -> Record] /\ Started(call, FALSE) \in [Call -> Record]
  BY <1>1, <1>2 DEF Started, ControlTypes
<1>4. ASSUME NEW d \in Call
      PROVE  LET y == Started(call, TRUE)
                 n == Started(call, FALSE) IN
             /\ d # starting /\ call[d].at # "starting" => y[d] = call[d] /\ n[d] = call[d]
             /\ d = starting \/ call[d].at = "starting" =>
                  y[d] = [call[d] EXCEPT !.at = "check", !.cut = FALSE] /\ n[d] = Ended(call, d)[d]
  BY DEF Started
<1>5. ASSUME NEW d \in Call
      PROVE  LET x == [call[d] EXCEPT !.at = "check", !.cut = FALSE] IN
             Stays(x, call[d]) /\ x.at = "check" /\ x.then = call[d].then /\ x.pick = call[d].pick
  BY DEF ControlTypes, Record, Stays
<1>6. ASSUME NEW d \in Call
      PROVE  LET y == Started(call, TRUE)
                 n == Started(call, FALSE) IN
             /\ d # starting /\ call[d].at # "starting" => y[d] = call[d] /\ n[d] = call[d]
             /\ d = starting \/ call[d].at = "starting" =>
                  /\ Stays(y[d], call[d]) /\ y[d].at = "check" /\ y[d].then = call[d].then
                  /\ y[d].pick = call[d].pick
                  /\ n[d].op = call[d].op /\ n[d].arg = call[d].arg /\ n[d].at = "done"
                  /\ n[d].client = 0 /\ n[d].then = call[d].then
                  /\ n[d].pick = IF call[d].op = "new" /\ call[d].at = "switched" THEN call[d].pick ELSE None
  <2>1. CASE d # starting /\ call[d].at # "starting"
    BY <1>4, <2>1
  <2>2. CASE d = starting \/ call[d].at = "starting"
    <3>1. Started(call, TRUE)[d] = [call[d] EXCEPT !.at = "check", !.cut = FALSE] /\ Started(call, FALSE)[d] = Ended(call, d)[d]
      BY <1>4, <2>2
    <3>2. LET x == Ended(call, d)[d] IN
          /\ x.op = call[d].op /\ x.arg = call[d].arg /\ x.at = "done" /\ x.client = 0 /\ x.then = call[d].then
          /\ x.pick = IF call[d].op = "new" /\ call[d].at = "switched" THEN call[d].pick ELSE None
      BY EndedFields
    <3>3. LET x == Started(call, TRUE)[d] IN
          Stays(x, call[d]) /\ x.at = "check" /\ x.then = call[d].then /\ x.pick = call[d].pick
      BY <1>5, <3>1
    <3> QED BY <2>2, <3>1, <3>2, <3>3
  <2> QED BY <2>1, <2>2
<1> QED BY <1>3, <1>6

-----------------------------------------------------------------------------
(* Definition 3.  All the types, with the owned tabs named once.           *)
WorldTypes ==
  /\ selected \in Provider
  /\ link \in [status : {"closed", "connecting", "open"}, gen : Nat]
  /\ events \in Seq(Event) /\ cur \in [tab : Tab \cup {None}, gen : Nat]
  /\ owned \in Seq(Tab) /\ Injective(owned) /\ window \in Tab \cup {None}
  /\ authorized \in SUBSET Tab /\ dropped \in SUBSET Tab
  /\ home \in [Tab -> Provider \cup {None}] /\ live \in SUBSET Tab
  /\ steel \in [live : BOOLEAN, known : BOOLEAN] /\ faults \in 0..MaxFaults
ConnTypes == ControlTypes /\ WorldTypes
Base == ConnTypes /\ Control

-----------------------------------------------------------------------------
(* The control of each step.  A walk leaves the queues, starting and       *)
(* inFlight alone.                                                         *)
Walks(c) ==
  /\ Working(c) /\ Held(call', c) /\ Stays(call'[c], call[c])
  /\ UNCHANGED <<gate, lane, starting, inFlight, resource>>
  /\ call'[c].at \notin {"new", "gate", "done", "starting", "winwait"}
  /\ Starts(c)' <=> Starts(c)
  /\ MakesWindow(c)' <=> MakesWindow(c)
  /\ InLane(c)' <=> InLane(c)
  /\ Handles(c)' => Handles(c) \/ (call[c].at = "lane" /\ Head(lane) = c)
  /\ Placed(c)'

LEMMA WalkMoves ==
  ASSUME Base, NEW c \in Call, Walks(c)
  PROVE  ControlTypes' /\ Moves(c)
<1>1. ControlTypes'
  BY DEF Base, ConnTypes, ControlTypes, Walks, Held
<1>2. Working(c)' /\ (InGate(c)' <=> InGate(c))
  BY DEF Walks, Working, InGate, Stays
<1>3. Linked(c)'
  BY DEF Base, Control, Walks, Linked
<1>4. Counted(c)'
  BY <1>2 DEF Base, Control, Counted, Walks, Stays
<1>5. \A d \in Call \ {c} : Same(d)
  BY DEF Walks, Held, Same
<1>6. LinkStep(c)
  BY <1>3 DEF LinkStep, Walks
<1>7. GateStep(c) /\ LaneStep(c) /\ Enters(c) /\ Takes(c)
  BY <1>2 DEF GateStep, LaneStep, Enters, Takes, Walks, Stays
<1> QED BY <1>1, <1>4, <1>5, <1>6, <1>7 DEF Moves, Walks

LEMMA EndMoves ==
  ASSUME Base, NEW c \in Call, Working(c), End(c), c # starting, ~MakesWindow(c),
         UNCHANGED <<starting, inFlight, resource>>
  PROVE  ControlTypes' /\ Moves(c)
<1>1. /\ Held(call', c) /\ call'[c].op = call[c].op /\ call'[c].arg = call[c].arg /\ call'[c].at = "done" /\ call'[c].client = 0
      /\ call'[c].then = call[c].then
  BY EndedFields DEF End, Base, ConnTypes
<1>2. /\ lane' = Without(lane, c)
      /\ gate' = IF call[c].op \in Exclusive THEN Without(gate, c) ELSE gate
  BY DEF End, Freed
<1>3. Without(lane, c) \in Seq(Call) /\ Without(gate, c) \in Seq(Call)
  BY QueueSteps DEF Base, Control, Queued, ConnTypes, ControlTypes
<1>4. ControlTypes'
  BY <1>1, <1>2, <1>3 DEF Base, ConnTypes, ControlTypes, Held
<1>5. ~Working(c)' /\ ~InGate(c)' /\ ~InLane(c)' /\ ~Handles(c)' /\ ~Starts(c)' /\ ~MakesWindow(c)'
  BY <1>1 DEF Working, InGate, InLane, Handles, Starts, MakesWindow, StartAt, WindowAt
<1>6. c # inFlight
  BY DEF Base, Control, Linked
<1>7. Linked(c)'
  BY <1>1, <1>5, <1>6 DEF Linked
<1>8. Counted(c)' /\ Placed(c)'
  BY <1>1, <1>5 DEF Base, Control, Counted, Placed
<1>9. \A d \in Call \ {c} : Same(d)
  BY <1>1 DEF Held, Same
<1>10. GateStep(c)
  BY <1>2, <1>5 DEF GateStep, InGate, Working
<1>11. LaneStep(c) /\ LinkStep(c) /\ Enters(c) /\ Takes(c)
  BY <1>1, <1>2, <1>5, <1>7 DEF LaneStep, LinkStep, Enters, Takes
<1> QED BY <1>4, <1>8, <1>9, <1>10, <1>11 DEF Moves

(* A call that goes to the lane.                                           *)
LEMMA LaneMoves ==
  ASSUME Base, NEW c \in Call, Working(c), Held(call', c), Stays(call'[c], call[c]), call'[c].at = "lane",
         call'[c].then = call[c].then, lane' = Append(lane, c), ~InLane(c), ~Starts(c), ~MakesWindow(c),
         call[c].op \notin Exclusive, UNCHANGED <<gate, starting, inFlight, resource>>
  PROVE  ControlTypes' /\ Moves(c)
<1>1. ControlTypes'
  BY DEF Base, ConnTypes, ControlTypes, Held
<1>2. Working(c)' /\ (InGate(c)' <=> InGate(c)) /\ InLane(c)' /\ ~Handles(c)' /\ ~Starts(c)' /\ ~MakesWindow(c)'
  BY DEF Working, InGate, Stays, InLane, Handles, Starts, MakesWindow, StartAt, WindowAt
<1>3. Linked(c)'
  BY <1>2 DEF Base, Control, Linked
<1>4. Counted(c)' /\ Placed(c)'
  BY <1>2 DEF Base, Control, Counted, Placed, Stays
<1>5. \A d \in Call \ {c} : Same(d)
  BY DEF Held, Same
<1>6. GateStep(c) /\ LaneStep(c) /\ LinkStep(c) /\ Enters(c) /\ Takes(c)
  BY <1>2, <1>3 DEF GateStep, LaneStep, LinkStep, Enters, Takes, Stays
<1> QED BY <1>1, <1>4, <1>5, <1>6 DEF Moves

(* Closing the transport and moving one call.                              *)
LEMMA CutMoves ==
  ASSUME NEW c \in Call, NEW n, Held(n, c), call' = Cut(n)
  PROVE  /\ call' \in [Call -> Record] /\ \A d \in Call \ {c} : Same(d)
         /\ Stays(call'[c], n[c]) /\ call'[c].at = n[c].at /\ call'[c].then = n[c].then /\ call'[c].pick = n[c].pick
BY CutFields DEF Held, Same, Stays

LEMMA ReviveMoves ==
  ASSUME Base, NEW c \in Call, Working(c), Revive(c), ~Starts(c), ~MakesWindow(c), ~InLane(c), call[c].op \notin Exclusive
  PROVE  ControlTypes' /\ Moves(c)
<1> DEFINE n == Joined(call, c)
<1>1. /\ Held(n, c) /\ Stays(n[c], call[c]) /\ n[c].pick = call[c].pick
      /\ starting = None => n[c].at = "endpoint" /\ n[c].then = "start"
      /\ starting # None => n[c].at = "starting" /\ n[c].then = call[c].then
  BY JoinedFields DEF Base, ConnTypes
<1>2. call' = Cut(n)
  BY DEF Revive, CloseTo
<1>3. /\ call' \in [Call -> Record] /\ \A d \in Call \ {c} : Same(d)
      /\ Stays(call'[c], call[c])
      /\ starting = None => call'[c].at = "endpoint" /\ call'[c].then = "start"
      /\ starting # None => call'[c].at = "starting" /\ call'[c].then = call[c].then
  <2> HIDE DEF n
  <2>1. /\ call' \in [Call -> Record] /\ \A d \in Call \ {c} : Same(d)
        /\ Stays(call'[c], n[c]) /\ call'[c].at = n[c].at /\ call'[c].then = n[c].then
    BY <1>1, <1>2, CutMoves
  <2> QED BY <1>1, <2>1 DEF Stays
<1>4. UNCHANGED <<gate, lane, inFlight, resource>> /\ starting' = IF starting = None THEN c ELSE starting
  BY DEF Revive, client
<1>5. ControlTypes'
  BY <1>3, <1>4 DEF Base, ConnTypes, ControlTypes
<1>6. Working(c)' /\ ~InGate(c) /\ ~InGate(c)' /\ ~InLane(c)' /\ ~Handles(c)' /\ ~MakesWindow(c)' /\ (Starts(c)' <=> starting = None)
  BY <1>3 DEF Working, InGate, Stays, InLane, Handles, Starts, MakesWindow, StartAt, WindowAt
<1>7. c # starting /\ c # inFlight /\ None \notin Call
  BY ConnectionAssumption DEF Base, Control, Linked
<1>8. Linked(c)'
  BY <1>3, <1>4, <1>6, <1>7 DEF Linked
<1>9. Counted(c)' /\ Placed(c)'
  BY <1>3, <1>4, <1>6 DEF Base, Control, Counted, Placed, Stays
<1>10. GateStep(c) /\ LaneStep(c) /\ LinkStep(c) /\ Enters(c) /\ Takes(c)
  BY <1>3, <1>4, <1>6, <1>7, <1>8 DEF GateStep, LaneStep, LinkStep, Enters, Takes, Stays
<1> QED BY <1>3, <1>4, <1>5, <1>9, <1>10 DEF Moves

LEMMA AskMoves ==
  ASSUME Base, NEW c \in Call, call[c].at \in {"targets", "tabs"}, AskWindow(c),
         UNCHANGED <<gate, lane, starting, resource>>
  PROVE  ControlTypes' /\ Moves(c)
<1>1. Working(c) /\ ~MakesWindow(c) /\ c # inFlight /\ Linked(c) /\ Placed(c) /\ Counted(c)
  BY DEF Working, MakesWindow, Base, Control, Linked
<1>2. PICK a \in {"wintargets", "winwait"} :
        /\ call' = Going(c, a)
        /\ a = "wintargets" => inFlight = None /\ inFlight' = c
        /\ a = "winwait" => inFlight # None /\ inFlight' = inFlight
  BY DEF AskWindow, Go
<1>3. a \in At
  BY DEF At, Requesting
<1>4. Held(call', c) /\ Stays(call'[c], call[c]) /\ call'[c].at = a /\ call'[c].then = call[c].then
  BY <1>2, <1>3, GoingFields DEF Base, ConnTypes
<1>5. ControlTypes'
  BY <1>2, <1>4 DEF Base, ConnTypes, ControlTypes, Held
<1>6. /\ Working(c)' /\ (Starts(c)' <=> Starts(c)) /\ (MakesWindow(c)' <=> a = "wintargets")
      /\ (InLane(c)' <=> InLane(c)) /\ (Handles(c)' <=> Handles(c)) /\ (InGate(c)' <=> InGate(c))
  BY <1>1, <1>4 DEF Working, Starts, MakesWindow, InLane, Handles, InGate, StartAt, WindowAt, Placed, Stays
<1>7. Linked(c)'
  BY <1>1, <1>2, <1>4, <1>6 DEF Linked
<1>8. Placed(c)' /\ Counted(c)'
  BY <1>1, <1>4, <1>6 DEF Placed, Counted, Stays
<1>9. \A d \in Call \ {c} : Same(d)
  BY <1>4 DEF Held, Same
<1>10. c # None
  BY ConnectionAssumption
<1>11. LinkStep(c)
  BY <1>2, <1>7, <1>10 DEF LinkStep
<1>12. GateStep(c) /\ LaneStep(c) /\ Enters(c) /\ Takes(c)
  BY <1>1, <1>4, <1>6 DEF GateStep, LaneStep, Enters, Takes, Stays
<1> QED BY <1>5, <1>8, <1>9, <1>11, <1>12 DEF Moves

LEMMA PlaceTypes ==
  ASSUME Base
  PROVE  /\ call \in [Call -> Record] /\ resource \in Nat
         /\ {"gate", "alive", "check", "endpoint", "dispose", "dial", "targets", "done"} \subseteq At
BY DEF Base, ConnTypes, ControlTypes, At, Requesting

LEMMA BeginControl ==
  ASSUME Base, NEW c \in Call, NEW op, NEW arg, Begin(c, op, arg)
  PROVE  ControlTypes' /\ Moves(c)
<1>1. op \in Op /\ arg \in Tab \cup Provider \cup {None} /\ (op = "setup" => arg \in Provider \cup {None})
  <2>1. <<op, arg>> \in Kinds[c] /\ <<op, arg>>[1] = op /\ <<op, arg>>[2] = arg
    BY DEF Begin
  <2>2. <<op, arg>> \in Op \X (Tab \cup Provider \cup {None})
    BY <2>1, ConnectionAssumption
  <2>3. op = "setup" => arg \in Provider \cup {None}
    BY <2>1, ConnectionAssumption
  <2> QED BY <2>2, <2>3
<1>2. /\ call[c].at = "new" /\ gate' = Append(gate, c) /\ UNCHANGED <<lane, resource, starting, inFlight>>
      /\ call' = [call EXCEPT ![c].op = op, ![c].arg = arg, ![c].at = "gate"]
  BY DEF Begin, client
<1>3. /\ Held(call', c) /\ call'[c].op = op /\ call'[c].arg = arg /\ call'[c].at = "gate"
      /\ call'[c].then = call[c].then /\ call'[c].client = call[c].client
  BY <1>1, <1>2, PlaceTypes DEF Record, Held
<1>4. ControlTypes'
  BY <1>2, <1>3, AppendProperties DEF Base, ConnTypes, ControlTypes, Held
<1>5. Linked(c) /\ Placed(c) /\ Counted(c)
  BY DEF Base, Control
<1>6. /\ ~Working(c) /\ ~Working(c)' /\ ~InGate(c) /\ InGate(c)' /\ ~Starts(c)' /\ ~MakesWindow(c)' /\ ~Starts(c) /\ ~MakesWindow(c)
      /\ ~InLane(c) /\ ~InLane(c)' /\ ~Handles(c)'
  BY <1>2, <1>3, <1>5 DEF Working, InGate, Starts, MakesWindow, InLane, Handles, StartAt, WindowAt, Placed
<1>7. Linked(c)' /\ Counted(c)' /\ Placed(c)'
  BY <1>1, <1>2, <1>3, <1>5, <1>6 DEF Linked, Counted, Placed, Exclusive
<1>8. \A d \in Call \ {c} : Same(d)
  BY <1>3 DEF Held, Same
<1>9. GateStep(c) /\ LaneStep(c) /\ LinkStep(c) /\ Enters(c) /\ Takes(c)
  BY <1>2, <1>6, <1>7 DEF GateStep, LaneStep, LinkStep, Enters, Takes
<1> QED BY <1>2, <1>4, <1>7, <1>8, <1>9 DEF Moves

LEMMA LeasedFields ==
  ASSUME Base, NEW c \in Call, NEW a \in At
  PROVE  LET n == [call EXCEPT ![c].at = a, ![c].client = resource] IN
         /\ Held(n, c) /\ n[c].op = call[c].op /\ n[c].arg = call[c].arg /\ n[c].at = a
         /\ n[c].then = call[c].then /\ n[c].client = resource /\ n[c].pick = call[c].pick /\ n[c].gen = call[c].gen
<1>1. call \in [Call -> Record] /\ resource \in Nat
  BY DEF Base, ConnTypes, ControlTypes
<1> DEFINE n == [call EXCEPT ![c].at = a, ![c].client = resource]
<1>2. n \in [Call -> Record] /\ \A d \in Call \ {c} : n[d] = call[d]
  BY ZenonT(60), <1>1 DEF Record
<1>3. /\ n[c].op = call[c].op /\ n[c].arg = call[c].arg /\ n[c].at = a
      /\ n[c].then = call[c].then /\ n[c].client = resource /\ n[c].pick = call[c].pick /\ n[c].gen = call[c].gen
  BY <1>1 DEF Record
<1> QED BY <1>2, <1>3 DEF Held

LEMMA LeaseControl ==
  ASSUME Base, NEW c \in Call, Lease(c)
  PROVE  ControlTypes' /\ Moves(c)
<1>1. /\ call[c].at = "gate" /\ call[c].op \notin Exclusive /\ Head(gate) = c /\ gate' = Tail(gate)
      /\ UNCHANGED <<lane, resource, starting, inFlight>>
      /\ call' = [call EXCEPT ![c].at = "alive", ![c].client = resource]
  BY DEF Lease, client
<1>2. /\ Held(call', c) /\ call'[c].op = call[c].op /\ call'[c].arg = call[c].arg /\ call'[c].at = "alive"
      /\ call'[c].then = call[c].then /\ call'[c].client = resource
  <2>1. "alive" \in At
    BY DEF At
  <2> QED BY <1>1, <2>1, LeasedFields
<1>3. Linked(c) /\ Placed(c) /\ Counted(c) /\ InGate(c)
  BY <1>1 DEF Base, Control, InGate
<1>4. gate # <<>> /\ Tail(gate) \in Seq(Call)
  <2>1. c \in Range(gate) /\ gate \in Seq(Call) /\ Injective(gate)
    BY <1>3 DEF Base, Control, Queued, ConnTypes, ControlTypes
  <2>2. gate # <<>>
    BY <2>1, QueueSteps
  <2> QED BY <2>1, <2>2, HeadTailProperties
<1>5. ControlTypes'
  BY <1>1, <1>2, <1>4 DEF Base, ConnTypes, ControlTypes, Held
<1>6. /\ Working(c)' /\ ~InGate(c)' /\ ~Starts(c)' /\ ~MakesWindow(c)' /\ ~Starts(c) /\ ~MakesWindow(c)
      /\ ~InLane(c) /\ ~InLane(c)' /\ ~Handles(c)' /\ ~Working(c)
  BY <1>1, <1>2 DEF Working, InGate, Starts, MakesWindow, InLane, Handles, StartAt, WindowAt
<1>7. Linked(c)' /\ Counted(c)' /\ Placed(c)'
  BY <1>1, <1>2, <1>3, <1>6 DEF Linked, Counted, Placed
<1>8. \A d \in Call \ {c} : Same(d)
  BY <1>2 DEF Held, Same
<1>9. GateStep(c) /\ LaneStep(c) /\ LinkStep(c) /\ Enters(c) /\ Takes(c)
  BY <1>1, <1>2, <1>3, <1>6, <1>7 DEF GateStep, LaneStep, LinkStep, Enters, Takes
<1> QED BY <1>1, <1>5, <1>7, <1>8, <1>9 DEF Moves

(* Whoever works alone, and while an exclusive call heads the gate nobody  *)
(* runs a start or makes a window.                                         *)
LEMMA AloneLinks ==
  ASSUME Base, NEW c \in Call, \A d \in Call \ {c} : ~Working(d)
  PROVE  starting \in {c, None} /\ inFlight \in {c, None}
<1>1. ASSUME NEW d \in Call, d = starting \/ d = inFlight
      PROVE  Working(d)
  BY <1>1 DEF Base, Control, Linked, Starts, MakesWindow, Working, StartAt
<1> QED BY <1>1 DEF Base, ConnTypes, ControlTypes

LEMMA DrainedAlone ==
  ASSUME Base, NEW c \in Call, call[c].at = "gate", Head(gate) = c, Drained(Leased)
  PROVE  \A d \in Call : ~Working(d)
<1> SUFFICES ASSUME NEW d \in Call, Working(d)
             PROVE  FALSE
  OBVIOUS
<1>1. call[d].client # 0
  BY DEF Base, Control, Counted, ConnTypes, ControlTypes
<1>2. call[d].op \in Exclusive
  BY <1>1 DEF Drained, Leased
<1>3. Head(gate) = d
  BY <1>2 DEF Base, Control, Ahead
<1> QED BY <1>3 DEF Working

LEMMA EnterControl ==
  ASSUME Base, NEW c \in Call, Enter(c)
  PROVE  ControlTypes' /\ Moves(c)
<1>1. /\ call[c].at = "gate" /\ call[c].op \in Exclusive /\ Head(gate) = c /\ Drained(Leased)
      /\ UNCHANGED <<gate, lane, resource, inFlight>>
  BY DEF Enter, client
<1>2. (\A d \in Call : ~Working(d)) /\ starting = None /\ inFlight = None
  <2>1. \A d \in Call : ~Working(d)
    BY <1>1, DrainedAlone
  <2>2. starting # c /\ inFlight # c
    BY <1>1 DEF Base, Control, Linked, Starts, MakesWindow, StartAt
  <2> QED BY <2>1, <2>2, AloneLinks
<1>3. PICK a \in {"check", "endpoint", "dispose"} :
        /\ call' \in [Call -> Record] /\ \A d \in Call \ {c} : Same(d)
        /\ call'[c].op = call[c].op /\ call'[c].arg = call[c].arg /\ call'[c].client = resource /\ call'[c].at = a
        /\ call'[c].then = IF a = "endpoint" THEN "start" ELSE call[c].then
        /\ starting' = IF a = "endpoint" THEN c ELSE starting
        /\ a = "dispose" => ~Keeps(c)
  <2>1. CASE /\ Keeps(c) /\ Open /\ cur # NoTab /\ UNCHANGED starting
             /\ call' = [call EXCEPT ![c].client = resource, ![c].at = "check"]
    <3>1. /\ Held(call', c) /\ call'[c].op = call[c].op /\ call'[c].arg = call[c].arg /\ call'[c].client = resource
          /\ call'[c].at = "check" /\ call'[c].then = call[c].then
      BY ZenonT(60), <2>1, PlaceTypes DEF Record, Held
    <3> QED BY <2>1, <3>1 DEF Held, Same
  <2>2. CASE /\ starting' = c
             /\ call' = Cut([call EXCEPT ![c].client = resource, ![c].at = "endpoint", ![c].then = "start"])
    <3> DEFINE n == [call EXCEPT ![c].client = resource, ![c].at = "endpoint", ![c].then = "start"]
    <3>1. /\ Held(n, c) /\ n[c].op = call[c].op /\ n[c].arg = call[c].arg /\ n[c].client = resource
          /\ n[c].at = "endpoint" /\ n[c].then = "start"
      BY ZenonT(60), PlaceTypes DEF Record, Held
    <3> HIDE DEF n
    <3>2. call' = Cut(n)
      BY <2>2 DEF n
    <3>3. /\ call' \in [Call -> Record] /\ \A d \in Call \ {c} : Same(d)
          /\ Stays(call'[c], n[c]) /\ call'[c].at = n[c].at /\ call'[c].then = n[c].then
      BY <3>1, <3>2, CutMoves
    <3> QED BY <2>2, <3>1, <3>3 DEF Stays
  <2>3. CASE ~Keeps(c) /\ call' = [Going(c, "dispose") EXCEPT ![c].client = resource] /\ UNCHANGED starting
    <3> DEFINE g == Going(c, "dispose")
    <3>1. Held(g, c) /\ Stays(g[c], call[c]) /\ g[c].at = "dispose" /\ g[c].then = call[c].then
      <4>1. "dispose" \in At
        BY DEF At, Requesting
      <4> QED BY <4>1, GoingFields DEF Base, ConnTypes
    <3> HIDE DEF g
    <3>2. call' = [g EXCEPT ![c].client = resource]
      BY <2>3 DEF g
    <3>3. /\ Held(call', c) /\ call'[c].op = call[c].op /\ call'[c].arg = call[c].arg /\ call'[c].client = resource
          /\ call'[c].at = "dispose" /\ call'[c].then = call[c].then
      BY <3>1, <3>2, PlaceTypes DEF Record, Held, Stays
    <3> QED BY <2>3, <3>3 DEF Held, Same
  <2> QED BY <2>1, <2>2, <2>3 DEF Enter, CloseTo
<1>4. ControlTypes'
  BY <1>1, <1>3 DEF Base, ConnTypes, ControlTypes
<1>5. Linked(c) /\ Placed(c)
  BY DEF Base, Control
<1>6. /\ Working(c)' /\ InGate(c) /\ InGate(c)' /\ ~MakesWindow(c)' /\ ~InLane(c) /\ ~InLane(c)' /\ ~Handles(c)'
      /\ ~MakesWindow(c) /\ ~Starts(c) /\ (Starts(c)' <=> a = "endpoint")
  BY <1>1, <1>3, <1>5 DEF Working, InGate, Starts, MakesWindow, InLane, Handles, StartAt, WindowAt, Placed
<1>7. Linked(c)' /\ Counted(c)' /\ Placed(c)'
  <2>1. None # c
    BY ConnectionAssumption
  <2>2. Linked(c)' /\ Counted(c)'
    BY <1>1, <1>2, <1>3, <1>5, <1>6, <2>1 DEF Linked, Counted
  <2>3. call[c].op = "setup" /\ a = "dispose" => call[c].arg # None
    BY <1>3 DEF Keeps
  <2> QED BY <1>1, <1>3, <1>5, <2>2, <2>3 DEF Placed
<1>8. GateStep(c) /\ LaneStep(c) /\ LinkStep(c) /\ Enters(c) /\ Takes(c)
  BY <1>1, <1>2, <1>3, <1>6, <1>7 DEF GateStep, LaneStep, LinkStep, Enters, Takes
<1> QED BY <1>1, <1>3, <1>4, <1>7, <1>8 DEF Moves

-----------------------------------------------------------------------------
(* Disposing, the health check, the dial.                                  *)
LEMMA AtTypes == Requesting \subseteq At /\ {"check", "lane", "enable", "endpoint", "dial", "winwait", "done", "switched", "starting", "fresh", "given", "refused"} \subseteq At
BY DEF At

LEMMA InPlace ==
  ASSUME Base, NEW c \in Call
  PROVE  ControlTypes /\ Placed(c) /\ Linked(c) /\ Counted(c) /\ call \in [Call -> Record] /\ None \notin Call
BY ConnectionAssumption DEF Base, Control, ConnTypes, ControlTypes

LEMMA DisposeControl ==
  ASSUME Base, NEW c \in Call, Dispose(c)
  PROVE  ControlTypes' /\ Moves(c)
<1>1. call[c].at = "dispose" /\ call' = Going(c, "dispose") /\ UNCHANGED <<gate, lane, starting, inFlight, resource>>
  BY DEF Dispose, Go, client
<1>2. "dispose" \in At
  BY DEF At, Requesting
<1>3. Held(call', c) /\ Stays(call'[c], call[c]) /\ call'[c].at = "dispose" /\ call'[c].then = call[c].then
  BY <1>1, <1>2, InPlace, GoingFields
<1>4. Walks(c)
  BY <1>1, <1>3, InPlace DEF Walks, Working, Starts, MakesWindow, InLane, Handles, StartAt, WindowAt, Placed, Stays
<1> QED BY <1>4, WalkMoves

LEMMA AliveControl ==
  ASSUME Base, NEW c \in Call, Alive(c)
  PROVE  ControlTypes' /\ Moves(c)
<1>1. call[c].at = "alive" /\ call[c].op \notin Exclusive
  BY InPlace DEF Alive, Placed
<1>2. CASE Revive(c)
  BY <1>1, <1>2, ReviveMoves DEF Working, Starts, MakesWindow, InLane, Handles, StartAt, WindowAt
<1>3. CASE ~Revive(c)
  <2>1. UNCHANGED <<gate, lane, starting, inFlight, resource>>
    BY <1>3 DEF Alive, client
  <2>2. PICK a \in {"check", "probe"} : call' = Going(c, a)
    BY <1>3 DEF Alive, Go
  <2>3. a \in At
    BY DEF At, Requesting
  <2>4. Held(call', c) /\ Stays(call'[c], call[c]) /\ call'[c].at = a /\ call'[c].then = call[c].then
    BY <2>2, <2>3, InPlace, GoingFields
  <2>5. Walks(c)
    BY <1>1, <2>1, <2>4, InPlace DEF Walks, Working, Starts, MakesWindow, InLane, Handles, StartAt, WindowAt, Placed, Stays
  <2> QED BY <2>5, WalkMoves
<1> QED BY <1>2, <1>3

LEMMA ProbeControl ==
  ASSUME Base, NEW c \in Call, Probe(c)
  PROVE  ControlTypes' /\ Moves(c)
<1>1. call[c].at = "probe" /\ call[c].op \notin Exclusive
  BY InPlace DEF Probe, Placed
<1>2. CASE Revive(c)
  BY <1>1, <1>2, ReviveMoves DEF Working, Starts, MakesWindow, InLane, Handles, StartAt, WindowAt
<1>3. CASE ~Revive(c)
  <2>1. UNCHANGED <<gate, lane, starting, inFlight, resource>>
    BY <1>3 DEF Probe, client
  <2>2. \/ call' = Going(c, "check")
        \/ GoThen(c, "targets", "reattach")
    BY <1>3 DEF Probe, Go
  <2>3. "check" \in At /\ "targets" \in At
    BY DEF At, Requesting
  <2>4. "reattach" \in {"lane", "handler", "start", "reattach"} /\ ControlTypes
    BY InPlace
  <2>5. /\ Held(call', c) /\ Stays(call'[c], call[c])
        /\ \/ call'[c].at = "check" /\ call'[c].then = call[c].then
           \/ call'[c].at = "targets" /\ call'[c].then = "reattach"
    <3>1. CASE call' = Going(c, "check")
      BY <2>3, <3>1, InPlace, GoingFields
    <3>2. CASE GoThen(c, "targets", "reattach")
      BY <2>3, <2>4, <3>2, GoThenFields
    <3> QED BY <2>2, <3>1, <3>2
  <2>6. Walks(c)
    BY <1>1, <2>1, <2>5, InPlace DEF Walks, Working, Starts, MakesWindow, InLane, Handles, StartAt, WindowAt, Placed, Stays
  <2> QED BY <2>6, WalkMoves
<1> QED BY <1>2, <1>3

LEMMA OpensControl ==
  ASSUME Base, NEW c \in Call, Opens(c)
  PROVE  ControlTypes' /\ Moves(c)
<1>1. /\ call[c].at = "dial" /\ UNCHANGED <<gate, lane, starting, inFlight, resource>>
      /\ call' = [call EXCEPT ![c].at = "targets"] /\ call[c].then = "start"
  BY InPlace DEF Opens, client, Placed
<1>2. "targets" \in At
  BY DEF At, Requesting
<1>3. Held(call', c) /\ Stays(call'[c], call[c]) /\ call'[c].at = "targets" /\ call'[c].then = call[c].then
  BY <1>1, <1>2, InPlace DEF Held, Stays, Record
<1>4. Walks(c)
  BY <1>1, <1>3, InPlace DEF Walks, Working, Starts, MakesWindow, InLane, Handles, StartAt, WindowAt, Placed, Stays
<1> QED BY <1>4, WalkMoves

LEMMA DialControl ==
  ASSUME Base, NEW c \in Call, call[c].at = "endpoint", call' = [call EXCEPT ![c].at = "dial", ![c].cut = FALSE],
         UNCHANGED <<gate, lane, starting, inFlight, resource>>
  PROVE  ControlTypes' /\ Moves(c)
<1>1. "dial" \in At
  BY DEF At
<1>2. Held(call', c) /\ Stays(call'[c], call[c]) /\ call'[c].at = "dial" /\ call'[c].then = call[c].then
  BY ZenonT(60), <1>1, InPlace DEF Held, Stays, Record
<1>3. Walks(c)
  BY <1>2, InPlace DEF Walks, Working, Starts, MakesWindow, InLane, Handles, StartAt, WindowAt, Placed, Stays
<1> QED BY <1>3, WalkMoves

-----------------------------------------------------------------------------
(* A start that ends: it and those that joined it fail or go on together.  *)
LEMMA StartFailsControl ==
  ASSUME Base, NEW c \in Call, Starts(c), ~MakesWindow(c), call' = Started(call, FALSE) \/ call' = Cut(Started(call, FALSE)),
         StartFailed, UNCHANGED <<inFlight, resource>>
  PROVE  ControlTypes' /\ Control'
<1> DEFINE In(d) == d = c \/ call[d].at = "starting"
<1>1. starting = c /\ None \notin Call /\ c \in Call /\ call \in [Call -> Record]
  BY InPlace DEF Linked
<1>2. starting' = None /\ lane' = Without(lane, c) /\ gate' = IF call[c].op \in Exclusive THEN Without(gate, c) ELSE gate
  BY <1>1 DEF StartFailed, Freed
<1>3. /\ call' \in [Call -> Record]
      /\ \A d \in Call : /\ ~In(d) => Same(d)
                         /\ In(d) => /\ call'[d].op = call[d].op /\ call'[d].arg = call[d].arg /\ call'[d].at = "done"
                                     /\ call'[d].client = 0 /\ call'[d].then = call[d].then
  <2> DEFINE n == Started(call, FALSE)
  <2>1. /\ n \in [Call -> Record]
        /\ \A d \in Call : /\ ~In(d) => n[d] = call[d]
                           /\ In(d) => /\ n[d].op = call[d].op /\ n[d].arg = call[d].arg /\ n[d].at = "done"
                                       /\ n[d].client = 0 /\ n[d].then = call[d].then
    BY <1>1, InPlace, StartedFields
  <2>2. call' = n \/ call' = Cut(n)
    OBVIOUS
  <2> HIDE DEF n
  <2>3. /\ call' \in [Call -> Record]
        /\ \A d \in Call : Stays(call'[d], n[d]) /\ call'[d].at = n[d].at /\ call'[d].then = n[d].then
    <3>1. CASE call' = n
      BY <2>1, <3>1 DEF Stays
    <3>2. CASE call' = Cut(n)
      BY <2>1, <3>2, CutFields
    <3> QED BY <2>2, <3>1, <3>2
  <2> QED BY <2>1, <2>3 DEF Stays, Same
<1>4. \A d \in Call : /\ Placed(d) /\ Counted(d) /\ Linked(d) /\ Ahead(d)
                      /\ ~In(d) => /\ (Working(d)' <=> Working(d)) /\ (Starts(d)' <=> Starts(d)) /\ (MakesWindow(d)' <=> MakesWindow(d))
                                   /\ (Handles(d)' <=> Handles(d)) /\ (InLane(d)' <=> InLane(d)) /\ (InGate(d)' <=> InGate(d)) /\ Placed(d)'
  BY <1>3, InPlace, SamePlace DEF Base, Control
<1>5. ASSUME NEW d \in Call, In(d)
      PROVE  /\ ~Working(d)' /\ ~Starts(d)' /\ ~MakesWindow(d)' /\ ~Handles(d)' /\ ~InLane(d)' /\ ~InGate(d)' /\ Placed(d)'
             /\ Working(d) /\ ~InLane(d) /\ ~MakesWindow(d)
             /\ d # c => ~InGate(d) /\ call[d].op \notin Exclusive
  <2>1. call'[d].at = "done" /\ call'[d].op = call[d].op /\ call'[d].arg = call[d].arg
    BY <1>3, <1>5
  <2>2. /\ ~Working(d)' /\ ~Starts(d)' /\ ~MakesWindow(d)' /\ ~Handles(d)' /\ ~InLane(d)' /\ ~InGate(d)'
    BY <2>1 DEF Working, Starts, MakesWindow, Handles, InLane, InGate, StartAt, WindowAt
  <2>3. Placed(d)'
    BY <1>3, <1>4, <1>5 DEF Placed
  <2>4. CASE d = c
    BY <2>2, <2>3, <2>4 DEF Starts, Working, InLane, Handles, StartAt
  <2>5. CASE d # c
    <3>1. call[d].at = "starting" /\ call[d].op \notin Exclusive
      BY <1>4, <1>5, <2>5 DEF Placed
    <3> QED BY <2>2, <2>3, <3>1 DEF Working, InLane, Handles, MakesWindow, InGate, WindowAt
  <2> QED BY <2>4, <2>5
<1>6. Injective(gate) /\ Range(gate) = {d \in Call : InGate(d)} /\ gate \in Seq(Call)
  BY DEF Base, Control, Queued, ConnTypes, ControlTypes
<1>7. Injective(lane) /\ Range(lane) = {d \in Call : InLane(d)} /\ lane \in Seq(Call)
  BY DEF Base, Control, Queued, ConnTypes, ControlTypes
<1> HIDE DEF In
<1>8. In(c)
  BY DEF In
<1>9. ControlTypes'
  <2>1. Without(lane, c) \in Seq(Call) /\ Without(gate, c) \in Seq(Call)
    BY <1>6, <1>7, QueueSteps
  <2>2. resource \in Nat \ {0} /\ inFlight \in Call \cup {None}
    BY InPlace DEF ControlTypes
  <2> QED BY <1>2, <1>3, <1>6, <2>1, <2>2 DEF ControlTypes
<1>10. Injective(lane)' /\ (Range(lane) = {d \in Call : InLane(d)})'
  <2>1. {d \in Call : InLane(d)'} = {d \in Call : InLane(d)} \ {c}
    BY <1>4, <1>5, <1>8
  <2> QED BY <1>2, <1>7, <2>1, QueueSteps
<1>11. Injective(gate)' /\ (Range(gate) = {d \in Call : InGate(d)})'
  <2>1. {d \in Call : InGate(d)'} = {d \in Call : InGate(d)} \ {c}
    BY <1>4, <1>5, <1>8
  <2>2. CASE call[c].op \in Exclusive
    BY <1>2, <1>6, <2>1, <2>2, QueueSteps
  <2>3. CASE call[c].op \notin Exclusive
    <3>1. ~InGate(c)
      BY <1>8, <1>5, <2>3 DEF InGate, Working
    <3>2. {d \in Call : InGate(d)'} = {d \in Call : InGate(d)}
      BY <2>1, <3>1
    <3> QED BY <1>2, <1>6, <2>3, <3>2
  <2> QED BY <2>2, <2>3
<1>12. ASSUME NEW d \in Call
       PROVE  Placed(d)' /\ Counted(d)' /\ Linked(d)' /\ Ahead(d)'
  <2>1. CASE In(d)
    <3>1. call'[d].at = "done" /\ call'[d].client = 0 /\ d # starting' /\ d # inFlight'
      BY <1>1, <1>2, <1>3, <1>4, <1>5, <2>1 DEF In, Linked
    <3> QED BY <1>5, <2>1, <3>1 DEF Counted, Linked, Ahead
  <2>2. CASE ~In(d)
    <3>1. Same(d) /\ d # c /\ call[d].at # "starting"
      BY <1>3, <2>2 DEF In
    <3>2. Placed(d)' /\ Counted(d)'
      BY <1>4, <2>2, <3>1 DEF Counted, Same
    <3>3. Linked(d)'
      BY <1>1, <1>2, <1>4, <2>2, <3>1 DEF Linked, Same
    <3>4. ~(call'[d].op \in Exclusive /\ Working(d)')
      BY <1>4, <1>5, <1>8, <2>2, <3>1 DEF Ahead, Same
    <3>5. Handles(d)' => Head(lane') = d
      <4> SUFFICES ASSUME Handles(d)'
                   PROVE  Head(lane') = d
        OBVIOUS
      <4>1. Handles(d) /\ InLane(d) /\ Head(lane) = d
        BY <1>4, <2>2 DEF InLane, Ahead
      <4>2. lane # <<>>
        BY <1>7, <4>1, QueueSteps
      <4> QED BY <1>2, <1>7, <3>1, <4>1, <4>2, QueueSteps
    <3> QED BY <3>2, <3>3, <3>4, <3>5 DEF Ahead
  <2> QED BY <2>1, <2>2
<1> QED BY <1>9, <1>10, <1>11, <1>12 DEF Control, Queued

LEMMA StartSettlesControl ==
  ASSUME Base, NEW c \in Call, call[c].at = "enable", call[c].then = "start", call' = Started(call, TRUE),
         starting' = None, UNCHANGED <<gate, lane, inFlight, resource>>
  PROVE  ControlTypes' /\ Control'
<1> DEFINE In(d) == d = c \/ call[d].at = "starting"
<1>1. starting = c /\ None \notin Call /\ c \in Call /\ call \in [Call -> Record]
  BY InPlace DEF Linked, Starts, StartAt
<1>3. /\ call' \in [Call -> Record]
      /\ \A d \in Call : /\ ~In(d) => call'[d] = call[d]
                         /\ In(d) => Stays(call'[d], call[d]) /\ call'[d].at = "check" /\ call'[d].then = call[d].then
  BY <1>1, InPlace, StartedFields
<1>4. \A d \in Call : Placed(d) /\ Counted(d) /\ Linked(d) /\ Ahead(d)
  BY DEF Base, Control
<1>5. ASSUME NEW d \in Call
      PROVE  /\ (Working(d)' <=> Working(d)) /\ (MakesWindow(d)' <=> MakesWindow(d)) /\ ~Starts(d)'
             /\ (Handles(d)' <=> Handles(d)) /\ (InLane(d)' <=> InLane(d)) /\ (InGate(d)' <=> InGate(d)) /\ Placed(d)'
             /\ call'[d].op = call[d].op /\ call'[d].at # "starting" /\ Counted(d)'
  <2>1. CASE In(d)
    <3>1. /\ call[d].at \in {"enable", "starting"} /\ (call[d].at = "enable" => call[d].then = "start")
          /\ Stays(call'[d], call[d]) /\ call'[d].at = "check" /\ call'[d].then = call[d].then
      BY <1>3, <2>1
    <3>2. /\ (Working(d)' <=> Working(d)) /\ (MakesWindow(d)' <=> MakesWindow(d)) /\ ~Starts(d)'
          /\ (Handles(d)' <=> Handles(d)) /\ (InLane(d)' <=> InLane(d)) /\ (InGate(d)' <=> InGate(d))
      BY <3>1 DEF Working, Starts, MakesWindow, Handles, InLane, InGate, StartAt, WindowAt, Stays
    <3> QED BY <1>4, <3>1, <3>2 DEF Placed, Counted, Stays
  <2>2. CASE ~In(d)
    <3>1. call'[d] = call[d] /\ d # starting /\ call[d].at # "starting"
      BY <1>1, <1>3, <2>2
    <3>2. /\ (Working(d)' <=> Working(d)) /\ (MakesWindow(d)' <=> MakesWindow(d)) /\ ~Starts(d)'
          /\ (Handles(d)' <=> Handles(d)) /\ (InLane(d)' <=> InLane(d)) /\ (InGate(d)' <=> InGate(d))
      <4>1. ~Starts(d)
        BY <1>4, <3>1 DEF Linked
      <4> QED BY <3>1, <4>1 DEF Working, Starts, MakesWindow, Handles, InLane, InGate
    <3> QED BY <1>4, <3>1, <3>2 DEF Placed, Counted
  <2> QED BY <2>1, <2>2
<1>6. ControlTypes'
  BY <1>3, InPlace DEF ControlTypes
<1>7. Queued'
  BY <1>5 DEF Base, Control, Queued
<1>8. \A d \in Call : Ahead(d)'
  BY <1>4, <1>5 DEF Ahead
<1>9. ASSUME NEW d \in Call
      PROVE  Linked(d)'
  <2>1. call'[d].at = "winwait" => inFlight # None
    BY <1>3, <1>4 DEF Linked
  <2> QED BY <1>1, <1>4, <1>5, <2>1 DEF Linked
<1> QED BY <1>5, <1>6, <1>7, <1>8, <1>9 DEF Control

LEMMA MovesOn ==
  ASSUME Base, NEW c \in Call, ControlTypes' /\ Moves(c)
  PROVE  ControlTypes' /\ Control'
BY MovesControl DEF Base, ConnTypes

LEMMA EndpointControl ==
  ASSUME Base, NEW c \in Call, Endpoint(c)
  PROVE  ControlTypes' /\ Control'
<1>1. call[c].at = "endpoint" /\ UNCHANGED <<resource, inFlight>> /\ call[c].then = "start"
  BY InPlace DEF Endpoint, client, Placed
<1>2. Starts(c) /\ ~MakesWindow(c)
  BY <1>1 DEF Starts, StartAt, MakesWindow
<1>3. CASE call' = Started(call, FALSE) /\ StartFailed
  BY <1>1, <1>2, <1>3, StartFailsControl
<1>4. CASE call' = [call EXCEPT ![c].at = "dial", ![c].cut = FALSE] /\ UNCHANGED <<starting, gate, lane>>
  <2>1. ControlTypes' /\ Moves(c)
    BY <1>1, <1>4, DialControl
  <2> QED BY <2>1, MovesOn
<1> QED BY <1>3, <1>4 DEF Endpoint

LEMMA DialFailsControl ==
  ASSUME Base, NEW c \in Call, DialFails(c)
  PROVE  ControlTypes' /\ Control'
<1>1. call[c].at = "dial" /\ UNCHANGED <<resource, inFlight>> /\ call[c].then = "start" /\ StartFailed
  BY InPlace DEF DialFails, client, Placed
<1>2. Starts(c) /\ ~MakesWindow(c)
  BY <1>1 DEF Starts, StartAt, MakesWindow
<1>3. call' = Cut(Started(call, FALSE))
  BY DEF DialFails, Close, CloseTo
<1> QED BY <1>1, <1>2, <1>3, StartFailsControl

LEMMA AttachFailsControl ==
  ASSUME Base, NEW c \in Call, call[c].at \in {"targets", "attach", "refused"}, call[c].then \in {"start", "reattach"}, AttachFails(c)
  PROVE  ControlTypes' /\ Control'
<1>1. CASE call[c].then = "start"
  <2>1. Starts(c) /\ ~MakesWindow(c)
    BY <1>1 DEF Starts, StartAt, MakesWindow
  <2>2. call' = Cut(Started(call, FALSE)) /\ StartFailed /\ UNCHANGED <<resource, inFlight>>
    BY <1>1 DEF AttachFails, Close, CloseTo, client
  <2> QED BY <2>1, <2>2, StartFailsControl
<1>2. CASE call[c].then # "start"
  <2>1. call[c].then = "reattach" /\ call[c].op \notin Exclusive
    BY <1>2, InPlace DEF Placed
  <2>2. Working(c) /\ ~Starts(c) /\ ~MakesWindow(c) /\ ~InLane(c)
    BY <2>1 DEF Working, Starts, MakesWindow, InLane, Handles
  <2>3. Revive(c)
    BY <1>2 DEF AttachFails
  <2>4. ControlTypes' /\ Moves(c)
    BY <2>1, <2>2, <2>3, ReviveMoves
  <2> QED BY <2>4, MovesOn
<1> QED BY <1>1, <1>2

(* What the registry may come to, and the tab a call picks of it.          *)
RegistryTypes ==
  /\ \A ids \in Seq(Tab) : First(ids) \in Tab \cup {None}
  /\ LiveOnly(owned) \in Seq(Tab) /\ Adopted(LiveOnly(owned)) \in Seq(Tab)
  /\ Unused # {} => NewTab \in Unused

LEMMA TargetsControl ==
  ASSUME Base, RegistryTypes, NEW c \in Call, Targets(c)
  PROVE  ControlTypes' /\ Control'
<1>1. call[c].at = "targets" /\ call[c].then \in {"start", "reattach"}
  BY InPlace DEF Targets, Placed
<1>2. CASE AttachFails(c)
  BY <1>1, <1>2, AttachFailsControl
<1>3. CASE ~AttachFails(c)
  <2> DEFINE t == PickOwned(Adopted(LiveOnly(owned)))
  <2>1. /\ UNCHANGED <<gate, lane, resource, starting>>
        /\ IF t # None THEN GoPick(c, "attach", t) /\ UNCHANGED inFlight ELSE AskWindow(c)
    BY <1>3 DEF Targets, client
  <2>2. t \in Tab \cup {None} /\ "attach" \in At
    BY DEF RegistryTypes, PickOwned, At, Requesting
  <2> HIDE DEF t
  <2>3. CASE t # None
    <3>1. Held(call', c) /\ Stays(call'[c], call[c]) /\ call'[c].at = "attach" /\ call'[c].then = call[c].then
      BY <2>1, <2>2, <2>3, InPlace, GoPickFields
    <3>2. Walks(c)
      BY <1>1, <2>1, <2>3, <3>1, InPlace DEF Walks, Working, Starts, MakesWindow, InLane, Handles, StartAt, WindowAt, Placed, Stays
    <3>3. ControlTypes' /\ Moves(c)
      BY <3>2, WalkMoves
    <3> QED BY <3>3, MovesOn
  <2>4. CASE t = None
    <3>1. ControlTypes' /\ Moves(c)
      BY <1>1, <2>1, <2>4, AskMoves
    <3> QED BY <3>1, MovesOn
  <2> QED BY <2>3, <2>4
<1> QED BY <1>2, <1>3

LEMMA AttachControl ==
  ASSUME Base, NEW c \in Call, Attach(c)
  PROVE  ControlTypes' /\ Control'
<1>1. call[c].at = "attach" /\ call[c].then \in {"start", "reattach"}
  BY InPlace DEF Attach, Placed
<1>2. CASE AttachFails(c)
  BY <1>1, <1>2, AttachFailsControl
<1>3. CASE ~AttachFails(c)
  <2>1. UNCHANGED <<gate, lane, resource, starting, inFlight>> /\ call' = Going(c, "enable")
    BY <1>3 DEF Attach, client, Go
  <2>2. "enable" \in At
    BY DEF At
  <2>3. Held(call', c) /\ Stays(call'[c], call[c]) /\ call'[c].at = "enable" /\ call'[c].then = call[c].then
    BY <2>1, <2>2, InPlace, GoingFields
  <2>4. Walks(c)
    BY <1>1, <2>1, <2>3, InPlace DEF Walks, Working, Starts, MakesWindow, InLane, Handles, StartAt, WindowAt, Placed, Stays
  <2>5. ControlTypes' /\ Moves(c)
    BY <2>4, WalkMoves
  <2> QED BY <2>5, MovesOn
<1> QED BY <1>2, <1>3

LEMMA EnabledControl ==
  ASSUME Base, NEW c \in Call, Enabled(c)
  PROVE  ControlTypes' /\ Control'
<1>1. call[c].at = "enable" /\ call[c].then \in {"start", "reattach"} /\ UNCHANGED <<gate, lane, resource, inFlight>>
  BY InPlace DEF Enabled, Placed, client
<1>2. CASE call[c].then = "start"
  <2>1. call' = Started(call, TRUE) /\ starting' = None
    BY <1>2 DEF Enabled
  <2> QED BY <1>1, <1>2, <2>1, StartSettlesControl
<1>3. CASE call[c].then # "start"
  <2>1. call' = Going(c, "check") /\ UNCHANGED starting
    BY <1>3 DEF Enabled, Go
  <2>2. "check" \in At
    BY DEF At
  <2>3. Held(call', c) /\ Stays(call'[c], call[c]) /\ call'[c].at = "check" /\ call'[c].then = call[c].then
    BY <2>1, <2>2, InPlace, GoingFields
  <2>4. Walks(c)
    BY <1>1, <1>3, <2>1, <2>3, InPlace DEF Walks, Working, Starts, MakesWindow, InLane, Handles, StartAt, WindowAt, Placed, Stays
  <2>5. ControlTypes' /\ Moves(c)
    BY <2>4, WalkMoves
  <2> QED BY <2>5, MovesOn
<1> QED BY <1>2, <1>3

-----------------------------------------------------------------------------
(* The window made, or refused, answers the call that asked and all that   *)
(* wait for it.                                                            *)
LEMMA WindowDoneFields ==
  ASSUME ControlTypes, NEW c \in Call, NEW a \in {"fresh", "given", "refused"}, NEW t \in Tab \cup {None}, WindowDone(c, a, t)
  PROVE  /\ call' \in [Call -> Record]
         /\ \A d \in Call : LET s == d = c \/ call[d].at = "winwait" IN
              /\ ~s => call'[d] = call[d]
              /\ s => /\ Stays(call'[d], call[d]) /\ call'[d].then = call[d].then /\ call'[d].pick = t /\ call'[d].gen = call[d].gen
                      /\ call'[d].at = IF d = c THEN a ELSE Shared(a)
<1>0. a \in At /\ Shared(a) \in At /\ call \in [Call -> Record]
  BY DEF At, Shared, ControlTypes
<1>1. ASSUME NEW d \in Call
      PROVE  LET x == [call[d] EXCEPT !.at = a, !.pick = t, !.cut = FALSE]
                 y == [call[d] EXCEPT !.at = Shared(a), !.pick = t]
             IN  /\ x \in Record /\ Stays(x, call[d]) /\ x.at = a /\ x.then = call[d].then /\ x.pick = t /\ x.gen = call[d].gen
                 /\ y \in Record /\ Stays(y, call[d]) /\ y.at = Shared(a) /\ y.then = call[d].then /\ y.pick = t /\ y.gen = call[d].gen
  BY <1>0 DEF Record, Stays
<1>2. ASSUME NEW d \in Call
      PROVE  /\ d = c => call'[d] = [call[d] EXCEPT !.at = a, !.pick = t, !.cut = FALSE]
             /\ d # c /\ call[d].at = "winwait" => call'[d] = [call[d] EXCEPT !.at = Shared(a), !.pick = t]
             /\ d # c /\ call[d].at # "winwait" => call'[d] = call[d]
  BY DEF WindowDone
<1>3. \A d \in Call : call'[d] \in Record
  BY <1>0, <1>1, <1>2
<1>4. call' \in [Call -> Record]
  <2>1. call' = [d \in Call |-> call'[d]]
    BY DEF WindowDone
  <2> QED BY <1>3, <2>1
<1>5. ASSUME NEW d \in Call
      PROVE  LET s == d = c \/ call[d].at = "winwait" IN
             /\ ~s => call'[d] = call[d]
             /\ s => /\ Stays(call'[d], call[d]) /\ call'[d].then = call[d].then /\ call'[d].pick = t /\ call'[d].gen = call[d].gen
                     /\ call'[d].at = IF d = c THEN a ELSE Shared(a)
  <2>1. CASE d = c
    BY <1>1, <1>2, <2>1
  <2>2. CASE d # c /\ call[d].at = "winwait"
    BY <1>1, <1>2, <2>2
  <2>3. CASE d # c /\ call[d].at # "winwait"
    BY <1>2, <2>3
  <2> QED BY <2>1, <2>2, <2>3
<1> QED BY <1>4, <1>5

LEMMA WindowDoneControl ==
  ASSUME Base, NEW c \in Call, MakesWindow(c), NEW a \in {"fresh", "given", "refused"}, NEW t \in Tab \cup {None}, WindowDone(c, a, t),
         UNCHANGED <<gate, lane, starting, resource>>
  PROVE  ControlTypes' /\ Control'
<1> DEFINE In(d) == d = c \/ call[d].at = "winwait"
<1>1. inFlight = c /\ inFlight' = None /\ None \notin Call /\ call \in [Call -> Record]
  BY InPlace DEF Linked, WindowDone
<1>2. /\ call' \in [Call -> Record]
      /\ \A d \in Call : /\ ~In(d) => call'[d] = call[d]
                         /\ In(d) => /\ Stays(call'[d], call[d]) /\ call'[d].then = call[d].then
                                     /\ call'[d].at \in {"fresh", "given", "refused"}
  <2>1. Shared(a) \in {"fresh", "given", "refused"}
    BY DEF Shared
  <2>2. /\ call' \in [Call -> Record]
        /\ \A d \in Call : /\ ~In(d) => call'[d] = call[d]
                           /\ In(d) => /\ Stays(call'[d], call[d]) /\ call'[d].then = call[d].then
                                       /\ call'[d].at = IF d = c THEN a ELSE Shared(a)
    BY InPlace, WindowDoneFields
  <2> QED BY <2>1, <2>2
<1>3. \A d \in Call : Placed(d) /\ Counted(d) /\ Linked(d) /\ Ahead(d)
  BY DEF Base, Control
<1>4. ASSUME NEW d \in Call
      PROVE  /\ (Working(d)' <=> Working(d)) /\ ~MakesWindow(d)' /\ (Starts(d)' <=> Starts(d))
             /\ (Handles(d)' <=> Handles(d)) /\ (InLane(d)' <=> InLane(d)) /\ (InGate(d)' <=> InGate(d)) /\ Placed(d)'
             /\ call'[d].op = call[d].op /\ call'[d].at # "winwait" /\ Counted(d)'
             /\ (call'[d].at = "starting" <=> call[d].at = "starting")
  <2>1. CASE In(d)
    <3>1. call[d].at \in {"wintargets", "create", "winwait"}
      BY <2>1 DEF MakesWindow
    <3>2. Stays(call'[d], call[d]) /\ call'[d].at \in {"fresh", "given", "refused"} /\ call'[d].then = call[d].then
      BY <1>2, <2>1
    <3>3. /\ (Working(d)' <=> Working(d)) /\ ~MakesWindow(d)' /\ (Starts(d)' <=> Starts(d))
          /\ (Handles(d)' <=> Handles(d)) /\ (InLane(d)' <=> InLane(d)) /\ (InGate(d)' <=> InGate(d))
      BY <3>1, <3>2 DEF Working, Starts, MakesWindow, Handles, InLane, InGate, StartAt, WindowAt, Stays
    <3> QED BY <1>3, <3>1, <3>2, <3>3 DEF Placed, Counted, Stays
  <2>2. CASE ~In(d)
    <3>1. call'[d] = call[d] /\ d # inFlight /\ call[d].at # "winwait"
      BY <1>1, <1>2, <2>2
    <3> QED BY <1>3, <3>1 DEF Working, Starts, MakesWindow, Handles, InLane, InGate, Placed, Counted, Linked
  <2> QED BY <2>1, <2>2
<1>6. ControlTypes'
  BY <1>1, <1>2, InPlace DEF ControlTypes
<1>7. Queued'
  BY <1>4 DEF Base, Control, Queued
<1>8. \A d \in Call : Ahead(d)'
  BY <1>3, <1>4 DEF Ahead
<1>9. ASSUME NEW d \in Call
      PROVE  Linked(d)'
  BY <1>1, <1>3, <1>4 DEF Linked
<1> QED BY <1>4, <1>6, <1>7, <1>8, <1>9 DEF Control

LEMMA WinTargetsControl ==
  ASSUME Base, RegistryTypes, NEW c \in Call, WinTargets(c)
  PROVE  ControlTypes' /\ Control'
<1> DEFINE t == IF WindowIfLive # None THEN window ELSE First(LiveOnly(owned))
<1>1. call[c].at = "wintargets" /\ UNCHANGED <<gate, lane, resource, starting>> /\ MakesWindow(c)
  BY DEF WinTargets, client, MakesWindow
<1>2. t \in Tab \cup {None} /\ None \in Tab \cup {None}
  BY DEF RegistryTypes, Base, ConnTypes, WorldTypes
<1> HIDE DEF t
<1>3. CASE WindowDone(c, "refused", None)
  BY <1>1, <1>2, <1>3, WindowDoneControl
<1>4. CASE WindowDone(c, "given", t)
  BY <1>1, <1>2, <1>4, WindowDoneControl
<1>5. CASE Go(c, "create") /\ UNCHANGED inFlight
  <2>1. call' = Going(c, "create")
    BY <1>5 DEF Go
  <2>2. "create" \in At
    BY DEF At, Requesting
  <2>3. Held(call', c) /\ Stays(call'[c], call[c]) /\ call'[c].at = "create" /\ call'[c].then = call[c].then
    BY <2>1, <2>2, InPlace, GoingFields
  <2>4. Walks(c)
    BY <1>1, <1>5, <2>3, InPlace DEF Walks, Working, Starts, MakesWindow, InLane, Handles, StartAt, WindowAt, Placed, Stays
  <2>5. ControlTypes' /\ Moves(c)
    BY <2>4, WalkMoves
  <2> QED BY <2>5, MovesOn
<1> QED BY <1>3, <1>4, <1>5 DEF WinTargets, t

LEMMA CreateControl ==
  ASSUME Base, RegistryTypes, NEW c \in Call, Create(c)
  PROVE  ControlTypes' /\ Control'
<1>1. call[c].at = "create" /\ UNCHANGED <<gate, lane, resource, starting>> /\ MakesWindow(c)
  BY DEF Create, client, MakesWindow
<1>2. CASE WindowDone(c, "refused", None)
  <2>1. None \in Tab \cup {None}
    OBVIOUS
  <2> QED BY <1>1, <1>2, <2>1, WindowDoneControl
<1>3. CASE WindowDone(c, "fresh", NewTab) /\ Unused # {}
  <2>1. NewTab \in Tab \cup {None}
    BY <1>3 DEF RegistryTypes, Unused, Tab
  <2> QED BY <1>1, <1>3, <2>1, WindowDoneControl
<1> QED BY <1>2, <1>3 DEF Create

LEMMA GivenControl ==
  ASSUME Base, NEW c \in Call, Given(c)
  PROVE  ControlTypes' /\ Control'
<1>1. CASE call[c].at = "refused" /\ ~Opening(c) /\ AttachFails(c)
  <2>1. call[c].then \in {"start", "reattach"}
    BY <1>1, InPlace DEF Opening, Record
  <2> QED BY <1>1, <2>1, AttachFailsControl
<1>2. CASE /\ call[c].at = "refused" /\ Opening(c) /\ End(c) /\ UNCHANGED <<client, starting, inFlight>>
  <2>1. Working(c) /\ c # starting /\ ~MakesWindow(c) /\ UNCHANGED <<starting, inFlight, resource>>
    BY <1>2, InPlace DEF Working, MakesWindow, Opening, Linked, Starts, client
  <2>2. ControlTypes' /\ Moves(c)
    BY <1>2, <2>1, EndMoves
  <2> QED BY <2>2, MovesOn
<1>3. CASE /\ call[c].at \in {"fresh", "given"} /\ UNCHANGED <<gate, lane, client, starting, inFlight>>
           /\ Go(c, IF ~Opening(c) THEN "attach" ELSE IF call[c].at = "fresh" THEN "switch" ELSE "open")
  <2>1. PICK a \in {"attach", "switch", "open"} : call' = Going(c, a) /\ (a = "attach" <=> ~Opening(c))
    BY <1>3 DEF Go
  <2>2. a \in At
    BY DEF At, Requesting
  <2>3. Held(call', c) /\ Stays(call'[c], call[c]) /\ call'[c].at = a /\ call'[c].then = call[c].then
    BY <2>1, <2>2, InPlace, GoingFields
  <2>4. call[c].then \in {"lane", "handler", "start", "reattach"} /\ UNCHANGED <<gate, lane, starting, inFlight, resource>>
    BY <1>3, InPlace DEF Record, client
  <2>5. Walks(c)
    BY <1>3, <2>1, <2>3, <2>4, InPlace DEF Walks, Working, Starts, MakesWindow, InLane, Handles, StartAt, WindowAt, Placed, Stays, Opening
  <2>6. ControlTypes' /\ Moves(c)
    BY <2>5, WalkMoves
  <2> QED BY <2>6, MovesOn
<1> QED BY <1>1, <1>2, <1>3 DEF Given

-----------------------------------------------------------------------------
(* The tools' own steps.                                                   *)
LEMMA EndControl ==
  ASSUME Base, NEW c \in Call, End(c), call[c].at \notin {"new", "gate", "done", "wintargets", "create"},
         call[c].at \in StartAt => call[c].then # "start", UNCHANGED <<client, starting, inFlight>>
  PROVE  ControlTypes' /\ Control'
<1>1. Working(c) /\ c # starting /\ ~MakesWindow(c) /\ UNCHANGED <<starting, inFlight, resource>>
  BY InPlace DEF Working, MakesWindow, Linked, Starts, client
<1>2. ControlTypes' /\ Moves(c)
  BY <1>1, EndMoves
<1> QED BY <1>2, MovesOn

LEMMA WalkControl ==
  ASSUME Base, NEW c \in Call, Walks(c)
  PROVE  ControlTypes' /\ Control'
<1>1. ControlTypes' /\ Moves(c)
  BY WalkMoves
<1> QED BY <1>1, MovesOn

LEMMA LaneControl ==
  ASSUME Base, NEW c \in Call, call[c].at \in {"check", "switched"}, call[c].at = "switched" => call[c].then # "handler",
         Go(c, "lane"), lane' = Append(lane, c), call[c].op \notin Exclusive, UNCHANGED <<gate, client, starting, inFlight>>
  PROVE  ControlTypes' /\ Control'
<1>1. "lane" \in At /\ call' = Going(c, "lane")
  BY DEF At, Go
<1>2. Held(call', c) /\ Stays(call'[c], call[c]) /\ call'[c].at = "lane" /\ call'[c].then = call[c].then
  BY <1>1, InPlace, GoingFields
<1>3. Working(c) /\ ~InLane(c) /\ ~Starts(c) /\ ~MakesWindow(c)
  BY DEF Working, InLane, Handles, Starts, MakesWindow, StartAt, WindowAt
<1>4. UNCHANGED <<gate, starting, inFlight, resource>>
  BY DEF client
<1>5. ControlTypes' /\ Moves(c)
  BY <1>2, <1>3, <1>4, LaneMoves
<1> QED BY <1>5, MovesOn

LEMMA CheckControl ==
  ASSUME Base, NEW c \in Call, Check(c)
  PROVE  ControlTypes' /\ Control'
<1>1. call[c].at = "check" /\ UNCHANGED <<resource, client, starting, inFlight>>
  BY DEF Check, client
<1>2. CASE call[c].op \in Exclusive /\ End(c)
  BY <1>1, <1>2, EndControl DEF StartAt
<1>3. CASE call[c].op \notin Exclusive \cup Parallel /\ Go(c, "lane") /\ lane' = Append(lane, c) /\ UNCHANGED gate
  BY <1>1, <1>3, LaneControl
<1>4. CASE GoThen(c, "tabs", "lane") /\ UNCHANGED <<gate, lane>>
  <2>1. "tabs" \in At /\ "lane" \in {"lane", "handler", "start", "reattach"}
    BY DEF At, Requesting
  <2>2. Held(call', c) /\ Stays(call'[c], call[c]) /\ call'[c].at = "tabs" /\ call'[c].then = "lane"
    BY <1>4, <2>1, InPlace, GoThenFields
  <2>3. Walks(c)
    BY <1>1, <1>4, <2>2, InPlace DEF Walks, Working, Starts, MakesWindow, InLane, Handles, StartAt, WindowAt, Placed, Stays
  <2> QED BY <2>3, WalkControl
<1>5. CASE call[c].op \in Parallel /\ call' = [call EXCEPT ![c] = Reading(cur, @)] /\ UNCHANGED <<gate, lane>>
  <2>1. cur \in [tab : Tab \cup {None}, gen : Nat]
    BY DEF Base, ConnTypes, WorldTypes
  <2>2. Held(call', c) /\ Stays(call'[c], call[c]) /\ call'[c].at \in {"act", "listing"} /\ call'[c].then = call[c].then
    BY <1>5, <2>1, InPlace, ReadingFields
  <2>3. Walks(c)
    BY <1>1, <1>5, <2>2, InPlace DEF Walks, Working, Starts, MakesWindow, InLane, Handles, StartAt, WindowAt, Placed, Stays, Exclusive, Parallel
  <2> QED BY <2>3, WalkControl
<1> QED BY <1>2, <1>3, <1>4, <1>5 DEF Check

LEMMA TabsControl ==
  ASSUME Base, NEW c \in Call, Tabs(c)
  PROVE  ControlTypes' /\ Control'
<1>1. call[c].at = "tabs" /\ UNCHANGED <<client, resource, starting>>
  BY DEF Tabs, client
<1>2. CASE End(c) /\ UNCHANGED inFlight
  BY <1>1, <1>2, EndControl DEF StartAt
<1>3. CASE AskWindow(c) /\ UNCHANGED <<gate, lane>>
  <2>1. ControlTypes' /\ Moves(c)
    BY <1>1, <1>3, AskMoves
  <2> QED BY <2>1, MovesOn
<1> QED BY <1>2, <1>3 DEF Tabs

LEMMA OpenTabControl ==
  ASSUME Base, RegistryTypes, NEW c \in Call, OpenTab(c)
  PROVE  ControlTypes' /\ Control'
<1>1. call[c].at = "open" /\ UNCHANGED <<client, resource, starting, inFlight>> /\ call[c].then \in {"lane", "handler"}
  BY InPlace DEF OpenTab, client, Placed
<1>2. CASE End(c)
  BY <1>1, <1>2, EndControl DEF StartAt
<1>3. CASE GoPick(c, "switch", NewTab) /\ UNCHANGED <<gate, lane>> /\ Unused # {}
  <2>1. NewTab \in Tab \cup {None} /\ "switch" \in At
    BY <1>3 DEF RegistryTypes, Unused, Tab, At, Requesting
  <2>2. Held(call', c) /\ Stays(call'[c], call[c]) /\ call'[c].at = "switch" /\ call'[c].then = call[c].then
    BY <1>3, <2>1, InPlace, GoPickFields
  <2>3. Walks(c)
    BY <1>1, <1>3, <2>2, InPlace DEF Walks, Working, Starts, MakesWindow, InLane, Handles, StartAt, WindowAt, Placed, Stays
  <2> QED BY <2>3, WalkControl
<1> QED BY <1>2, <1>3 DEF OpenTab

LEMMA SwitchedFields ==
  ASSUME Base, NEW c \in Call, call' = [Going(c, "switched") EXCEPT ![c].gen = link.gen]
  PROVE  /\ Held(call', c) /\ Stays(call'[c], call[c]) /\ call'[c].at = "switched"
         /\ call'[c].then = call[c].then /\ call'[c].pick = call[c].pick /\ call'[c].gen = link.gen
<1> DEFINE g == Going(c, "switched")
<1>1. /\ Held(g, c) /\ Stays(g[c], call[c]) /\ g[c].at = "switched"
      /\ g[c].then = call[c].then /\ g[c].pick = call[c].pick
  <2>1. "switched" \in At
    BY DEF At
  <2> QED BY <2>1, InPlace, GoingFields
<1>2. link.gen \in Nat
  BY DEF Base, ConnTypes, WorldTypes
<1> HIDE DEF g
<1>3. call' = [g EXCEPT ![c].gen = link.gen]
  BY DEF g
<1>4. LET n == [g EXCEPT ![c].gen = link.gen] IN
      /\ Held(n, c) /\ Stays(n[c], call[c]) /\ n[c].at = "switched"
      /\ n[c].then = call[c].then /\ n[c].pick = call[c].pick /\ n[c].gen = link.gen
  BY <1>1, <1>2 DEF Held, Stays, Record
<1> QED BY <1>3, <1>4

LEMMA SwitchControl ==
  ASSUME Base, NEW c \in Call, Switch(c)
  PROVE  ControlTypes' /\ Control'
<1>1. call[c].at = "switch" /\ UNCHANGED <<client, resource, starting, inFlight>> /\ call[c].then \in {"lane", "handler"}
  BY InPlace DEF Switch, client, Placed
<1>2. CASE End(c)
  BY <1>1, <1>2, EndControl DEF StartAt
<1>3. CASE call' = [Going(c, "switched") EXCEPT ![c].gen = link.gen] /\ UNCHANGED <<gate, lane>>
  <2>1. Held(call', c) /\ Stays(call'[c], call[c]) /\ call'[c].at = "switched" /\ call'[c].then = call[c].then
    BY <1>3, SwitchedFields
  <2>2. Walks(c)
    BY <1>1, <1>3, <2>1, InPlace DEF Walks, Working, Starts, MakesWindow, InLane, Handles, StartAt, WindowAt, Placed, Stays
  <2> QED BY <2>2, WalkControl
<1> QED BY <1>2, <1>3 DEF Switch

LEMMA SwitchedControl ==
  ASSUME Base, NEW c \in Call, Switched(c)
  PROVE  ControlTypes' /\ Control'
<1>1. /\ call[c].at = "switched" /\ UNCHANGED <<client, resource, starting, inFlight>> /\ call[c].then \in {"lane", "handler"}
      /\ cur' = [tab |-> call[c].pick, gen |-> call[c].gen]
  BY InPlace DEF Switched, client, Placed
<1>2. CASE End(c)
  BY <1>1, <1>2, EndControl DEF StartAt
<1>3. CASE /\ ~(call[c].then = "handler" \/ call[c].op \in Exclusive) /\ call[c].op \in Parallel
           /\ call' = [call EXCEPT ![c] = Reading(cur', @)] /\ UNCHANGED <<gate, lane>>
  <2> DEFINE now == [tab |-> call[c].pick, gen |-> call[c].gen]
  <2>1. now \in [tab : Tab \cup {None}, gen : Nat] /\ call' = [call EXCEPT ![c] = Reading(now, @)]
    BY <1>1, <1>3, InPlace DEF Record
  <2> HIDE DEF now
  <2>2. Held(call', c) /\ Stays(call'[c], call[c]) /\ call'[c].at \in {"act", "listing"} /\ call'[c].then = call[c].then
    BY <2>1, InPlace, ReadingFields
  <2>3. Walks(c)
    BY <1>1, <1>3, <2>2, InPlace DEF Walks, Working, Starts, MakesWindow, InLane, Handles, StartAt, WindowAt, Placed, Stays, Exclusive, Parallel
  <2> QED BY <2>3, WalkControl
<1>4. CASE /\ ~(call[c].then = "handler" \/ call[c].op \in Exclusive)
           /\ Go(c, "lane") /\ lane' = Append(lane, c) /\ UNCHANGED gate
  BY <1>1, <1>4, LaneControl
<1> QED BY <1>2, <1>3, <1>4 DEF Switched

LEMMA ControlIsTab ==
  ASSUME Base, NEW t, CanControl(t)
  PROVE  t \in Tab
BY RangeSeq DEF CanControl, Owns, Base, ConnTypes, WorldTypes

LEMMA HandleControl ==
  ASSUME Base, NEW c \in Call, Handle(c)
  PROVE  ControlTypes' /\ Control'
<1>1. /\ call[c].at = "lane" /\ UNCHANGED <<client, resource, starting, inFlight>> /\ Head(lane) = c
      /\ call[c].op \notin Exclusive
  BY InPlace DEF Handle, client, Placed, InTurn
<1>2. CASE End(c)
  BY <1>1, <1>2, EndControl DEF StartAt
<1>3. CASE call[c].op = "act" /\ call' = [call EXCEPT ![c] = Acting(cur, @)] /\ UNCHANGED <<gate, lane>>
  <2>1. cur \in [tab : Tab \cup {None}, gen : Nat]
    BY DEF Base, ConnTypes, WorldTypes
  <2>2. Held(call', c) /\ Stays(call'[c], call[c]) /\ call'[c].at = "act" /\ call'[c].then = call[c].then
    BY <1>3, <2>1, InPlace, ActingFields
  <2>3. Walks(c)
    BY <1>1, <1>3, <2>2, InPlace DEF Walks, Working, Starts, MakesWindow, InLane, Handles, StartAt, WindowAt, Placed, Stays, Parallel, Exclusive
  <2> QED BY <2>3, WalkControl
<1>4. CASE GoThen(c, "tabs", "handler") /\ UNCHANGED <<gate, lane>>
  <2>1. "tabs" \in At /\ "handler" \in {"lane", "handler", "start", "reattach"}
    BY DEF At, Requesting
  <2>2. Held(call', c) /\ Stays(call'[c], call[c]) /\ call'[c].at = "tabs" /\ call'[c].then = "handler"
    BY <1>4, <2>1, InPlace, GoThenFields
  <2>3. Walks(c)
    BY <1>1, <1>4, <2>2, InPlace DEF Walks, Working, Starts, MakesWindow, InLane, Handles, StartAt, WindowAt, Placed, Stays
  <2> QED BY <2>3, WalkControl
<1>5. CASE CanControl(call[c].arg) /\ call' = [Going(c, "switch") EXCEPT ![c].pick = call[c].arg, ![c].then = "handler"] /\ UNCHANGED <<gate, lane>>
  <2>1. call[c].arg \in Tab \cup {None}
    BY <1>5, ControlIsTab
  <2>2. Held(call', c) /\ Stays(call'[c], call[c]) /\ call'[c].at = "switch" /\ call'[c].then = "handler"
    BY <1>5, <2>1, InPlace, SwitchFields
  <2>3. Walks(c)
    BY <1>1, <1>5, <2>2, InPlace DEF Walks, Working, Starts, MakesWindow, InLane, Handles, StartAt, WindowAt, Placed, Stays
  <2> QED BY <2>3, WalkControl
<1>6. CASE /\ (call[c].op = "authorize" /\ Go(c, "exists")) \/ Go(c, "closing") \/ (call[c].op = "navigate" /\ Go(c, "listing"))
           /\ UNCHANGED <<gate, lane>>
  <2>1. PICK a \in {"exists", "closing", "listing"} :
          call' = Going(c, a) /\ (a = "exists" => call[c].op = "authorize") /\ (a = "listing" => call[c].op = "navigate")
    BY <1>6 DEF Go
  <2>2. a \in At
    BY DEF At, Requesting
  <2>3. Held(call', c) /\ Stays(call'[c], call[c]) /\ call'[c].at = a /\ call'[c].then = call[c].then
    BY <2>1, <2>2, InPlace, GoingFields
  <2>4. Walks(c)
    BY <1>1, <1>6, <2>1, <2>3, InPlace DEF Walks, Working, Starts, MakesWindow, InLane, Handles, StartAt, WindowAt, Placed, Stays, Parallel, Exclusive
  <2> QED BY <2>4, WalkControl
<1> QED BY <1>2, <1>3, <1>4, <1>5, <1>6 DEF Handle

LEMMA ListingControl ==
  ASSUME Base, NEW c \in Call, Listing(c)
  PROVE  ControlTypes' /\ Control'
<1>1. call[c].at = "listing" /\ UNCHANGED <<client, resource, starting, inFlight>>
  BY DEF Listing, client
<1>2. CASE End(c)
  BY <1>1, <1>2, EndControl DEF StartAt
<1>3. CASE call[c].op = "navigate" /\ UNCHANGED <<gate, lane>> /\ GoThen(c, "tabs", "handler")
  <2>1. "tabs" \in At /\ "handler" \in {"lane", "handler", "start", "reattach"}
    BY DEF At, Requesting
  <2>2. Held(call', c) /\ Stays(call'[c], call[c]) /\ call'[c].at = "tabs" /\ call'[c].then = "handler"
    BY <1>3, <2>1, InPlace, GoThenFields
  <2>3. Walks(c)
    BY <1>1, <1>3, <2>2, InPlace DEF Walks, Working, Starts, MakesWindow, InLane, Handles, StartAt, WindowAt, Placed, Stays, Parallel, Exclusive
  <2> QED BY <2>3, WalkControl
<1>4. CASE call[c].op = "navigate" /\ UNCHANGED <<gate, lane>> /\ call' = [call EXCEPT ![c] = Acting(cur, @)]
  <2>1. cur \in [tab : Tab \cup {None}, gen : Nat]
    BY DEF Base, ConnTypes, WorldTypes
  <2>2. Held(call', c) /\ Stays(call'[c], call[c]) /\ call'[c].at = "act" /\ call'[c].then = call[c].then
    BY <1>4, <2>1, InPlace, ActingFields
  <2>3. Walks(c)
    BY <1>1, <1>4, <2>2, InPlace DEF Walks, Working, Starts, MakesWindow, InLane, Handles, StartAt, WindowAt, Placed, Stays, Parallel, Exclusive
  <2> QED BY <2>3, WalkControl
<1> QED BY <1>2, <1>3, <1>4 DEF Listing

LEMMA AuthorizeControl ==
  ASSUME Base, NEW c \in Call, Authorize(c)
  PROVE  ControlTypes' /\ Control'
<1>1. call[c].at = "exists" /\ UNCHANGED <<client, resource, starting, inFlight>>
  BY DEF Authorize, client
<1>2. CASE End(c)
  BY <1>1, <1>2, EndControl DEF StartAt
<1>3. CASE call[c].arg \in Pages /\ call' = [Going(c, "switch") EXCEPT ![c].pick = call[c].arg, ![c].then = "handler"] /\ UNCHANGED <<gate, lane>>
  <2>1. call[c].arg \in Tab \cup {None}
    BY <1>3 DEF Pages, Base, ConnTypes, WorldTypes
  <2>2. Held(call', c) /\ Stays(call'[c], call[c]) /\ call'[c].at = "switch" /\ call'[c].then = "handler"
    BY <1>3, <2>1, InPlace, SwitchFields
  <2>3. Walks(c)
    BY <1>1, <1>3, <2>2, InPlace DEF Walks, Working, Starts, MakesWindow, InLane, Handles, StartAt, WindowAt, Placed, Stays
  <2> QED BY <2>3, WalkControl
<1> QED BY <1>2, <1>3 DEF Authorize

LEMMA LastControl ==
  ASSUME Base, NEW c \in Call, Act(c) \/ CloseTab(c) \/ Abort(c) \/ SaveFails(c)
  PROVE  ControlTypes' /\ Control'
<1>1. /\ call[c].at \in {"act", "closing", "alive", "lane", "dispose"} /\ End(c) /\ UNCHANGED <<client, starting, inFlight>>
  BY DEF Act, CloseTab, Abort, SaveFails
<1> QED BY <1>1, EndControl DEF StartAt

(* An exclusive call that ends one resource and begins the next works      *)
(* alone, so that no call is left with the old one.                        *)
LEMMA DisconnectControl ==
  ASSUME Base, NEW c \in Call, Disconnect(c)
  PROVE  ControlTypes' /\ Control'
<1>1. /\ call[c].at = "dispose" /\ resource' = resource + 1 /\ inFlight' = inFlight
      /\ IF call[c].op = "release" THEN End(c) /\ UNCHANGED starting
         ELSE /\ call' = [call EXCEPT ![c].at = "endpoint", ![c].client = resource + 1, ![c].then = "start"]
              /\ starting' = c /\ UNCHANGED <<gate, lane>>
  BY DEF Disconnect
<1>2. call[c].op \in Exclusive /\ Working(c) /\ None \notin Call /\ call \in [Call -> Record]
      /\ resource \in Nat \ {0}
  BY <1>1, InPlace DEF Placed, Working, ControlTypes
<1>3. Head(gate) = c /\ \A d \in Call \ {c} : ~Working(d)
  BY <1>2 DEF Base, Control, Ahead
<1>4. starting = None /\ inFlight = None
  <2>1. starting # c /\ inFlight # c
    BY <1>1, InPlace DEF Linked, Starts, MakesWindow, StartAt
  <2> QED BY <1>3, <2>1, AloneLinks
<1>5. \A d \in Call \ {c} : call[d].at \in {"new", "gate", "done"} /\ Placed(d) /\ Counted(d) /\ Linked(d)
  BY <1>3, InPlace DEF Working
<1>6. Injective(gate) /\ Range(gate) = {d \in Call : InGate(d)} /\ gate \in Seq(Call)
  BY DEF Base, Control, Queued, ConnTypes, ControlTypes
<1>7. Injective(lane) /\ Range(lane) = {d \in Call : InLane(d)} /\ lane \in Seq(Call)
  BY DEF Base, Control, Queued, ConnTypes, ControlTypes
<1>8. CASE call[c].op = "release"
  <2>1. /\ Held(call', c) /\ call'[c].op = call[c].op /\ call'[c].arg = call[c].arg /\ call'[c].at = "done" /\ call'[c].client = 0
        /\ call'[c].then = call[c].then
    BY <1>1, <1>8, InPlace, EndedFields DEF End
  <2>2. lane' = Without(lane, c) /\ gate' = Without(gate, c) /\ starting' = None
    BY <1>1, <1>2, <1>4, <1>8 DEF End, Freed
  <2>3. \A d \in Call : call'[d].at \in {"new", "gate", "done"} /\ (d # c => call'[d] = call[d])
    BY <1>5, <2>1 DEF Held
  <2>4. \A d \in Call : /\ ~Working(d)' /\ ~Starts(d)' /\ ~MakesWindow(d)' /\ ~Handles(d)' /\ ~InLane(d)'
                        /\ (d # c => (InGate(d)' <=> InGate(d))) /\ (d # c => ~InLane(d))
    BY <1>5, <2>3 DEF Working, Starts, MakesWindow, Handles, InLane, InGate, StartAt, WindowAt
  <2>5. ~InGate(c)'
    BY <2>1 DEF InGate, Working
  <2>6. Injective(gate)' /\ (Range(gate) = {d \in Call : InGate(d)})' /\ gate' \in Seq(Call)
    <3>1. {d \in Call : InGate(d)'} = {d \in Call : InGate(d)} \ {c}
      BY <2>4, <2>5
    <3> QED BY <1>6, <2>2, <3>1, QueueSteps
  <2>7. Injective(lane)' /\ (Range(lane) = {d \in Call : InLane(d)})' /\ lane' \in Seq(Call)
    <3>1. {d \in Call : InLane(d)'} = {d \in Call : InLane(d)} \ {c}
      BY <2>4
    <3> QED BY <1>7, <2>2, <3>1, QueueSteps
  <2>8. ControlTypes'
    BY <1>1, <1>2, <1>4, <2>1, <2>2, <2>6, <2>7 DEF ControlTypes, Held
  <2>9. ASSUME NEW d \in Call
        PROVE  Placed(d)' /\ Counted(d)' /\ Linked(d)' /\ Ahead(d)'
    <3>1. Placed(d)' /\ call'[d].client = 0
      BY <1>5, <2>1, InPlace DEF Placed, Held, Counted, Working
    <3>2. Counted(d)'
      BY <2>4, <3>1 DEF Counted
    <3>3. Linked(d)' /\ Ahead(d)'
      BY <1>1, <1>2, <1>4, <2>2, <2>3, <2>4 DEF Linked, Ahead
    <3> QED BY <3>1, <3>2, <3>3
  <2> QED BY <2>6, <2>7, <2>8, <2>9 DEF Control, Queued
<1>9. CASE call[c].op # "release"
  <2>1. /\ Held(call', c) /\ call'[c].op = call[c].op /\ call'[c].arg = call[c].arg /\ call'[c].at = "endpoint"
        /\ call'[c].client = resource + 1 /\ call'[c].then = "start"
    <3> DEFINE k == resource + 1
    <3>1. "endpoint" \in At /\ k \in Nat
      BY <1>2 DEF At
    <3>2. call' = [call EXCEPT ![c].at = "endpoint", ![c].client = k, ![c].then = "start"]
      BY <1>1, <1>9
    <3> HIDE DEF k
    <3> DEFINE n == [call EXCEPT ![c].at = "endpoint", ![c].client = k, ![c].then = "start"]
    <3> DEFINE x == [call[c] EXCEPT !.at = "endpoint", !.client = k, !.then = "start"]
    <3>3. /\ Held(n, c) /\ n[c].op = call[c].op /\ n[c].arg = call[c].arg /\ n[c].at = "endpoint"
          /\ n[c].client = k /\ n[c].then = "start"
      <4>1. n = [call EXCEPT ![c] = x]
        BY <1>2
      <4>2. x \in Record /\ x.op = call[c].op /\ x.arg = call[c].arg /\ x.at = "endpoint" /\ x.client = k /\ x.then = "start"
        BY <1>2, <3>1 DEF Record
      <4> HIDE DEF n, x
      <4> QED BY <1>2, <4>1, <4>2 DEF Held
    <3> HIDE DEF n
    <3>4. call' = n
      BY <3>2 DEF n
    <3> QED BY <3>3, <3>4 DEF k
  <2>2. UNCHANGED <<gate, lane>> /\ starting' = c
    BY <1>1, <1>9
  <2>3. \A d \in Call \ {c} : call'[d] = call[d]
    BY <2>1 DEF Held
  <2>4. /\ \A d \in Call : d # c => /\ ~Working(d)' /\ ~Starts(d)' /\ ~MakesWindow(d)' /\ ~Handles(d)' /\ (InLane(d)' <=> InLane(d))
                                    /\ (InGate(d)' <=> InGate(d)) /\ Placed(d)' /\ (Counted(d)') /\ call'[d].at \notin {"starting", "winwait"}
        /\ Working(c)' /\ Starts(c)' /\ ~MakesWindow(c)' /\ ~Handles(c)' /\ ~InLane(c)' /\ ~InLane(c) /\ InGate(c)' /\ InGate(c)
    <3>1. ASSUME NEW d \in Call, d # c
          PROVE  /\ ~Working(d)' /\ ~Starts(d)' /\ ~MakesWindow(d)' /\ ~Handles(d)' /\ (InLane(d)' <=> InLane(d))
                 /\ (InGate(d)' <=> InGate(d)) /\ Placed(d)' /\ (Counted(d)') /\ call'[d].at \notin {"starting", "winwait"}
      <4>1. call'[d] = call[d] /\ call[d].at \in {"new", "gate", "done"} /\ Placed(d) /\ Counted(d)
        BY <1>5, <2>3, <3>1
      <4> QED BY <4>1 DEF Working, Starts, MakesWindow, Handles, InLane, InGate, StartAt, WindowAt, Placed, Counted
    <3>2. Working(c)' /\ Starts(c)' /\ ~MakesWindow(c)' /\ ~Handles(c)' /\ ~InLane(c)' /\ ~InLane(c) /\ InGate(c)' /\ InGate(c)
      BY <1>1, <1>2, <2>1 DEF Working, Starts, MakesWindow, Handles, InLane, InGate, StartAt, WindowAt
    <3> QED BY <3>1, <3>2
  <2>5. Queued'
    <3>1. {d \in Call : InGate(d)'} = {d \in Call : InGate(d)} /\ {d \in Call : InLane(d)'} = {d \in Call : InLane(d)}
      BY <2>4
    <3> QED BY <1>6, <1>7, <2>2, <3>1 DEF Queued
  <2>6. ControlTypes'
    BY <1>1, <1>2, <1>4, <1>6, <1>7, <2>1, <2>2 DEF ControlTypes, Held
  <2>7. Placed(c)' /\ Counted(c)'
    BY <1>1, <1>2, <2>1, <2>4, InPlace DEF Placed, Counted
  <2>8. ASSUME NEW d \in Call
        PROVE  Linked(d)' /\ Ahead(d)'
    BY <1>1, <1>2, <1>3, <1>4, <2>1, <2>2, <2>4 DEF Linked, Ahead
  <2> QED BY <2>4, <2>5, <2>6, <2>7, <2>8 DEF Control
<1> QED BY <1>8, <1>9

(* Steps that move no call: the browser, the network, consumeEvents.       *)
LEMMA StillControl ==
  ASSUME Base, call' = call \/ call' = Cut(call), UNCHANGED <<gate, lane, resource, starting, inFlight>>
  PROVE  ControlTypes' /\ Control'
<1>1. call \in [Call -> Record] /\ ControlTypes
  BY DEF Base, ConnTypes, ControlTypes
<1>2. call' \in [Call -> Record] /\ \A d \in Call : Same(d)
  <2>1. CASE call' = call
    BY <1>1, <2>1 DEF Same
  <2>2. CASE call' = Cut(call)
    BY <1>1, <2>2, CutFields DEF Same, Stays
  <2> QED BY <2>1, <2>2
<1>3. \A d \in Call : /\ (Working(d)' <=> Working(d)) /\ (Starts(d)' <=> Starts(d))
                      /\ (MakesWindow(d)' <=> MakesWindow(d)) /\ (Handles(d)' <=> Handles(d))
                      /\ (InLane(d)' <=> InLane(d)) /\ (InGate(d)' <=> InGate(d)) /\ Placed(d)'
                      /\ Placed(d) /\ Counted(d) /\ Linked(d) /\ Ahead(d)
  BY <1>1, <1>2, SamePlace DEF Base, Control
<1>4. ControlTypes'
  BY <1>1, <1>2 DEF ControlTypes
<1>5. Queued'
  BY <1>3 DEF Base, Control, Queued
<1>6. \A d \in Call : Counted(d)' /\ Linked(d)' /\ Ahead(d)'
  BY <1>2, <1>3 DEF Same, Counted, Linked, Ahead
<1> QED BY <1>3, <1>4, <1>5, <1>6 DEF Control

LEMMA StepsControl ==
  ASSUME Base, RegistryTypes, [Next]_vars
  PROVE  ControlTypes' /\ Control'
<1>1. ASSUME NEW c \in Call, Steps(c) \/ Abort(c)
      PROVE  ControlTypes' /\ Control'
  <2>1. CASE \E k \in Kinds[c] : Begin(c, k[1], k[2])
    BY <2>1, BeginControl, MovesOn
  <2>2. CASE Lease(c)
    BY <2>2, LeaseControl, MovesOn
  <2>3. CASE Enter(c)
    BY <2>3, EnterControl, MovesOn
  <2>4. CASE Dispose(c)
    BY <2>4, DisposeControl, MovesOn
  <2>5. CASE Alive(c)
    BY <2>5, AliveControl, MovesOn
  <2>6. CASE Probe(c)
    BY <2>6, ProbeControl, MovesOn
  <2>7. CASE Opens(c)
    BY <2>7, OpensControl, MovesOn
  <2>8. CASE Disconnect(c)
    BY <2>8, DisconnectControl
  <2>9. CASE Endpoint(c) \/ DialFails(c)
    BY <2>9, EndpointControl, DialFailsControl
  <2>10. CASE Targets(c) \/ Attach(c) \/ Enabled(c)
    BY <2>10, TargetsControl, AttachControl, EnabledControl
  <2>11. CASE WinTargets(c) \/ Create(c) \/ Given(c)
    BY <2>11, WinTargetsControl, CreateControl, GivenControl
  <2>12. CASE Check(c) \/ Tabs(c) \/ OpenTab(c)
    BY <2>12, CheckControl, TabsControl, OpenTabControl
  <2>13. CASE Switch(c) \/ Switched(c) \/ Handle(c)
    BY <2>13, SwitchControl, SwitchedControl, HandleControl
  <2>14. CASE Act(c) \/ CloseTab(c) \/ Abort(c) \/ SaveFails(c) \/ Authorize(c) \/ Listing(c)
    BY <2>14, LastControl, AuthorizeControl, ListingControl
  <2> QED BY <1>1, <2>1, <2>2, <2>3, <2>4, <2>5, <2>6, <2>7, <2>8, <2>9, <2>10, <2>11, <2>12, <2>13, <2>14 DEF Steps
<1>2. CASE Drop
  BY <1>2, StillControl DEF Drop, Close, CloseTo, client
<1>3. CASE Consume
  BY <1>3, StillControl DEF Consume, client
<1>4. CASE \E t \in Tab : TabGone(t) \/ Popup(t)
  BY <1>4, StillControl DEF TabGone, Popup, client
<1>5. CASE UNCHANGED vars
  BY <1>5, StillControl DEF vars, client
<1> QED BY <1>1, <1>2, <1>3, <1>4, <1>5 DEF Next

-----------------------------------------------------------------------------
(* The registry: pruning keeps what is live, in order; adopting adds pages *)
(* of the browser that are not owned yet; a new tab is one never opened.   *)
LEMMA SomeOrder ==
  ASSUME NEW S, IsFiniteSet(S)
  PROVE  SetToSeq(S) \in Seq(S) /\ Injective(SetToSeq(S))
<1>1. PICK n \in Nat : ExistsBijection(1..n, S)
  BY FS_NatBijection
<1>2. Cardinality(S) = n
  BY <1>1, FS_CountingElements
<1>3. \E f \in [1..n -> S] : IsInjective(f)
  BY <1>1 DEF ExistsBijection, Bijection, Injection
<1>4. SetToSeq(S) \in [1..n -> S] /\ IsInjective(SetToSeq(S))
  BY <1>2, <1>3 DEF SetToSeq
<1> QED BY <1>4 DEF Injective, IsInjective

LEMMA Joining ==
  ASSUME NEW S, NEW s \in Seq(S), NEW t \in Seq(S), Injective(s), Injective(t), Range(s) \cap Range(t) = {}
  PROVE  s \o t \in Seq(S) /\ Injective(s \o t) /\ Range(s \o t) = Range(s) \cup Range(t)
<1>1. /\ DOMAIN s = 1..Len(s) /\ Len(s) \in Nat /\ DOMAIN t = 1..Len(t) /\ Len(t) \in Nat
      /\ \A i \in 1..Len(s) : s[i] \in Range(s)
      /\ \A i \in 1..Len(t) : t[i] \in Range(t)
  BY RangeSeq
<1>2. /\ s \o t \in Seq(S) /\ Len(s \o t) = Len(s) + Len(t) /\ DOMAIN (s \o t) = 1..(Len(s) + Len(t))
      /\ \A i \in 1..(Len(s) + Len(t)) : (s \o t)[i] = IF i <= Len(s) THEN s[i] ELSE t[i - Len(s)]
  BY <1>1, ConcatProperties
<1> DEFINE r == s \o t
<1> HIDE DEF r
<1>3. ASSUME NEW i \in 1..(Len(s) + Len(t)), NEW j \in 1..(Len(s) + Len(t)), r[i] = r[j]
      PROVE  i = j
  <2>0. /\ r[i] = IF i <= Len(s) THEN s[i] ELSE t[i - Len(s)]
        /\ r[j] = IF j <= Len(s) THEN s[j] ELSE t[j - Len(s)]
    BY <1>2 DEF r
  <2>1. CASE i <= Len(s) /\ j <= Len(s)
    <3>1. i \in DOMAIN s /\ j \in DOMAIN s
      BY <1>1, <2>1
    <3>2. r[i] = s[i] /\ r[j] = s[j]
      BY <2>0, <2>1
    <3> QED BY <1>3, <3>1, <3>2 DEF Injective
  <2>2. CASE ~(i <= Len(s)) /\ ~(j <= Len(s))
    <3>0. i - Len(s) \in 1..Len(t) /\ j - Len(s) \in 1..Len(t)
      BY <1>1, <2>2
    <3>1. t[i - Len(s)] = t[j - Len(s)]
      <4>1. r[i] = t[i - Len(s)] /\ r[j] = t[j - Len(s)]
        BY <2>0, <2>2
      <4> QED BY <1>3, <4>1
    <3>2. i - Len(s) = j - Len(s)
      BY <1>1, <3>0, <3>1 DEF Injective
    <3> QED BY <1>1, <3>2
  <2>3. CASE i <= Len(s) /\ ~(j <= Len(s))
    <3>1. j - Len(s) \in 1..Len(t) /\ i \in 1..Len(s)
      BY <1>1, <2>3
    <3> QED BY <1>1, <1>3, <2>0, <2>3, <3>1
  <2>4. CASE ~(i <= Len(s)) /\ j <= Len(s)
    <3>1. i - Len(s) \in 1..Len(t) /\ j \in 1..Len(s)
      BY <1>1, <2>4
    <3> QED BY <1>1, <1>3, <2>0, <2>4, <3>1
  <2> QED BY <2>1, <2>2, <2>3, <2>4
<1>4. Injective(r)
  BY <1>2, <1>3 DEF Injective, r
<1>5. \A x \in Range(r) : x \in Range(s) \cup Range(t)
  <2> SUFFICES ASSUME NEW i \in 1..(Len(s) + Len(t))
               PROVE  r[i] \in Range(s) \cup Range(t)
    BY <1>2 DEF Range, r
  <2>1. CASE i <= Len(s)
    BY <1>1, <1>2, <2>1 DEF r
  <2>2. CASE ~(i <= Len(s))
    <3>1. i - Len(s) \in 1..Len(t) /\ r[i] = t[i - Len(s)]
      BY <1>1, <1>2, <2>2 DEF r
    <3> QED BY <1>1, <3>1
  <2> QED BY <2>1, <2>2
<1>6. \A x \in Range(s) : x \in Range(r)
  <2> SUFFICES ASSUME NEW i \in 1..Len(s)
               PROVE  s[i] \in Range(r)
    BY <1>1 DEF Range
  <2>1. i \in 1..(Len(s) + Len(t)) /\ r[i] = s[i]
    BY <1>1, <1>2 DEF r
  <2> QED BY <1>2, <2>1 DEF Range, r
<1>7. \A x \in Range(t) : x \in Range(r)
  <2> SUFFICES ASSUME NEW i \in 1..Len(t)
               PROVE  t[i] \in Range(r)
    BY <1>1 DEF Range
  <2>1. Len(s) + i \in 1..(Len(s) + Len(t)) /\ r[Len(s) + i] = t[i]
    BY <1>1, <1>2 DEF r
  <2> QED BY <1>2, <2>1 DEF Range, r
<1> QED BY <1>2, <1>4, <1>5, <1>6, <1>7 DEF r

LEMMA Registers ==
  ASSUME WorldTypes
  PROVE  /\ LiveOnly(owned) \in Seq(Tab) /\ Injective(LiveOnly(owned)) /\ Range(LiveOnly(owned)) = Range(owned) \cap Pages
         /\ LET ids == Adopted(LiveOnly(owned)) IN
              /\ ids \in Seq(Tab) /\ Injective(ids) /\ Range(owned) \cap Pages \in SUBSET Range(ids)
              /\ Range(ids) \in SUBSET ((Range(owned) \cap Pages) \cup IF selected = Cdp THEN {} ELSE Pages)
         /\ \A ids \in Seq(Tab) : First(ids) = None \/ (First(ids) \in Range(ids) /\ First(ids) \in Tab)
         /\ Unused # {} => NewTab \in Unused
         /\ Range(owned) \in SUBSET Tab /\ Pages \in SUBSET Tab
<1>1. owned \in Seq(Tab) /\ Injective(owned) /\ Pages \in SUBSET Tab /\ Pages \in SUBSET live
  BY DEF WorldTypes, Pages
<1>2. LiveOnly(owned) \in Seq(Tab) /\ Injective(LiveOnly(owned)) /\ Range(LiveOnly(owned)) = Range(owned) \cap Pages
  BY <1>1, KeptOnly DEF LiveOnly
<1>3. LET ids == Adopted(LiveOnly(owned)) IN
        /\ ids \in Seq(Tab) /\ Injective(ids) /\ Range(owned) \cap Pages \in SUBSET Range(ids)
        /\ Range(ids) \in SUBSET ((Range(owned) \cap Pages) \cup IF selected = Cdp THEN {} ELSE Pages)
  <2> DEFINE kept == LiveOnly(owned)
             rest == SetToSeq(Pages \ Range(kept))
  <2> HIDE DEF kept
  <2>0. kept \in Seq(Tab) /\ Injective(kept) /\ Range(kept) = Range(owned) \cap Pages
    BY <1>2 DEF kept
  <2>1. CASE kept = <<>> \/ selected = Cdp
    <3>1. Adopted(kept) = kept
      BY <2>1 DEF Adopted
    <3> QED BY <2>0, <3>1 DEF kept
  <2>2. CASE ~(kept = <<>> \/ selected = Cdp)
    <3>1. IsFiniteSet(Pages \ Range(kept))
      BY <1>1, ConnectionAssumption, FS_Subset
    <3>2. rest \in Seq(Pages \ Range(kept)) /\ Injective(rest)
      BY <3>1, SomeOrder
    <3>3. rest \in Seq(Tab) /\ Range(rest) \in SUBSET (Pages \ Range(kept))
      <4> HIDE DEF rest
      <4>1. Range(rest) \in SUBSET (Pages \ Range(kept))
        BY <3>2, RangeSeq
      <4>2. rest \in Seq(Tab)
        BY <1>1, <3>2
      <4> QED BY <4>1, <4>2
    <3>4. Adopted(kept) = kept \o rest
      BY <2>2 DEF Adopted
    <3> HIDE DEF rest
    <3>5. kept \o rest \in Seq(Tab) /\ Injective(kept \o rest) /\ Range(kept \o rest) = Range(kept) \cup Range(rest)
      BY <2>0, <3>2, <3>3, Joining
    <3>6. LET ids == kept \o rest IN
          /\ ids \in Seq(Tab) /\ Injective(ids) /\ Range(owned) \cap Pages \in SUBSET Range(ids)
          /\ Range(ids) \in SUBSET ((Range(owned) \cap Pages) \cup IF selected = Cdp THEN {} ELSE Pages)
      BY <2>0, <2>2, <3>3, <3>5
    <3> QED BY <3>4, <3>6 DEF kept
  <2> QED BY <2>1, <2>2
<1>4. \A ids \in Seq(Tab) : First(ids) = None \/ (First(ids) \in Range(ids) /\ First(ids) \in Tab)
  <2> TAKE ids \in Seq(Tab)
  <2>1. CASE ids = <<>>
    BY <2>1 DEF First
  <2>2. CASE ids # <<>>
    <3>1. First(ids) = ids[1] /\ 1 \in 1..Len(ids)
      BY <2>2, EmptySeq DEF First
    <3> QED BY <3>1, RangeSeq
  <2> QED BY <2>1, <2>2
<1>5. Unused # {} => NewTab \in Unused
  <2> SUFFICES ASSUME Unused # {}
               PROVE  NewTab \in Unused
    OBVIOUS
  <2>1. Unused \in SUBSET Nat
    BY ConnectionAssumption DEF Unused
  <2>2. \E t \in Unused : \A u \in Unused : t <= u
    BY <2>1, NatHasLeast
  <2> QED BY <2>2 DEF NewTab
<1>6. Range(owned) \in SUBSET Tab
  BY <1>1, RangeSeq
<1> QED BY <1>1, <1>2, <1>3, <1>4, <1>5, <1>6

LEMMA RegistryIsTyped == ASSUME WorldTypes PROVE RegistryTypes
BY Registers DEF RegistryTypes

-----------------------------------------------------------------------------
(* Definition 4.  What is known of the tabs: whose browser each is in,     *)
(* that what is owned, current, awaited or told was opened, that the       *)
(* session's tab and the one a call goes to may be controlled, or was      *)
(* dropped by a listing that left it out, and that new tabs differ.        *)
Opened(t) == t = None \/ home[t] # None
Reached == Range(owned) \cup authorized \cup dropped
Controlled(t) == t \in Pages => t \in Reached
Homes ==
  /\ \A t \in UserTab : home[t] = Cdp
  /\ \A t \in live \cup Range(owned) \cup authorized : home[t] # None
  /\ UserTabsAreNotOwned
  /\ Opened(cur.tab) /\ Controlled(cur.tab)
  /\ Opened(window) /\ (window \in Pages => Owns(window))
TellsTruth(e) ==
  home[e[2]] # None /\ (e[1] = "gone" => e[2] \notin live) /\ (e[1] = "popup" => e[2] \in HarnessTab)
Told == \A e \in Range(events) : TellsTruth(e)
GoesTo == {"fresh", "given", "attach", "switch", "switched"}
Picked(c) ==
  /\ Opened(call[c].pick) /\ (call[c].at \in GoesTo => Controlled(call[c].pick))
  /\ call[c].at = "dispose" /\ call[c].cut => ~Open
Shows(c) == call[c].op = "new" /\ call[c].at \in {"fresh", "switch", "switched", "done"} /\ call[c].pick # None
Apart == \A c, d \in Call : c # d /\ Shows(c) /\ Shows(d) => call[c].pick # call[d].pick
Tabbed == Homes /\ Told /\ Apart /\ \A c \in Call : Picked(c)
ConnectionInv == Base /\ Tabbed /\ SteelSessionIsKept

(* A step opens the tabs of N, none anew, and takes from the registry only *)
(* what is no page any more or is marked as dropped.                       *)
Turns(N) ==
  /\ selected' = selected /\ N \in SUBSET Unused
  /\ \A t \in Tab : home'[t] = IF t \in N THEN selected ELSE home[t]
  /\ live' \in SUBSET (live \cup N)
  /\ \A t \in Range(owned) : t \in live' /\ home[t] = selected => t \in Range(owned') \/ (t \in dropped' /\ window' # t)
  /\ \A t \in authorized \cup dropped : t \in live' /\ home[t] = selected => t \in Reached'
  /\ \A t \in Range(owned') : t \in Range(owned) \cup N \/ (t \in HarnessTab /\ home[t] # None)
  /\ \A t \in authorized' : t \in authorized \/ home[t] # None
  /\ window' \in {None, window} \cup Range(owned')
  /\ \A e \in Range(events') : e \in Range(events) \/ TellsTruth(e)'
  /\ \E t \in Tab \cup {None} : cur'.tab = t /\ Opened(t) /\ Controlled(t)
WorldStep ==
  /\ selected' = selected
  /\ \A t \in Tab : home[t] # None => home'[t] = home[t]
  /\ \A t \in Tab : home[t] # None /\ t \in live' => t \in live
  /\ \A t \in Tab : home[t] # None /\ t \in live' /\ home[t] = selected /\ t \in Reached => t \in Reached'

LEMMA StillControlled ==
  ASSUME WorldTypes, WorldTypes', WorldStep, NEW t \in Tab \cup {None}, Opened(t)
  PROVE  /\ t = None \/ home'[t] # None
         /\ Controlled(t) => (t \in Pages' => t \in Reached')
<1>1. None \notin Tab
  BY ConnectionAssumption
<1>2. t \in Pages' => t \in Tab
  BY DEF Pages, WorldTypes
<1> QED BY <1>1, <1>2 DEF WorldStep, Opened, Controlled, Pages, WorldTypes

LEMMA TurnsWorld ==
  ASSUME WorldTypes, WorldTypes', Homes, Told, NEW N, Turns(N)
  PROVE  WorldStep /\ Homes' /\ Told'
<1>1. /\ N \in SUBSET Tab /\ N \in SUBSET HarnessTab /\ \A t \in N : home[t] = None
      /\ selected \in Provider /\ None \notin Provider /\ None \notin Tab /\ Tab = UserTab \cup HarnessTab /\ UserTab \cap HarnessTab = {}
      /\ Range(owned) \in SUBSET Tab /\ authorized \in SUBSET Tab /\ live \in SUBSET Tab
      /\ Range(owned') \in SUBSET Tab /\ authorized' \in SUBSET Tab /\ live' \in SUBSET Tab
      /\ window \in Tab \cup {None} /\ window' \in Tab \cup {None}
  <2>1. owned \in Seq(Tab) /\ owned' \in Seq(Tab)
    BY DEF WorldTypes
  <2>2. Range(owned) \in SUBSET Tab /\ Range(owned') \in SUBSET Tab
    BY <2>1, RangeSeq
  <2> QED BY <2>2, ConnectionAssumption DEF Turns, WorldTypes, Unused, Tab
<1>2. WorldStep
  BY <1>1 DEF Turns, WorldStep, Reached
<1>3. \A t \in UserTab : home'[t] = Cdp
  BY <1>1 DEF Turns, Homes
<1>4. \A t \in live' \cup Range(owned') \cup authorized' : home'[t] # None
  <2>1. \A t \in live' : home'[t] # None
    BY <1>1 DEF Turns, Homes
  <2>2. \A t \in Range(owned') : home'[t] # None
    BY <1>1 DEF Turns, Homes
  <2>3. \A t \in authorized' : home'[t] # None
    BY <1>1 DEF Turns, Homes
  <2> QED BY <2>1, <2>2, <2>3
<1>5. UserTabsAreNotOwned'
  <2>1. \A t \in UserTab : t \notin Range(owned')
    BY <1>1 DEF Turns, Homes, UserTabsAreNotOwned
  <2> QED BY <2>1 DEF UserTabsAreNotOwned
<1>6. Opened(cur.tab)' /\ Controlled(cur.tab)'
  <2>1. PICK t \in Tab \cup {None} : cur'.tab = t /\ Opened(t) /\ Controlled(t)
    BY DEF Turns
  <2>2. /\ t = None \/ home'[t] # None
        /\ t \in Pages' => t \in Reached'
    BY <1>2, <2>1, StillControlled
  <2> QED BY <2>1, <2>2 DEF Opened, Controlled
<1>7. Opened(window)' /\ (window' \in Pages' => window' \in Range(owned'))
  <2>1. Opened(window)'
    BY <1>1, <1>4 DEF Turns, Homes, Opened
  <2>2. ASSUME window' \in Pages'
        PROVE  window' \in Range(owned')
    <3>1. CASE window' \in Range(owned')
      BY <3>1
    <3>2. CASE window' = window
      <4>1. window \in live' /\ home'[window] = selected /\ window \in Tab
        BY <1>1, <2>2, <3>2 DEF Pages, Turns
      <4>2. home[window] # None
        BY <1>1, <4>1 DEF Homes, Opened
      <4>3. window \in Pages
        BY <1>2, <4>1, <4>2 DEF WorldStep, Pages
      <4>4. window \in Range(owned)
        BY <4>3 DEF Homes, Owns
      <4> QED BY <3>2, <4>1, <4>3, <4>4 DEF Turns, Pages
    <3>3. CASE window' = None
      BY <1>1, <2>2, <3>3 DEF Pages
    <3> QED BY <3>1, <3>2, <3>3 DEF Turns
  <2> QED BY <2>1, <2>2
<1>8. Homes'
  BY <1>3, <1>4, <1>5, <1>6, <1>7 DEF Homes, Owns
<1>9. ASSUME NEW e \in Range(events')
      PROVE  TellsTruth(e)'
  <2>1. CASE e \in Range(events)
    <3>1. TellsTruth(e)
      BY <2>1 DEF Told
    <3>2. e[2] \in Tab
      <4>1. events \in Seq(Event)
        BY DEF WorldTypes
      <4>2. e \in Event
        BY <2>1, <4>1, RangeSeq
      <4> QED BY <4>2 DEF Event
    <3>3. home'[e[2]] # None /\ (e[2] \in live' => e[2] \in live)
      BY <1>2, <3>1, <3>2 DEF WorldStep, TellsTruth
    <3> QED BY <3>1, <3>3 DEF TellsTruth
  <2> QED BY <2>1 DEF Turns
<1> QED BY <1>2, <1>8, <1>9 DEF Told

-----------------------------------------------------------------------------
(* What a step does to where the calls go: a call that is not moved keeps  *)
(* its pick, and the tab it goes to is still open or no page any more.     *)
Rests(d) ==
  /\ call'[d].op = call[d].op /\ call'[d].at = call[d].at /\ call'[d].pick = call[d].pick
  /\ call[d].at = "dispose" /\ call'[d].cut => ~Open'

LEMMA RestsPicked ==
  ASSUME Base, WorldTypes', WorldStep, NEW d \in Call, Rests(d), Picked(d)
  PROVE  Picked(d)' /\ (Shows(d)' <=> Shows(d))
<1>1. call \in [Call -> Record] /\ WorldTypes
  BY DEF Base, ConnTypes, ControlTypes
<1> DEFINE t == call[d].pick
<1>2. t \in Tab \cup {None} /\ Opened(t)
  BY <1>1 DEF Record, Picked
<1> HIDE DEF t
<1>3. /\ t = None \/ home'[t] # None
      /\ Controlled(t) => (t \in Pages' => t \in Reached')
  BY <1>1, <1>2, StillControlled
<1>4. call'[d].pick = t /\ call[d].pick = t
  BY DEF Rests, t
<1>5. Picked(d)'
  BY <1>3, <1>4 DEF Picked, Rests, Opened, Controlled
<1> QED BY <1>5 DEF Rests, Shows

LEMMA PicksStep ==
  ASSUME Base, WorldTypes', WorldStep, Apart, \A d \in Call : Picked(d), NEW c \in Call,
         \A d \in Call \ {c} : Rests(d) \/ (Picked(d)' /\ ~Shows(d)'), Picked(c)',
         Shows(c)' => (Shows(c) /\ call'[c].pick = call[c].pick) \/ (Unused # {} /\ call'[c].pick = NewTab)
  PROVE  Apart' /\ \A d \in Call : Picked(d)'
<1>1. call \in [Call -> Record] /\ WorldTypes
  BY DEF Base, ConnTypes, ControlTypes
<1>2. ASSUME NEW d \in Call, d # c
      PROVE  /\ Picked(d)'
             /\ Shows(d)' => Shows(d) /\ call'[d].pick = call[d].pick /\ call[d].pick \in Tab \cup {None} /\ Opened(call[d].pick)
  <2>1. CASE Rests(d)
    <3>1. Picked(d) /\ call[d].pick \in Tab \cup {None}
      BY <1>1 DEF Record
    <3>2. Picked(d)' /\ (Shows(d)' <=> Shows(d))
      BY <2>1, <3>1, RestsPicked
    <3> QED BY <2>1, <3>1, <3>2 DEF Rests, Picked
  <2>2. CASE Picked(d)' /\ ~Shows(d)'
    BY <2>2
  <2> QED BY <1>2, <2>1, <2>2
<1>3. ASSUME NEW d \in Call, NEW e \in Call, d # e, Shows(d)', Shows(e)'
      PROVE  call'[d].pick # call'[e].pick
  <2>1. ASSUME NEW f \in Call, f # c, Shows(c)', Shows(f)'
        PROVE  call'[f].pick # call'[c].pick
    <3>1. Shows(f) /\ call'[f].pick = call[f].pick /\ call[f].pick \in Tab \cup {None} /\ Opened(call[f].pick) /\ call[f].pick # None
      BY <1>2, <2>1 DEF Shows
    <3>2. CASE Shows(c) /\ call'[c].pick = call[c].pick
      BY <2>1, <3>1, <3>2 DEF Apart
    <3>3. CASE Unused # {} /\ call'[c].pick = NewTab
      <4>1. home[NewTab] = None
        BY <1>1, <3>3, Registers DEF Unused
      <4> QED BY <3>1, <3>3, <4>1 DEF Opened
    <3> QED BY <2>1, <3>2, <3>3
  <2>2. CASE d = c
    BY <1>3, <2>1, <2>2
  <2>3. CASE e = c
    BY <1>3, <2>1, <2>3
  <2>4. CASE d # c /\ e # c
    BY <1>2, <1>3, <2>4 DEF Apart
  <2> QED BY <2>2, <2>3, <2>4
<1> QED BY <1>2, <1>3 DEF Apart

(* A step that goes to no tab.                                             *)
LEMMA PlainPick ==
  ASSUME Base, WorldTypes', WorldStep, NEW c \in Call, call'[c].at \notin GoesTo, call'[c].at = "dispose" /\ call'[c].cut => ~Open',
         \E t \in Tab \cup {None} : call'[c].pick = t /\ Opened(t)
  PROVE  Picked(c)'
<1>1. PICK t \in Tab \cup {None} : call'[c].pick = t /\ Opened(t)
  OBVIOUS
<1>2. t = None \/ home'[t] # None
  BY <1>1, StillControlled DEF Base, ConnTypes
<1> QED BY <1>1, <1>2 DEF Picked, Opened

(* A step that goes to a tab that it may control.                          *)
LEMMA GoalPick ==
  ASSUME Base, WorldTypes', WorldStep, NEW c \in Call, call'[c].at # "dispose",
         \E t \in Tab \cup {None} : call'[c].pick = t /\ Opened(t) /\ Controlled(t)
  PROVE  Picked(c)'
<1>1. PICK t \in Tab \cup {None} : call'[c].pick = t /\ Opened(t) /\ Controlled(t)
  OBVIOUS
<1>2. (t = None \/ home'[t] # None) /\ (t \in Pages' => t \in Reached')
  BY <1>1, StillControlled DEF Base, ConnTypes
<1> QED BY <1>1, <1>2 DEF Picked, Opened, Controlled

(* Events.                                                                 *)
LEMMA EventSteps ==
  ASSUME WorldTypes
  PROVE  /\ <<>> \in Seq(Event) /\ Range(<<>>) = {}
         /\ events # <<>> => Tail(events) \in Seq(Event) /\ Range(Tail(events)) \in SUBSET Range(events) /\ Head(events) \in Range(events)
         /\ \A e \in Event : Append(events, e) \in Seq(Event) /\ Range(Append(events, e)) = Range(events) \cup {e}
         /\ Range(events) \in SUBSET Event
<1>1. events \in Seq(Event)
  BY DEF WorldTypes
<1>2. DOMAIN events = 1..Len(events) /\ Len(events) \in Nat /\ Range(events) \in SUBSET Event /\ \A i \in 1..Len(events) : events[i] \in Range(events)
  BY <1>1, RangeSeq
<1>3. ASSUME events # <<>>
      PROVE  Tail(events) \in Seq(Event) /\ Range(Tail(events)) \in SUBSET Range(events) /\ Head(events) \in Range(events)
  <2>1. /\ Tail(events) \in Seq(Event) /\ DOMAIN Tail(events) = 1..(Len(events) - 1) /\ Len(events) >= 1 /\ Head(events) = events[1]
        /\ \A i \in 1..(Len(events) - 1) : Tail(events)[i] = events[i + 1]
    BY <1>1, <1>2, <1>3
  <2>2. \A i \in 1..(Len(events) - 1) : i + 1 \in 1..Len(events)
    BY <1>2
  <2>3. Range(Tail(events)) \in SUBSET Range(events)
    BY <1>2, <2>1, <2>2 DEF Range
  <2>4. Head(events) \in Range(events)
    BY <1>2, <2>1
  <2> QED BY <2>1, <2>3, <2>4
<1>4. ASSUME NEW e \in Event
      PROVE  Append(events, e) \in Seq(Event) /\ Range(Append(events, e)) = Range(events) \cup {e}
  <2>1. /\ Append(events, e) \in Seq(Event) /\ DOMAIN Append(events, e) = 1..(Len(events) + 1)
        /\ \A i \in 1..Len(events) : Append(events, e)[i] = events[i]
        /\ Append(events, e)[Len(events) + 1] = e
    BY <1>1, <1>2, AppendProperties
  <2> QED BY <1>2, <2>1 DEF Range
<1>5. <<>> \in Seq(Event) /\ Range(<<>>) = {}
  BY DEF Range
<1> QED BY <1>2, <1>3, <1>4, <1>5

-----------------------------------------------------------------------------
(* Steps that leave the registry and the browser alone.                    *)
Fine == WorldTypes /\ Tabbed /\ SteelSessionIsKept

LEMMA StillWorld ==
  ASSUME WorldTypes, Homes, Told, UNCHANGED <<selected, owned, window, authorized, dropped, home, live>>,
         events' = events \/ events' = <<>>, link' \in [status : {"closed", "connecting", "open"}, gen : Nat],
         steel' \in [live : BOOLEAN, known : BOOLEAN], faults' \in 0..MaxFaults, cur' \in [tab : Tab \cup {None}, gen : Nat],
         \E t \in Tab \cup {None} : cur'.tab = t /\ Opened(t) /\ Controlled(t)
  PROVE  WorldTypes' /\ WorldStep /\ Homes' /\ Told'
<1>1. WorldTypes'
  <2>1. events' \in Seq(Event)
    BY EventSteps DEF WorldTypes
  <2>2. Injective(owned)'
    BY DEF WorldTypes, Injective
  <2> QED BY <2>1, <2>2 DEF WorldTypes
<1>2. Turns({})
  <2>1. \A e \in Range(events') : e \in Range(events)
    BY DEF Range
  <2>2. \A t \in authorized \cup dropped : t \in Reached'
    BY DEF Reached
  <2> QED BY <2>1, <2>2 DEF Turns
<1> QED BY <1>1, <1>2, TurnsWorld

LEMMA CurrentIsFine ==
  ASSUME WorldTypes, Homes
  PROVE  /\ \E t \in Tab \cup {None} : cur.tab = t /\ Opened(t) /\ Controlled(t)
         /\ \E t \in Tab \cup {None} : NoTab.tab = t /\ Opened(t) /\ Controlled(t)
         /\ NoTab \in [tab : Tab \cup {None}, gen : Nat]
<1>1. None \notin Pages
  BY ConnectionAssumption DEF Pages, WorldTypes
<1> QED BY <1>1 DEF WorldTypes, Homes, NoTab, Opened, Controlled

LEMMA FineAgain ==
  ASSUME ConnectionInv, WorldTypes', WorldStep, Homes', Told', SteelSessionIsKept', NEW c \in Call,
         \A d \in Call \ {c} : Rests(d) \/ (Picked(d)' /\ ~Shows(d)'), Picked(c)',
         Shows(c)' => (Shows(c) /\ call'[c].pick = call[c].pick) \/ (Unused # {} /\ call'[c].pick = NewTab)
  PROVE  Fine'
<1>1. Apart' /\ \A d \in Call : Picked(d)'
  BY PicksStep DEF ConnectionInv, Tabbed
<1> QED BY <1>1 DEF Fine, Tabbed

LEMMA ManyFine ==
  ASSUME ConnectionInv, WorldTypes', WorldStep, Homes', Told', SteelSessionIsKept',
         \A d \in Call : Rests(d) \/ (Picked(d)' /\ ~Shows(d)')
  PROVE  Fine'
<1>1. CASE Call = {}
  BY <1>1 DEF Fine, Tabbed, Apart
<1>2. ASSUME NEW c \in Call
      PROVE  Fine'
  <2>1. CASE Rests(c)
    <3>1. Picked(c)' /\ (Shows(c)' => Shows(c) /\ call'[c].pick = call[c].pick)
      BY <2>1, RestsPicked DEF ConnectionInv, Tabbed, Rests
    <3> QED BY <3>1, FineAgain
  <2>2. CASE Picked(c)' /\ ~Shows(c)'
    BY <2>2, FineAgain
  <2> QED BY <2>1, <2>2
<1> QED BY <1>1, <1>2

LEMMA OthersRest ==
  ASSUME ConnectionInv, NEW c \in Call, Held(call', c), Open' => Open
  PROVE  \A d \in Call \ {c} : Rests(d)
BY DEF Rests, Held, ConnectionInv, Tabbed, Picked

LEMMA QuietStep ==
  ASSUME ConnectionInv, NEW c \in Call, UNCHANGED <<selected, link, events, cur, owned, window, authorized, dropped, home, live, steel>>,
         faults' \in 0..MaxFaults, faults' >= faults, Held(call', c),
         \E t \in Tab \cup {None} : call'[c].pick = t /\ Opened(t) /\ (call'[c].at \in GoesTo => Controlled(t)),
         call'[c].at = "dispose" /\ call'[c].cut => ~Open,
         Shows(c)' => Shows(c) /\ call'[c].pick = call[c].pick
  PROVE  Fine'
<1>1. Base /\ WorldTypes /\ Homes /\ Told
  BY DEF ConnectionInv, Base, ConnTypes, Tabbed
<1>2. WorldTypes' /\ WorldStep /\ Homes' /\ Told'
  <2>1. /\ link \in [status : {"closed", "connecting", "open"}, gen : Nat] /\ steel \in [live : BOOLEAN, known : BOOLEAN]
        /\ cur \in [tab : Tab \cup {None}, gen : Nat]
    BY <1>1 DEF WorldTypes
  <2> QED BY <1>1, <2>1, CurrentIsFine, StillWorld
<1>3. Open' <=> Open
  BY DEF Open
<1>4. Picked(c)'
  <2>1. CASE call'[c].at \in GoesTo
    <3>1. call'[c].at # "dispose"
      BY <2>1 DEF GoesTo
    <3> QED BY <1>1, <1>2, <2>1, <3>1, GoalPick
  <2>2. CASE call'[c].at \notin GoesTo
    BY <1>1, <1>2, <1>3, <2>2, PlainPick
  <2> QED BY <2>1, <2>2
<1>5. SteelSessionIsKept'
  BY <1>1 DEF SteelSessionIsKept, ConnectionInv, WorldTypes
<1>6. \A d \in Call \ {c} : Rests(d)
  BY <1>3, OthersRest
<1> QED BY <1>2, <1>4, <1>5, <1>6, FineAgain

LEMMA PickIsFine ==
  ASSUME ConnectionInv, NEW c \in Call
  PROVE  /\ \E t \in Tab \cup {None} : call[c].pick = t /\ Opened(t) /\ (call[c].at \in GoesTo => Controlled(t))
         /\ call[c].pick \in Tab \cup {None} /\ Base /\ ControlTypes /\ WorldTypes /\ Homes /\ Told /\ Picked(c)
<1>1. Base /\ ControlTypes /\ WorldTypes /\ Homes /\ Told /\ Picked(c)
  BY DEF ConnectionInv, Base, ConnTypes, Tabbed
<1>2. call[c].pick \in Tab \cup {None}
  BY <1>1 DEF ControlTypes, Record
<1> QED BY <1>1, <1>2 DEF Picked

LEMMA NoneIsFine == Opened(None)
BY DEF Opened

LEMMA SameWorld ==
  ASSUME ConnectionInv, UNCHANGED <<client, link, events, cur, registry, browser>>, faults' = faults \/ (faults < MaxFaults /\ faults' = faults + 1)
  PROVE  /\ UNCHANGED <<selected, link, events, cur, owned, window, authorized, dropped, home, live, steel>>
         /\ faults' \in 0..MaxFaults /\ faults' >= faults
<1>1. faults \in 0..MaxFaults /\ MaxFaults \in Nat
  BY ConnectionAssumption DEF ConnectionInv, Base, ConnTypes, WorldTypes
<1> QED BY <1>1 DEF client, registry, browser

LEMMA EndFine ==
  ASSUME ConnectionInv, NEW c \in Call, End(c), UNCHANGED <<client, link, events, cur, registry, browser>>,
         faults' = faults \/ (faults < MaxFaults /\ faults' = faults + 1)
  PROVE  Fine'
<1>1. /\ Held(call', c) /\ call'[c].op = call[c].op /\ call'[c].at = "done"
      /\ call'[c].pick = IF call[c].op = "new" /\ call[c].at = "switched" THEN call[c].pick ELSE None
  BY EndedFields, PickIsFine DEF End
<1>2. \E t \in Tab \cup {None} : call'[c].pick = t /\ Opened(t) /\ (call'[c].at \in GoesTo => Controlled(t))
  BY <1>1, PickIsFine, NoneIsFine DEF GoesTo
<1>3. Shows(c)' => Shows(c) /\ call'[c].pick = call[c].pick
  BY <1>1 DEF Shows
<1> QED BY <1>1, <1>2, <1>3, SameWorld, QuietStep

LEMMA GoFine ==
  ASSUME ConnectionInv, NEW c \in Call, NEW a \in At, Go(c, a), a \notin {"done", "fresh"},
         a \in GoesTo => call[c].at \in GoesTo, a \in {"switch", "switched"} => call[c].at \in {"fresh", "switch"},
         UNCHANGED <<client, link, events, cur, registry, browser, faults>>
  PROVE  Fine'
<1>1. /\ Held(call', c) /\ Stays(call'[c], call[c]) /\ call'[c].at = a /\ call'[c].pick = call[c].pick
      /\ call'[c].cut <=> (a \in Requesting /\ ~Open)
  BY GoingFields, PickIsFine DEF Go
<1>2. \E t \in Tab \cup {None} : call'[c].pick = t /\ Opened(t) /\ (call'[c].at \in GoesTo => Controlled(t))
  BY <1>1, PickIsFine
<1>3. Shows(c)' => Shows(c) /\ call'[c].pick = call[c].pick
  BY <1>1 DEF Shows, Stays
<1> QED BY <1>1, <1>2, <1>3, SameWorld, QuietStep

LEMMA GoThenFine ==
  ASSUME ConnectionInv, NEW c \in Call, NEW a \in {"targets", "tabs"}, NEW h \in {"lane", "handler", "start", "reattach"}, GoThen(c, a, h),
         UNCHANGED <<client, link, events, cur, registry, browser, faults>>
  PROVE  Fine'
<1>0. a \in At
  BY DEF At, Requesting
<1>1. Held(call', c) /\ Stays(call'[c], call[c]) /\ call'[c].at = a /\ call'[c].pick = call[c].pick
  BY <1>0, GoThenFields, PickIsFine
<1>2. \E t \in Tab \cup {None} : call'[c].pick = t /\ Opened(t) /\ (call'[c].at \in GoesTo => Controlled(t))
  BY <1>1, PickIsFine DEF GoesTo
<1>3. ~Shows(c)'
  BY <1>1 DEF Shows
<1> QED BY <1>1, <1>2, <1>3, SameWorld, QuietStep

LEMMA ActingFine ==
  ASSUME ConnectionInv, NEW c \in Call, call' = [call EXCEPT ![c] = Acting(cur, @)],
         UNCHANGED <<client, link, events, cur, registry, browser, faults>>
  PROVE  Fine'
<1>1. cur \in [tab : Tab \cup {None}, gen : Nat] /\ ControlTypes
  BY PickIsFine DEF WorldTypes
<1>2. Held(call', c) /\ Stays(call'[c], call[c]) /\ call'[c].at = "act" /\ call'[c].pick = cur.tab
  BY <1>1, ActingFields
<1>3. \E t \in Tab \cup {None} : call'[c].pick = t /\ Opened(t) /\ (call'[c].at \in GoesTo => Controlled(t))
  BY <1>2, PickIsFine, CurrentIsFine
<1>4. ~Shows(c)'
  BY <1>2 DEF Shows
<1> QED BY <1>2, <1>3, <1>4, SameWorld, QuietStep

LEMMA ReadingFine ==
  ASSUME ConnectionInv, NEW c \in Call, call' = [call EXCEPT ![c] = Reading(cur, @)],
         UNCHANGED <<client, link, events, cur, registry, browser, faults>>
  PROVE  Fine'
<1>1. cur \in [tab : Tab \cup {None}, gen : Nat] /\ ControlTypes
  BY PickIsFine DEF WorldTypes
<1>2. Held(call', c) /\ Stays(call'[c], call[c]) /\ call'[c].at \in {"act", "listing"} /\ call'[c].pick \in {cur.tab, call[c].pick}
  BY <1>1, ReadingFields
<1>3. \E t \in Tab \cup {None} : call'[c].pick = t /\ Opened(t) /\ (call'[c].at \in GoesTo => Controlled(t))
  BY <1>2, PickIsFine, CurrentIsFine DEF GoesTo
<1>4. ~Shows(c)'
  BY <1>2 DEF Shows
<1> QED BY <1>2, <1>3, <1>4, SameWorld, QuietStep

LEMMA SwitchingFine ==
  ASSUME ConnectionInv, NEW c \in Call, call[c].op # "new", CanControl(call[c].arg),
         call' = [Going(c, "switch") EXCEPT ![c].pick = call[c].arg, ![c].then = "handler"],
         UNCHANGED <<client, link, events, cur, registry, browser, faults>>
  PROVE  Fine'
<1>1. call[c].arg \in Tab /\ Opened(call[c].arg) /\ Controlled(call[c].arg)
  BY ControlIsTab, PickIsFine DEF Homes, CanControl, Owns, Opened, Controlled, Reached
<1>2. Held(call', c) /\ Stays(call'[c], call[c]) /\ call'[c].at = "switch" /\ call'[c].pick = call[c].arg
  BY <1>1, PickIsFine, SwitchFields
<1>3. \E t \in Tab \cup {None} : call'[c].pick = t /\ Opened(t) /\ (call'[c].at \in GoesTo => Controlled(t))
  BY <1>1, <1>2
<1>4. ~Shows(c)'
  BY <1>2 DEF Shows, Stays
<1> QED BY <1>2, <1>3, <1>4, SameWorld, QuietStep

LEMMA BeginFine ==
  ASSUME ConnectionInv, NEW c \in Call, NEW op, NEW arg, Begin(c, op, arg)
  PROVE  Fine'
<1>1. call' = [call EXCEPT ![c].op = op, ![c].arg = arg, ![c].at = "gate"] /\ UNCHANGED <<client, link, events, cur, registry, browser, faults>>
  BY DEF Begin
<1>2. call' \in [Call -> Record]
  BY BeginControl, PickIsFine DEF ControlTypes
<1>3. call \in [Call -> Record]
  BY PickIsFine DEF ControlTypes
<1>4. Held(call', c) /\ call'[c].at = "gate" /\ call'[c].pick = call[c].pick
  BY <1>1, <1>2, <1>3 DEF Held, Record
<1>5. \E t \in Tab \cup {None} : call'[c].pick = t /\ Opened(t) /\ (call'[c].at \in GoesTo => Controlled(t))
  BY <1>4, PickIsFine DEF GoesTo
<1>6. ~Shows(c)'
  BY <1>4 DEF Shows
<1> QED BY <1>1, <1>4, <1>5, <1>6, SameWorld, QuietStep

LEMMA LeaseFine ==
  ASSUME ConnectionInv, NEW c \in Call, Lease(c)
  PROVE  Fine'
<1>1. call' = [call EXCEPT ![c].at = "alive", ![c].client = resource] /\ UNCHANGED <<client, link, events, cur, registry, browser, faults>>
  BY DEF Lease
<1>2. Held(call', c) /\ call'[c].at = "alive" /\ call'[c].pick = call[c].pick
  <2>1. "alive" \in At
    BY DEF At
  <2> QED BY <1>1, <2>1, PickIsFine, LeasedFields
<1>3. \E t \in Tab \cup {None} : call'[c].pick = t /\ Opened(t) /\ (call'[c].at \in GoesTo => Controlled(t))
  BY <1>2, PickIsFine DEF GoesTo
<1>4. ~Shows(c)'
  BY <1>2 DEF Shows
<1> QED BY <1>1, <1>2, <1>3, <1>4, SameWorld, QuietStep

LEMMA GivenFine ==
  ASSUME ConnectionInv, NEW c \in Call, Given(c), ~(call[c].at = "refused" /\ ~Opening(c))
  PROVE  Fine'
<1>1. CASE End(c) /\ UNCHANGED <<client, link, events, starting, inFlight, cur, registry, browser, faults>>
  BY <1>1, EndFine
<1>2. CASE /\ call[c].at \in {"fresh", "given"} /\ UNCHANGED <<gate, lane, client, link, events, starting, inFlight, cur, registry, browser, faults>>
           /\ Go(c, IF ~Opening(c) THEN "attach" ELSE IF call[c].at = "fresh" THEN "switch" ELSE "open")
  <2>1. PICK a \in {"attach", "switch", "open"} : Go(c, a) /\ (a = "switch" => call[c].at = "fresh")
    BY <1>2
  <2>2. a \in At
    BY DEF At, Requesting
  <2> QED BY <1>2, <2>1, <2>2, GoFine DEF GoesTo
<1> QED BY <1>1, <1>2 DEF Given

LEMMA CheckFine ==
  ASSUME ConnectionInv, NEW c \in Call, Check(c)
  PROVE  Fine'
<1>1. UNCHANGED <<client, link, events, cur, registry, browser, faults>>
  BY DEF Check
<1>2. CASE End(c)
  BY <1>1, <1>2, EndFine
<1>3. CASE Go(c, "lane")
  BY <1>1, <1>3, AtTypes, GoFine DEF GoesTo
<1>4. CASE GoThen(c, "tabs", "lane")
  BY <1>1, <1>4, GoThenFine
<1>5. CASE call' = [call EXCEPT ![c] = Reading(cur, @)]
  BY <1>1, <1>5, ReadingFine
<1> QED BY <1>2, <1>3, <1>4, <1>5 DEF Check

LEMMA SwitchFine ==
  ASSUME ConnectionInv, NEW c \in Call, Switch(c)
  PROVE  Fine'
<1>1. UNCHANGED <<client, link, events, cur, registry, browser, faults>> /\ call[c].at = "switch"
  BY DEF Switch
<1>2. CASE End(c)
  BY <1>1, <1>2, EndFine
<1>3. CASE call' = [Going(c, "switched") EXCEPT ![c].gen = link.gen]
  <2>1. Held(call', c) /\ Stays(call'[c], call[c]) /\ call'[c].at = "switched" /\ call'[c].pick = call[c].pick
    BY <1>3, PickIsFine, SwitchedFields
  <2>2. \E t \in Tab \cup {None} : call'[c].pick = t /\ Opened(t) /\ (call'[c].at \in GoesTo => Controlled(t))
    BY <1>1, <2>1, PickIsFine DEF GoesTo
  <2>3. Shows(c)' => Shows(c) /\ call'[c].pick = call[c].pick
    BY <1>1, <2>1 DEF Shows, Stays
  <2> QED BY <1>1, <2>1, <2>2, <2>3, SameWorld, QuietStep
<1> QED BY <1>2, <1>3 DEF Switch

LEMMA HandleFine ==
  ASSUME ConnectionInv, NEW c \in Call, Handle(c)
  PROVE  Fine'
<1>1. UNCHANGED <<client, link, events, cur, registry, browser, faults>>
  BY DEF Handle
<1>2. CASE End(c)
  BY <1>1, <1>2, EndFine
<1>3. CASE call' = [call EXCEPT ![c] = Acting(cur, @)]
  BY <1>1, <1>3, ActingFine
<1>4. CASE GoThen(c, "tabs", "handler")
  BY <1>1, <1>4, GoThenFine
<1>5. CASE /\ call[c].op \in {"switch", "authorize"} /\ CanControl(call[c].arg)
           /\ call' = [Going(c, "switch") EXCEPT ![c].pick = call[c].arg, ![c].then = "handler"]
  BY <1>1, <1>5, SwitchingFine
<1>6. CASE Go(c, "exists") \/ Go(c, "closing") \/ Go(c, "listing")
  <2>1. "exists" \in At /\ "closing" \in At /\ "listing" \in At
    BY DEF At, Requesting
  <2> QED BY <1>1, <1>6, <2>1, GoFine DEF GoesTo
<1> QED BY <1>2, <1>3, <1>4, <1>5, <1>6 DEF Handle

LEMMA QuietFine ==
  ASSUME ConnectionInv, NEW c \in Call,
         \/ Abort(c) \/ Act(c)
         \/ (Alive(c) \/ Probe(c)) /\ ~Revive(c)
         \/ Enabled(c) /\ call[c].then # "start"
  PROVE  Fine'
<1>1. CASE Abort(c) \/ Act(c)
  BY <1>1, EndFine DEF Abort, Act, Fault
<1>2. CASE (Alive(c) /\ ~Revive(c)) \/ (Probe(c) /\ ~Revive(c)) \/ (Enabled(c) /\ call[c].then # "start")
  <2>1. UNCHANGED <<client, link, events, cur, registry, browser, faults>>
    BY <1>2 DEF Alive, Probe, Enabled
  <2>2. Go(c, "check") \/ Go(c, "probe") \/ GoThen(c, "targets", "reattach")
    BY <1>2 DEF Alive, Probe, Enabled
  <2>3. "probe" \in At /\ "check" \in At
    BY DEF At, Requesting
  <2>4. CASE GoThen(c, "targets", "reattach")
    BY <2>1, <2>4, GoThenFine
  <2> QED BY <2>1, <2>2, <2>3, <2>4, GoFine DEF GoesTo
<1> QED BY <1>1, <1>2

-----------------------------------------------------------------------------
(* Steps that open or close the connection.                                *)
LEMMA CloseWorld ==
  ASSUME ConnectionInv, NEW s \in {"closed", "connecting"}, NEW n, CloseTo(s, n), UNCHANGED <<client, registry, browser>>,
         faults' = faults \/ (faults < MaxFaults /\ faults' = faults + 1)
  PROVE  WorldTypes' /\ WorldStep /\ Homes' /\ Told' /\ SteelSessionIsKept' /\ ~Open'
<1>1. Base /\ WorldTypes /\ Homes /\ Told
  BY DEF ConnectionInv, Base, ConnTypes, Tabbed
<1>2. faults' \in 0..MaxFaults /\ faults' >= faults
  BY <1>1, ConnectionAssumption DEF WorldTypes
<1>3. link' \in [status : {"closed", "connecting", "open"}, gen : Nat] /\ link'.status = s
  BY <1>1 DEF CloseTo, WorldTypes
<1>4. ~Open'
  BY <1>3 DEF Open
<1>5. UNCHANGED <<selected, owned, window, authorized, dropped, home, live, steel>> /\ steel \in [live : BOOLEAN, known : BOOLEAN]
  BY <1>1 DEF client, registry, browser, WorldTypes
<1>6. cur' = cur \/ cur' = NoTab
  BY DEF CloseTo
<1>7. cur' \in [tab : Tab \cup {None}, gen : Nat] /\ \E t \in Tab \cup {None} : cur'.tab = t /\ Opened(t) /\ Controlled(t)
  BY <1>1, <1>6, CurrentIsFine DEF WorldTypes
<1>8. WorldTypes' /\ WorldStep /\ Homes' /\ Told'
  BY <1>1, <1>2, <1>3, <1>5, <1>7, StillWorld DEF CloseTo
<1>9. SteelSessionIsKept'
  BY <1>1, <1>2, <1>5 DEF SteelSessionIsKept, ConnectionInv, WorldTypes
<1> QED BY <1>4, <1>8, <1>9

LEMMA ReviveFine ==
  ASSUME ConnectionInv, NEW c \in Call, Revive(c)
  PROVE  Fine'
<1> DEFINE s == IF starting = None THEN "connecting" ELSE "closed"
           n == Joined(call, c)
<1>1. CloseTo(s, n) /\ s \in {"closed", "connecting"} /\ UNCHANGED <<client, registry, browser, faults>>
  BY DEF Revive
<1>2. Held(n, c) /\ Stays(n[c], call[c]) /\ n[c].pick = call[c].pick /\ n[c].at \in {"endpoint", "starting"}
  BY JoinedFields, PickIsFine
<1> HIDE DEF s, n
<1>3. WorldTypes' /\ WorldStep /\ Homes' /\ Told' /\ SteelSessionIsKept' /\ ~Open'
  BY <1>1, CloseWorld
<1>4. call' = Cut(n)
  BY <1>1 DEF CloseTo
<1>5. \A d \in Call : /\ call'[d].op = n[d].op /\ call'[d].at = n[d].at /\ call'[d].pick = n[d].pick
  BY <1>2, <1>4, CutFields DEF Held, Stays
<1>6. \A d \in Call \ {c} : Rests(d)
  BY <1>2, <1>3, <1>5 DEF Held, Rests
<1>7. \E t \in Tab \cup {None} : call'[c].pick = t /\ Opened(t)
  BY <1>2, <1>5, PickIsFine
<1>8. Picked(c)' /\ ~Shows(c)'
  BY <1>2, <1>3, <1>5, <1>7, PickIsFine, PlainPick DEF GoesTo, Shows
<1> QED BY <1>3, <1>6, <1>8, FineAgain

LEMMA StartFailsFine ==
  ASSUME ConnectionInv, NEW c \in Call, Starts(c), call' = Started(call, FALSE) \/ call' = Cut(Started(call, FALSE)),
         WorldTypes', WorldStep, Homes', Told', SteelSessionIsKept', ~Open'
  PROVE  Fine'
<1> DEFINE n == Started(call, FALSE)
           In(d) == d = starting \/ call[d].at = "starting"
<1>1. starting = c /\ call[c].at \in StartAt /\ ControlTypes /\ Base
  BY PickIsFine, InPlace DEF Linked, Starts
<1>2. /\ n \in [Call -> Record]
      /\ \A d \in Call : /\ ~In(d) => n[d] = call[d]
                         /\ In(d) => n[d].at = "done" /\ n[d].pick = None
  <2>1. \A d \in Call : In(d) => call[d].at # "switched"
    BY <1>1 DEF StartAt
  <2> QED BY <1>1, <2>1, StartedFields
<1>3. call' = n \/ call' = Cut(n)
  OBVIOUS
<1> HIDE DEF n, In
<1>4. \A d \in Call : call'[d].op = n[d].op /\ call'[d].at = n[d].at /\ call'[d].pick = n[d].pick
  BY <1>2, <1>3, CutFields DEF Stays
<1>5. ASSUME NEW d \in Call
      PROVE  Rests(d) \/ (Picked(d)' /\ ~Shows(d)')
  <2>1. CASE In(d)
    <3>1. call'[d].at = "done" /\ call'[d].pick = None
      BY <1>2, <1>4, <2>1
    <3>2. \E t \in Tab \cup {None} : call'[d].pick = t /\ Opened(t)
      BY <3>1, NoneIsFine
    <3>3. Picked(d)'
      BY <1>1, <3>1, <3>2, PlainPick DEF GoesTo
    <3> QED BY <3>1, <3>3 DEF Shows
  <2>2. CASE ~In(d)
    BY <1>2, <1>4, <2>2 DEF Rests
  <2> QED BY <2>1, <2>2
<1> QED BY <1>5, ManyFine

LEMMA AttachFailsFine ==
  ASSUME ConnectionInv, NEW c \in Call, call[c].at \in {"targets", "attach", "refused"}, AttachFails(c)
  PROVE  Fine'
<1>1. CASE call[c].then = "start"
  <2>1. Starts(c)
    BY <1>1 DEF Starts, StartAt
  <2>2. CloseTo("closed", Started(call, FALSE)) /\ UNCHANGED <<client, registry, browser, faults>>
    BY <1>1 DEF AttachFails, Close
  <2>3. WorldTypes' /\ WorldStep /\ Homes' /\ Told' /\ SteelSessionIsKept' /\ ~Open'
    BY <2>2, CloseWorld
  <2>4. call' = Cut(Started(call, FALSE))
    BY <2>2 DEF CloseTo
  <2> QED BY <2>1, <2>3, <2>4, StartFailsFine
<1>2. CASE call[c].then # "start"
  BY <1>2, ReviveFine DEF AttachFails
<1> QED BY <1>1, <1>2

LEMMA DialFailsFine ==
  ASSUME ConnectionInv, NEW c \in Call, DialFails(c)
  PROVE  Fine'
<1>1. CloseTo("closed", Started(call, FALSE)) /\ UNCHANGED <<client, registry, browser>>
      /\ (faults' = faults \/ (faults < MaxFaults /\ faults' = faults + 1)) /\ call[c].at = "dial"
  BY DEF DialFails, Close
<1>2. Starts(c)
  BY <1>1, PickIsFine, InPlace DEF Placed, Starts, StartAt
<1>3. WorldTypes' /\ WorldStep /\ Homes' /\ Told' /\ SteelSessionIsKept' /\ ~Open'
  BY <1>1, CloseWorld
<1>4. call' = Cut(Started(call, FALSE))
  BY <1>1 DEF CloseTo
<1> QED BY <1>2, <1>3, <1>4, StartFailsFine

LEMMA EndpointFine ==
  ASSUME ConnectionInv, NEW c \in Call, Endpoint(c)
  PROVE  Fine'
<1>1. call[c].at = "endpoint" /\ UNCHANGED <<client, events, cur, registry, home, live>> /\ Starts(c)
  BY PickIsFine, InPlace DEF Endpoint, Placed, Starts, StartAt
<1>2. /\ UNCHANGED <<selected, owned, window, authorized, dropped, home, live, events, cur>> /\ Base /\ WorldTypes /\ Homes /\ Told
      /\ cur \in [tab : Tab \cup {None}, gen : Nat] /\ faults \in 0..MaxFaults /\ MaxFaults \in Nat
      /\ link \in [status : {"closed", "connecting", "open"}, gen : Nat] /\ steel \in [live : BOOLEAN, known : BOOLEAN]
  BY <1>1, PickIsFine, ConnectionAssumption DEF client, registry, WorldTypes
<1>3. /\ link' = link \/ (link' = [link EXCEPT !.status = "closed"] /\ call' = Started(call, FALSE))
      /\ \/ faults' = faults /\ (steel' = steel \/ steel' = [live |-> TRUE, known |-> TRUE])
         \/ faults < MaxFaults /\ faults' = faults + 1 /\ (steel' = steel \/ steel' = [steel EXCEPT !.live = TRUE])
      /\ link' = link => call' = [call EXCEPT ![c].at = "dial", ![c].cut = FALSE] \/ call' = Started(call, FALSE)
  BY DEF Endpoint, Fault
<1>4. WorldTypes' /\ WorldStep /\ Homes' /\ Told'
  <2>1. link' \in [status : {"closed", "connecting", "open"}, gen : Nat]
    <3>1. [link EXCEPT !.status = "closed"] \in [status : {"closed", "connecting", "open"}, gen : Nat]
      BY <1>2
    <3> QED BY <1>2, <1>3, <3>1
  <2>2. steel' \in [live : BOOLEAN, known : BOOLEAN]
    <3>1. [live |-> TRUE, known |-> TRUE] \in [live : BOOLEAN, known : BOOLEAN]
      OBVIOUS
    <3>2. [steel EXCEPT !.live = TRUE] \in [live : BOOLEAN, known : BOOLEAN]
      BY <1>2
    <3> QED BY <1>2, <1>3, <3>1, <3>2, Zenon
  <2>3. faults' \in 0..MaxFaults
    BY <1>2, <1>3
  <2> QED BY <1>2, <2>1, <2>2, <2>3, CurrentIsFine, StillWorld
<1>5. SteelSessionIsKept'
  <2>1. CASE faults' = faults /\ (steel' = steel \/ steel' = [live |-> TRUE, known |-> TRUE])
    BY <2>1 DEF SteelSessionIsKept, ConnectionInv
  <2>2. CASE faults' = faults + 1
    BY <1>2, <2>2 DEF SteelSessionIsKept
  <2> QED BY <1>3, <2>1, <2>2
<1>6. CASE link' = [link EXCEPT !.status = "closed"] /\ call' = Started(call, FALSE)
  <2>1. ~Open'
    BY <1>2, <1>6 DEF Open
  <2> QED BY <1>1, <1>4, <1>5, <1>6, <2>1, StartFailsFine
<1>7. CASE link' = link /\ call' = [call EXCEPT ![c].at = "dial", ![c].cut = FALSE]
  <2>1. "dial" \in At /\ call \in [Call -> Record]
    BY PickIsFine DEF At, ControlTypes
  <2>2. Held(call', c) /\ Stays(call'[c], call[c]) /\ call'[c].at = "dial" /\ call'[c].pick = call[c].pick
    BY ZenonT(60), <1>7, <2>1 DEF Held, Stays, Record
  <2>3. \A d \in Call \ {c} : Rests(d)
    BY <1>7, <2>2, OthersRest DEF Open
  <2>4. \E t \in Tab \cup {None} : call'[c].pick = t /\ Opened(t)
    BY <2>2, PickIsFine
  <2>5. Picked(c)' /\ ~Shows(c)'
    BY <1>2, <1>4, <2>2, <2>4, PlainPick DEF GoesTo, Shows
  <2> QED BY <1>4, <1>5, <2>3, <2>5, FineAgain
<1> QED BY <1>6, <1>7 DEF Endpoint

(* While a call dials no exclusive call disposes of the connection.        *)
LEMMA OpensFine ==
  ASSUME ConnectionInv, NEW c \in Call, Opens(c)
  PROVE  Fine'
<1>1. /\ call[c].at = "dial" /\ UNCHANGED <<client, events, cur, registry, browser, faults>>
      /\ link' = [status |-> "open", gen |-> link.gen + 1] /\ call' = [call EXCEPT ![c].at = "targets"]
  BY DEF Opens
<1>2. /\ UNCHANGED <<selected, owned, window, authorized, dropped, home, live, events, cur, faults, steel>> /\ Base /\ WorldTypes /\ Homes /\ Told
      /\ cur \in [tab : Tab \cup {None}, gen : Nat] /\ faults \in 0..MaxFaults
      /\ link \in [status : {"closed", "connecting", "open"}, gen : Nat] /\ steel \in [live : BOOLEAN, known : BOOLEAN]
  BY <1>1, PickIsFine DEF client, registry, browser, WorldTypes
<1>3. WorldTypes' /\ WorldStep /\ Homes' /\ Told' /\ SteelSessionIsKept'
  <2>1. link' \in [status : {"closed", "connecting", "open"}, gen : Nat]
    BY <1>1, <1>2
  <2>2. WorldTypes' /\ WorldStep /\ Homes' /\ Told'
    BY <1>2, <2>1, CurrentIsFine, StillWorld
  <2> QED BY <1>2, <2>2 DEF SteelSessionIsKept, ConnectionInv
<1>4. "targets" \in At /\ call \in [Call -> Record]
  BY PickIsFine DEF At, Requesting, ControlTypes
<1>5. Held(call', c) /\ Stays(call'[c], call[c]) /\ call'[c].at = "targets" /\ call'[c].pick = call[c].pick
  BY <1>1, <1>4 DEF Held, Stays, Record
<1>6. ASSUME NEW d \in Call \ {c}
      PROVE  Rests(d)
  <2>1. call[d].at # "dispose"
    <3>1. Working(c)
      BY <1>1 DEF Working
    <3> QED BY <1>2, <3>1, InPlace DEF Placed, Base, Control, Ahead, Working
  <2> QED BY <1>5, <2>1 DEF Rests, Held
<1>7. \E t \in Tab \cup {None} : call'[c].pick = t /\ Opened(t)
  BY <1>5, PickIsFine
<1>8. Picked(c)' /\ ~Shows(c)'
  BY <1>2, <1>3, <1>5, <1>7, PlainPick DEF GoesTo, Shows
<1> QED BY <1>3, <1>6, <1>8, FineAgain

-----------------------------------------------------------------------------
(* The rest of the gate, and of a start.                                   *)
LEMMA DropFine ==
  ASSUME ConnectionInv, Drop
  PROVE  Fine'
<1>1. CloseTo("closed", call) /\ UNCHANGED <<client, registry, browser>>
      /\ (faults' = faults \/ (faults < MaxFaults /\ faults' = faults + 1))
  BY DEF Drop, Close, Fault
<1>2. WorldTypes' /\ WorldStep /\ Homes' /\ Told' /\ SteelSessionIsKept' /\ ~Open'
  BY <1>1, CloseWorld
<1>3. call \in [Call -> Record] /\ call' = Cut(call)
  BY <1>1 DEF CloseTo, ConnectionInv, Base, ConnTypes, ControlTypes
<1>4. \A d \in Call : Rests(d)
  BY <1>2, <1>3, CutFields DEF Rests, Stays
<1> QED BY <1>2, <1>4, ManyFine

LEMMA EnterFine ==
  ASSUME ConnectionInv, NEW c \in Call, Enter(c)
  PROVE  Fine'
<1>1. call \in [Call -> Record] /\ Base /\ resource \in Nat
  BY PickIsFine DEF ControlTypes
<1>2. CASE call' = [call EXCEPT ![c].client = resource, ![c].at = "check"] /\ UNCHANGED <<client, link, events, cur, registry, browser, faults>>
  <2>1. Held(call', c) /\ call'[c].at = "check" /\ call'[c].pick = call[c].pick
    BY ZenonT(60), <1>1, <1>2, PlaceTypes DEF Record, Held
  <2>2. \E t \in Tab \cup {None} : call'[c].pick = t /\ Opened(t) /\ (call'[c].at \in GoesTo => Controlled(t))
    BY <2>1, PickIsFine DEF GoesTo
  <2>3. ~Shows(c)'
    BY <2>1 DEF Shows
  <2> QED BY <1>2, <2>1, <2>2, <2>3, SameWorld, QuietStep
<1>3. CASE /\ CloseTo("connecting", [call EXCEPT ![c].client = resource, ![c].at = "endpoint", ![c].then = "start"])
           /\ UNCHANGED <<client, registry, browser, faults>>
  <2> DEFINE x == [call[c] EXCEPT !.client = resource, !.at = "endpoint", !.then = "start"]
             n == [call EXCEPT ![c] = x]
  <2>0. x \in Record /\ x.at = "endpoint" /\ x.pick = call[c].pick
    BY <1>1, PlaceTypes DEF Record
  <2>2. CloseTo("connecting", n)
    BY <1>1, <1>3
  <2> HIDE DEF x
  <2>1. Held(n, c) /\ n[c].at = "endpoint" /\ n[c].pick = call[c].pick
    BY <1>1, <2>0 DEF Held
  <2> HIDE DEF n
  <2>3. WorldTypes' /\ WorldStep /\ Homes' /\ Told' /\ SteelSessionIsKept' /\ ~Open'
    BY <1>3, <2>2, CloseWorld
  <2>4. call' = Cut(n)
    BY <2>2 DEF CloseTo
  <2>5. \A d \in Call : /\ call'[d].op = n[d].op /\ call'[d].at = n[d].at /\ call'[d].pick = n[d].pick
    BY <2>1, <2>4, CutFields DEF Held, Stays
  <2>6. \A d \in Call \ {c} : Rests(d)
    BY <2>1, <2>3, <2>5 DEF Held, Rests
  <2>7. \E t \in Tab \cup {None} : call'[c].pick = t /\ Opened(t)
    BY <2>1, <2>5, PickIsFine
  <2>8. Picked(c)' /\ ~Shows(c)'
    BY <1>1, <2>1, <2>3, <2>5, <2>7, PlainPick DEF GoesTo, Shows
  <2> QED BY <2>3, <2>6, <2>8, FineAgain
<1>4. CASE call' = [Going(c, "dispose") EXCEPT ![c].client = resource] /\ UNCHANGED <<client, link, events, cur, registry, browser, faults>>
  <2> DEFINE g == Going(c, "dispose")
  <2>1. Held(g, c) /\ g[c].at = "dispose" /\ g[c].pick = call[c].pick /\ (g[c].cut => ~Open)
    <3>1. "dispose" \in At
      BY DEF At, Requesting
    <3> QED BY <3>1, GoingFields, PickIsFine
  <2> HIDE DEF g
  <2>2. call' = [g EXCEPT ![c].client = resource]
    BY <1>4 DEF g
  <2>3. Held(call', c) /\ call'[c].at = "dispose" /\ call'[c].pick = call[c].pick /\ call'[c].cut = g[c].cut
    BY <1>1, <2>1, <2>2 DEF Record, Held
  <2>4. \E t \in Tab \cup {None} : call'[c].pick = t /\ Opened(t) /\ (call'[c].at \in GoesTo => Controlled(t))
    BY <2>3, PickIsFine DEF GoesTo
  <2>5. ~Shows(c)' /\ (call'[c].cut => ~Open)
    BY <2>1, <2>3 DEF Shows
  <2> QED BY <1>4, <2>3, <2>4, <2>5, SameWorld, QuietStep
<1> QED BY <1>2, <1>3, <1>4 DEF Enter

LEMMA SettlesFine ==
  ASSUME ConnectionInv, NEW c \in Call, Enabled(c), call[c].then = "start"
  PROVE  Fine'
<1> DEFINE In(d) == d = starting \/ call[d].at = "starting"
<1>1. /\ call' = Started(call, TRUE) /\ UNCHANGED <<client, link, events, cur, registry, browser, faults>>
  BY DEF Enabled
<1>2. Base /\ ControlTypes /\ WorldTypes /\ Homes /\ Told
  BY PickIsFine
<1>3. /\ UNCHANGED <<selected, link, events, cur, owned, window, authorized, dropped, home, live, steel>> /\ faults' \in 0..MaxFaults
  BY <1>1, SameWorld
<1>4. WorldTypes' /\ WorldStep /\ Homes' /\ Told' /\ SteelSessionIsKept' /\ (Open' <=> Open)
  <2>1. /\ link \in [status : {"closed", "connecting", "open"}, gen : Nat] /\ steel \in [live : BOOLEAN, known : BOOLEAN]
        /\ cur \in [tab : Tab \cup {None}, gen : Nat]
    BY <1>2 DEF WorldTypes
  <2>2. WorldTypes' /\ WorldStep /\ Homes' /\ Told'
    BY <1>2, <1>3, <2>1, CurrentIsFine, StillWorld
  <2> QED BY <1>1, <1>3, <2>2 DEF SteelSessionIsKept, ConnectionInv, Open
<1>5. /\ \A d \in Call : /\ ~In(d) => call'[d] = call[d]
                         /\ In(d) => call'[d].at = "check" /\ call'[d].pick = call[d].pick
  BY <1>1, <1>2, StartedFields
<1> HIDE DEF In
<1>6. ASSUME NEW d \in Call
      PROVE  Rests(d) \/ (Picked(d)' /\ ~Shows(d)')
  <2>1. CASE In(d)
    <3>1. \E t \in Tab \cup {None} : call'[d].pick = t /\ Opened(t)
      BY <1>5, <2>1, PickIsFine
    <3>2. Picked(d)'
      BY <1>2, <1>4, <1>5, <2>1, <3>1, PlainPick DEF GoesTo
    <3> QED BY <1>5, <2>1, <3>2 DEF Shows
  <2>2. CASE ~In(d)
    BY <1>4, <1>5, <2>2 DEF Rests, ConnectionInv, Tabbed, Picked
  <2> QED BY <2>1, <2>2
<1> QED BY <1>4, <1>6, ManyFine

(* A call brings the session to the tab it goes to.                        *)
LEMMA MovesSession ==
  ASSUME ConnectionInv, NEW c \in Call, call[c].at \in GoesTo, NEW g \in Nat, cur' = [tab |-> call[c].pick, gen |-> g],
         UNCHANGED <<client, link, events, registry, browser, faults>>
  PROVE  WorldTypes' /\ WorldStep /\ Homes' /\ Told' /\ SteelSessionIsKept' /\ (Open' <=> Open)
<1>1. call[c].pick \in Tab \cup {None} /\ Base /\ WorldTypes /\ Homes /\ Told /\ Opened(call[c].pick) /\ Controlled(call[c].pick)
  BY PickIsFine DEF Picked
<1>2. /\ UNCHANGED <<selected, owned, window, authorized, dropped, home, live>> /\ steel' = steel
      /\ link' \in [status : {"closed", "connecting", "open"}, gen : Nat] /\ steel' \in [live : BOOLEAN, known : BOOLEAN]
      /\ faults' \in 0..MaxFaults
  BY <1>1 DEF client, registry, browser, WorldTypes
<1>3. cur' \in [tab : Tab \cup {None}, gen : Nat] /\ \E t \in Tab \cup {None} : cur'.tab = t /\ Opened(t) /\ Controlled(t)
  BY <1>1
<1>4. WorldTypes' /\ WorldStep /\ Homes' /\ Told'
  BY <1>1, <1>2, <1>3, StillWorld
<1> QED BY <1>2, <1>4 DEF SteelSessionIsKept, ConnectionInv, Open

LEMMA FineStep ==
  ASSUME ConnectionInv, WorldTypes', WorldStep, Homes', Told', SteelSessionIsKept', Open' => Open,
         NEW c \in Call, Held(call', c), call'[c].at # "dispose",
         \E t \in Tab \cup {None} : call'[c].pick = t /\ Opened(t) /\ (call'[c].at \in GoesTo => Controlled(t)),
         Shows(c)' => Shows(c) /\ call'[c].pick = call[c].pick
  PROVE  Fine'
<1>1. Base
  BY DEF ConnectionInv
<1>2. Picked(c)'
  <2>1. CASE call'[c].at \in GoesTo
    BY <1>1, <2>1, GoalPick
  <2>2. CASE call'[c].at \notin GoesTo
    BY <1>1, <2>2, PlainPick
  <2> QED BY <2>1, <2>2
<1>3. \A d \in Call \ {c} : Rests(d)
  BY OthersRest
<1> QED BY <1>2, <1>3, FineAgain

LEMMA AttachFine ==
  ASSUME ConnectionInv, NEW c \in Call, Attach(c)
  PROVE  Fine'
<1>1. call[c].at = "attach"
  BY DEF Attach
<1>2. CASE AttachFails(c)
  BY <1>1, <1>2, AttachFailsFine
<1>3. CASE ~AttachFails(c)
  <2>1. /\ cur' = [tab |-> call[c].pick, gen |-> link.gen] /\ call' = Going(c, "enable")
        /\ UNCHANGED <<client, link, events, registry, browser, faults>>
    BY <1>3 DEF Attach, Go
  <2>2. link.gen \in Nat /\ "enable" \in At /\ ControlTypes
    BY PickIsFine DEF WorldTypes, At
  <2>3. WorldTypes' /\ WorldStep /\ Homes' /\ Told' /\ SteelSessionIsKept' /\ (Open' <=> Open)
    BY <1>1, <2>1, <2>2, MovesSession DEF GoesTo
  <2>4. Held(call', c) /\ call'[c].at = "enable" /\ call'[c].pick = call[c].pick
    BY <2>1, <2>2, GoingFields
  <2>5. \E t \in Tab \cup {None} : call'[c].pick = t /\ Opened(t) /\ (call'[c].at \in GoesTo => Controlled(t))
    BY <2>4, PickIsFine DEF GoesTo
  <2>6. ~Shows(c)'
    BY <2>4 DEF Shows
  <2> QED BY <2>3, <2>4, <2>5, <2>6, FineStep
<1> QED BY <1>2, <1>3

LEMMA SwitchedFine ==
  ASSUME ConnectionInv, NEW c \in Call, Switched(c)
  PROVE  Fine'
<1>1. /\ call[c].at = "switched" /\ cur' = [tab |-> call[c].pick, gen |-> call[c].gen]
      /\ UNCHANGED <<client, link, events, registry, browser, faults>>
  BY DEF Switched
<1>2. call[c].gen \in Nat /\ "lane" \in At /\ ControlTypes /\ call[c].pick \in Tab \cup {None}
  BY PickIsFine DEF ControlTypes, Record, At
<1>3. WorldTypes' /\ WorldStep /\ Homes' /\ Told' /\ SteelSessionIsKept' /\ (Open' <=> Open)
  BY <1>1, <1>2, MovesSession DEF GoesTo
<1>4. /\ Held(call', c) /\ call'[c].op = call[c].op /\ call'[c].at \in {"done", "act", "listing", "lane"}
      /\ call'[c].pick = call[c].pick \/ (call'[c].at = "done" /\ call'[c].pick = None)
  <2>1. CASE End(c)
    BY <1>2, <2>1, EndedFields DEF End
  <2>2. CASE call' = [call EXCEPT ![c] = Reading(cur', @)]
    <3> DEFINE now == [tab |-> call[c].pick, gen |-> call[c].gen]
    <3>1. now \in [tab : Tab \cup {None}, gen : Nat] /\ call' = [call EXCEPT ![c] = Reading(now, @)] /\ now.tab = call[c].pick
      BY <1>1, <1>2, <2>2
    <3> HIDE DEF now
    <3>2. Held(call', c) /\ Stays(call'[c], call[c]) /\ call'[c].at \in {"act", "listing"} /\ call'[c].pick \in {now.tab, call[c].pick}
      BY <1>2, <3>1, ReadingFields
    <3> QED BY <3>1, <3>2 DEF Stays
  <2>3. CASE Go(c, "lane")
    BY <1>2, <2>3, GoingFields DEF Go, Stays
  <2> QED BY <2>1, <2>2, <2>3 DEF Switched
<1>5. \E t \in Tab \cup {None} : call'[c].pick = t /\ Opened(t) /\ (call'[c].at \in GoesTo => Controlled(t))
  BY <1>4, PickIsFine, NoneIsFine DEF GoesTo
<1>6. Shows(c)' => Shows(c) /\ call'[c].pick = call[c].pick
  BY <1>1, <1>4 DEF Shows
<1> QED BY <1>3, <1>4, <1>5, <1>6, FineStep


-----------------------------------------------------------------------------
(* Steps that prune the registry, or add to it what is a page of a browser *)
(* the harness started.  What was dropped stays so, or is taken again.     *)
Register(ids, w, auth) ==
  /\ owned' = ids /\ window' = w /\ authorized' = auth
  /\ dropped' \in SUBSET dropped /\ \A t \in dropped : t \in dropped' \cup Range(ids) \cup auth

LEMMA Registering ==
  ASSUME NEW ids, NEW w, NEW auth
  PROVE  /\ Registered(ids, w, auth) => Register(ids, w, auth)
         /\ UNCHANGED registry /\ ids = owned /\ w = window /\ auth = authorized => Register(ids, w, auth)
BY DEF Registered, Register, registry

LEMMA PruneWorld ==
  ASSUME ConnectionInv, NEW ids, NEW w, NEW auth, Register(ids, w, auth), UNCHANGED <<client, link, events, cur, browser, faults>>,
         ids \in Seq(Tab), Injective(ids), auth \in SUBSET Tab, w \in {None, window} \cup Range(ids),
         Range(owned) \cap Pages \in SUBSET Range(ids), Range(ids) \in SUBSET (Range(owned) \cup IF selected = Cdp THEN {} ELSE Pages),
         authorized \cap Pages \in SUBSET auth, auth \in SUBSET (authorized \cup Pages)
  PROVE  WorldTypes' /\ WorldStep /\ Homes' /\ Told' /\ SteelSessionIsKept' /\ (Open' => Open)
<1>1. Base /\ WorldTypes /\ Homes /\ Told
  BY DEF ConnectionInv, Base, ConnTypes, Tabbed
<1>2. UNCHANGED <<selected, link, events, cur, home, live, steel, faults>> /\ owned' = ids /\ window' = w /\ authorized' = auth
  BY DEF client, browser, Register
<1>3. Range(ids) \in SUBSET Tab /\ Range(owned) \in SUBSET Tab
  BY <1>1, RangeSeq DEF WorldTypes
<1>4. WorldTypes'
  BY <1>1, <1>2, <1>3 DEF WorldTypes, Injective, Register
<1>5. \A t \in Range(ids) : t \in Range(owned) \/ (t \in HarnessTab /\ home[t] # None)
  <2>1. ASSUME NEW t \in Range(ids), t \notin Range(owned)
        PROVE  t \in HarnessTab /\ home[t] # None
    <3>1. t \in Pages /\ selected # Cdp /\ t \in Tab
      BY <1>3, <2>1
    <3> QED BY <1>1, <3>1 DEF Pages, Homes, Tab
  <2> QED BY <2>1
<1>6. \A t \in auth : t \in authorized \/ home[t] # None
  BY <1>1 DEF Pages, Homes
<1>7. Turns({})
  <2>1. \A t \in Range(owned) : t \in live' /\ home[t] = selected => t \in Range(owned')
    BY <1>2 DEF Pages
  <2>2. \A t \in authorized \cup dropped : t \in live' /\ home[t] = selected => t \in Reached'
    BY <1>2 DEF Pages, Reached, Register
  <2>3. \E t \in Tab \cup {None} : cur'.tab = t /\ Opened(t) /\ Controlled(t)
    BY <1>1, <1>2, CurrentIsFine
  <2>4. \A e \in Range(events') : e \in Range(events)
    BY <1>2
  <2> QED BY <1>2, <1>5, <1>6, <2>1, <2>2, <2>3, <2>4 DEF Turns
<1>8. SteelSessionIsKept' /\ (Open' => Open)
  BY <1>2 DEF SteelSessionIsKept, ConnectionInv, Open
<1> QED BY <1>1, <1>4, <1>7, <1>8, TurnsWorld

(* A call may go to what is owned or authorized after the step.            *)
LEMMA FineOwned ==
  ASSUME ConnectionInv, WorldTypes', WorldStep, Homes', Told', SteelSessionIsKept', Open' => Open,
         NEW c \in Call, Held(call', c), call'[c].at # "dispose", call'[c].pick \in Range(owned') \cup authorized',
         Shows(c)' => (Shows(c) /\ call'[c].pick = call[c].pick) \/ (Unused # {} /\ call'[c].pick = NewTab)
  PROVE  Fine'
<1>1. Picked(c)'
  BY DEF Picked, Homes, Opened, Controlled, Reached
<1>2. \A d \in Call \ {c} : Rests(d)
  BY OthersRest
<1> QED BY <1>1, <1>2, FineAgain

LEMMA AskFine ==
  ASSUME ConnectionInv, WorldTypes', WorldStep, Homes', Told', SteelSessionIsKept', Open' => Open, NEW c \in Call, AskWindow(c)
  PROVE  Fine'
<1>1. PICK a \in {"wintargets", "winwait"} : call' = Going(c, a)
  BY DEF AskWindow, Go
<1>2. a \in At
  BY AtTypes DEF Requesting
<1>3. Held(call', c) /\ call'[c].at = a /\ call'[c].pick = call[c].pick
  BY <1>1, <1>2, GoingFields, PickIsFine
<1>4. \E t \in Tab \cup {None} : call'[c].pick = t /\ Opened(t) /\ (call'[c].at \in GoesTo => Controlled(t))
  BY <1>3, PickIsFine DEF GoesTo
<1>5. ~Shows(c)' /\ call'[c].at # "dispose"
  BY <1>3 DEF Shows
<1> QED BY <1>3, <1>4, <1>5, FineStep

LEMMA Pruned ==
  ASSUME ConnectionInv
  PROVE  /\ LiveOnly(owned) \in Seq(Tab) /\ Injective(LiveOnly(owned)) /\ Range(LiveOnly(owned)) = Range(owned) \cap Pages
         /\ WindowIfLive \in {None, window} \cup Range(LiveOnly(owned)) /\ authorized \in SUBSET Tab /\ Pages \in SUBSET Tab
<1>1. WorldTypes
  BY DEF ConnectionInv, Base, ConnTypes
<1> QED BY <1>1, Registers DEF WindowIfLive, WorldTypes

LEMMA TargetsFine ==
  ASSUME ConnectionInv, NEW c \in Call, Targets(c)
  PROVE  Fine'
<1> DEFINE ids == Adopted(LiveOnly(owned))
           w == IF WindowIfLive = None THEN First(LiveOnly(owned)) ELSE window
<1>1. call[c].at = "targets"
  BY DEF Targets
<1>2. CASE AttachFails(c)
  BY <1>1, <1>2, AttachFailsFine
<1>3. CASE /\ Registered(ids, w, authorized) /\ UNCHANGED <<client, link, events, cur, browser, faults>>
           /\ \/ First(ids) # None /\ GoPick(c, "attach", First(ids))
              \/ AskWindow(c)
  <2>1. /\ ids \in Seq(Tab) /\ Injective(ids) /\ Range(owned) \cap Pages \in SUBSET Range(ids)
        /\ Range(ids) \in SUBSET (Range(owned) \cup IF selected = Cdp THEN {} ELSE Pages)
        /\ First(LiveOnly(owned)) = None \/ First(LiveOnly(owned)) \in Range(ids)
        /\ First(ids) # None => First(ids) \in Range(ids) /\ First(ids) \in Tab
        /\ authorized \in SUBSET Tab
    BY PickIsFine, Registers DEF WorldTypes
  <2> HIDE DEF ids
  <2>2. w \in {None, window} \cup Range(ids)
    BY <2>1
  <2> HIDE DEF w
  <2>3. WorldTypes' /\ WorldStep /\ Homes' /\ Told' /\ SteelSessionIsKept' /\ (Open' => Open)
    BY <1>3, <2>1, <2>2, Registering, PruneWorld
  <2>4. CASE AskWindow(c)
    BY <2>3, <2>4, AskFine
  <2>5. CASE First(ids) # None /\ GoPick(c, "attach", First(ids))
    <3>1. "attach" \in At /\ First(ids) \in Tab \cup {None} /\ owned' = ids
      BY <1>3, <2>1, <2>5, AtTypes DEF Requesting, Registered
    <3>2. Held(call', c) /\ call'[c].at = "attach" /\ call'[c].pick = First(ids)
      BY <2>5, <3>1, PickIsFine, GoPickFields
    <3>3. call'[c].pick \in Range(owned') \cup authorized' /\ ~Shows(c)' /\ call'[c].at # "dispose"
      BY <2>1, <2>5, <3>1, <3>2 DEF Shows
    <3> QED BY <2>3, <3>2, <3>3, FineOwned
  <2> QED BY <1>3, <2>4, <2>5
<1> QED BY <1>2, <1>3 DEF Targets, PickOwned

LEMMA TabsFine ==
  ASSUME ConnectionInv, NEW c \in Call, Tabs(c)
  PROVE  Fine'
<1>1. CASE End(c) /\ UNCHANGED registry
  BY <1>1, EndFine DEF Tabs
<1>2. CASE Registered(LiveOnly(owned), WindowIfLive, authorized \cap Pages) /\ AskWindow(c)
  <2>1. WorldTypes' /\ WorldStep /\ Homes' /\ Told' /\ SteelSessionIsKept' /\ (Open' => Open)
    BY <1>2, Pruned, Registering, PruneWorld DEF Tabs
  <2> QED BY <1>2, <2>1, AskFine
<1> QED BY <1>1, <1>2 DEF Tabs

LEMMA EndedFine ==
  ASSUME ConnectionInv, WorldTypes', WorldStep, Homes', Told', SteelSessionIsKept', Open' => Open, NEW c \in Call, End(c)
  PROVE  Fine'
<1>1. /\ Held(call', c) /\ call'[c].op = call[c].op /\ call'[c].at = "done"
      /\ call'[c].pick = IF call[c].op = "new" /\ call[c].at = "switched" THEN call[c].pick ELSE None
  BY EndedFields, PickIsFine DEF End
<1>2. \E t \in Tab \cup {None} : call'[c].pick = t /\ Opened(t) /\ (call'[c].at \in GoesTo => Controlled(t))
  BY <1>1, PickIsFine, NoneIsFine DEF GoesTo
<1>3. Shows(c)' => Shows(c) /\ call'[c].pick = call[c].pick
  BY <1>1 DEF Shows
<1> QED BY <1>1, <1>2, <1>3, FineStep

LEMMA AuthorizeFine ==
  ASSUME ConnectionInv, NEW c \in Call, Authorize(c)
  PROVE  Fine'
<1> DEFINE t == call[c].arg
           auth == (authorized \cup {t}) \cap Pages
<1>1. CASE End(c) /\ UNCHANGED registry
  BY <1>1, EndFine DEF Authorize
<1>2. CASE /\ Registered(LiveOnly(owned), WindowIfLive, auth)
           /\ \/ t \in Pages /\ call' = [Going(c, "switch") EXCEPT ![c].pick = t, ![c].then = "handler"]
              \/ End(c)
  <2>1. auth \in SUBSET Tab /\ authorized \cap Pages \in SUBSET auth /\ auth \in SUBSET (authorized \cup Pages) /\ (t \in Pages => t \in auth)
    BY Pruned
  <2> HIDE DEF auth
  <2>2. UNCHANGED <<client, link, events, cur, browser, faults>>
    BY DEF Authorize
  <2>3. WorldTypes' /\ WorldStep /\ Homes' /\ Told' /\ SteelSessionIsKept' /\ (Open' => Open)
    BY <1>2, <2>1, <2>2, Pruned, Registering, PruneWorld
  <2>4. CASE End(c)
    BY <2>3, <2>4, EndedFine
  <2>5. CASE t \in Pages /\ call' = [Going(c, "switch") EXCEPT ![c].pick = t, ![c].then = "handler"]
    <3>1. t \in Tab
      BY <2>5, Pruned
    <3>2. Held(call', c) /\ Stays(call'[c], call[c]) /\ call'[c].at = "switch" /\ call'[c].pick = t
      BY <2>5, <3>1, PickIsFine, SwitchFields
    <3>3. call[c].op = "authorize"
      BY PickIsFine, InPlace DEF Authorize, Placed
    <3>4. call'[c].pick \in Range(owned') \cup authorized' /\ ~Shows(c)' /\ call'[c].at # "dispose"
      BY <1>2, <2>1, <2>5, <3>2, <3>3 DEF Shows, Stays, Registered
    <3> QED BY <2>3, <3>2, <3>4, FineOwned
  <2> QED BY <1>2, <2>4, <2>5
<1> QED BY <1>1, <1>2 DEF Authorize


(* A listing keeps what it lists, and marks what it drops of the open.     *)
LEMMA ListWorld ==
  ASSUME ConnectionInv, NEW listed \in SUBSET Pages, ListTabs(listed), UNCHANGED <<client, link, events, cur, browser, faults>>
  PROVE  WorldTypes' /\ WorldStep /\ Homes' /\ Told' /\ SteelSessionIsKept' /\ (Open' => Open)
<1>1. Base /\ WorldTypes /\ Homes /\ Told
  BY DEF ConnectionInv, Base, ConnTypes, Tabbed
<1>2. /\ UNCHANGED <<selected, link, events, cur, home, live, steel, faults>>
      /\ owned' = Kept(owned, listed) /\ window' = (IF window \in listed THEN window ELSE None) /\ authorized' = authorized \cap listed
      /\ dropped' = dropped \cup ((Range(owned) \cup authorized) \cap (Pages \ listed))
  BY DEF client, browser, ListTabs
<1>3. /\ owned \in Seq(Tab) /\ Injective(owned) /\ Range(owned) \in SUBSET Tab /\ window \in Tab \cup {None}
      /\ authorized \in SUBSET Tab /\ dropped \in SUBSET Tab /\ Pages = {t \in live : home[t] = selected} /\ live \in SUBSET Tab
  BY <1>1, RangeSeq DEF WorldTypes, Pages
<1>4. owned' \in Seq(Tab) /\ Injective(owned') /\ Range(owned') = Range(owned) \cap listed
  BY <1>2, <1>3, KeptOnly
<1>5. WorldTypes'
  <2>1. window' \in Tab \cup {None} /\ authorized' \in SUBSET Tab /\ dropped' \in SUBSET Tab
    BY <1>2, <1>3
  <2> QED BY <1>1, <1>2, <1>4, <2>1 DEF WorldTypes, Injective
<1>6. Turns({})
  <2>1. ASSUME NEW t \in Range(owned), t \in live', home[t] = selected
        PROVE  t \in Range(owned') \/ (t \in dropped' /\ window' # t)
    <3>1. t \in Pages /\ t # None
      BY <1>2, <1>3, <2>1, ConnectionAssumption
    <3> QED BY <1>2, <1>4, <3>1
  <2>2. ASSUME NEW t \in authorized \cup dropped, t \in live', home[t] = selected
        PROVE  t \in Reached'
    <3>1. t \in Pages
      BY <1>2, <1>3, <2>2
    <3> QED BY <1>2, <3>1 DEF Reached
  <2>3. \E t \in Tab \cup {None} : cur'.tab = t /\ Opened(t) /\ Controlled(t)
    BY <1>1, <1>2, CurrentIsFine
  <2>4. \A e \in Range(events') : e \in Range(events)
    BY <1>2
  <2>5. /\ \A t \in Range(owned') : t \in Range(owned)
        /\ \A t \in authorized' : t \in authorized
        /\ window' \in {None, window}
    BY <1>2, <1>4
  <2> QED BY <1>2, <2>1, <2>2, <2>3, <2>4, <2>5 DEF Turns
<1>7. SteelSessionIsKept' /\ (Open' => Open)
  BY <1>2 DEF SteelSessionIsKept, ConnectionInv, Open
<1> QED BY <1>1, <1>5, <1>6, <1>7, TurnsWorld

LEMMA ListingFine ==
  ASSUME ConnectionInv, NEW c \in Call, Listing(c)
  PROVE  Fine'
<1>1. CASE End(c) /\ UNCHANGED registry
  BY <1>1, EndFine DEF Listing
<1>2. ASSUME NEW internal \in SUBSET Pages, ListTabs(Pages \ internal),
             End(c) \/ GoThen(c, "tabs", "handler") \/ call' = [call EXCEPT ![c] = Acting(cur, @)]
      PROVE  Fine'
  <2>1. UNCHANGED <<client, link, events, cur, browser, faults>> /\ Pages \ internal \in SUBSET Pages
    BY DEF Listing
  <2>2. WorldTypes' /\ WorldStep /\ Homes' /\ Told' /\ SteelSessionIsKept' /\ (Open' => Open)
    BY <1>2, <2>1, ListWorld
  <2>3. CASE End(c)
    BY <2>2, <2>3, EndedFine
  <2>4. CASE GoThen(c, "tabs", "handler")
    <3>1. "tabs" \in At /\ ControlTypes
      BY AtTypes, PickIsFine DEF Requesting
    <3>2. Held(call', c) /\ call'[c].at = "tabs" /\ call'[c].pick = call[c].pick
      BY <2>4, <3>1, GoThenFields
    <3>3. \E t \in Tab \cup {None} : call'[c].pick = t /\ Opened(t) /\ (call'[c].at \in GoesTo => Controlled(t))
      BY <3>2, PickIsFine DEF GoesTo
    <3>4. ~Shows(c)' /\ call'[c].at # "dispose"
      BY <3>2 DEF Shows
    <3> QED BY <2>2, <3>2, <3>3, <3>4, FineStep
  <2>5. CASE call' = [call EXCEPT ![c] = Acting(cur, @)]
    <3>1. cur \in [tab : Tab \cup {None}, gen : Nat] /\ ControlTypes
      BY PickIsFine DEF WorldTypes
    <3>2. Held(call', c) /\ call'[c].at = "act" /\ call'[c].pick = cur.tab
      BY <2>5, <3>1, ActingFields
    <3>3. \E t \in Tab \cup {None} : call'[c].pick = t /\ Opened(t) /\ (call'[c].at \in GoesTo => Controlled(t))
      BY <3>2, PickIsFine, CurrentIsFine
    <3>4. ~Shows(c)' /\ call'[c].at # "dispose"
      BY <3>2 DEF Shows
    <3> QED BY <2>2, <3>2, <3>3, <3>4, FineStep
  <2> QED BY <1>2, <2>3, <2>4, <2>5
<1> QED BY <1>1, <1>2 DEF Listing

LEMMA SaveFailsFine ==
  ASSUME ConnectionInv, NEW c \in Call, SaveFails(c)
  PROVE  Fine'
<1>1. Base /\ WorldTypes /\ Homes /\ Told
  BY DEF ConnectionInv, Base, ConnTypes, Tabbed
<1>2. PICK w \in {None, window} : Registered(owned, w, authorized)
  BY DEF SaveFails
<1>3. /\ UNCHANGED <<selected, home, live, steel>> /\ cur' = NoTab /\ events' = <<>> /\ link' = [link EXCEPT !.status = "closed"]
      /\ faults < MaxFaults /\ faults' = faults + 1 /\ End(c) /\ owned' = owned /\ window' = w /\ authorized' = authorized
      /\ faults \in 0..MaxFaults /\ MaxFaults \in Nat
  BY <1>1, <1>2, ConnectionAssumption DEF SaveFails, Fault, client, browser, Registered, WorldTypes
<1>4. Register(owned, w, authorized)
  BY <1>2, Registering
<1>5. WorldTypes'
  <2>1. link' \in [status : {"closed", "connecting", "open"}, gen : Nat]
    BY <1>1, <1>3 DEF WorldTypes
  <2>2. cur' \in [tab : Tab \cup {None}, gen : Nat] /\ events' \in Seq(Event) /\ faults' \in 0..MaxFaults /\ w \in Tab \cup {None}
    BY <1>1, <1>3, CurrentIsFine, EventSteps DEF WorldTypes
  <2> QED BY <1>1, <1>3, <1>4, <2>1, <2>2 DEF WorldTypes, Injective, Register
<1>6. Turns({})
  <2>1. \E t \in Tab \cup {None} : cur'.tab = t /\ Opened(t) /\ Controlled(t)
    BY <1>1, <1>3, CurrentIsFine
  <2>2. \A t \in authorized \cup dropped : t \in Reached'
    BY <1>3, <1>4 DEF Reached, Register
  <2>3. Range(events') = {}
    BY <1>1, <1>3, EventSteps
  <2> QED BY <1>3, <2>1, <2>2, <2>3 DEF Turns
<1>7. WorldStep /\ Homes' /\ Told'
  BY <1>1, <1>5, <1>6, TurnsWorld
<1>8. SteelSessionIsKept' /\ ~Open'
  BY <1>1, <1>3 DEF SteelSessionIsKept, Open, WorldTypes
<1> QED BY <1>3, <1>5, <1>7, <1>8, EndedFine

-----------------------------------------------------------------------------
(* The window and the tabs that are made.                                  *)
LEMMA WithOnce ==
  ASSUME NEW s \in Seq(Tab), Injective(s), NEW t \in Tab
  PROVE  With(s, t) \in Seq(Tab) /\ Injective(With(s, t)) /\ Range(With(s, t)) = Range(s) \cup {t}
<1>1. CASE t \in Range(s)
  BY <1>1 DEF With
<1>2. CASE t \notin Range(s)
  <2>1. With(s, t) = Append(s, t) /\ Append(s, t) \in Seq(Tab)
    BY <1>2 DEF With
  <2>2. Injective(Append(s, t)) /\ Range(Append(s, t)) = Range(s) \cup {t}
    BY <1>2, OnceSteps
  <2> QED BY <2>1, <2>2
<1> QED BY <1>1, <1>2

(* What the events say, of a step that tells one more.                     *)
LEMMA ToldMore ==
  ASSUME WorldTypes, NEW e \in Event, TellsTruth(e)', events' = events \/ events' = Append(events, e)
  PROVE  events' \in Seq(Event) /\ \A x \in Range(events') : x \in Range(events) \/ TellsTruth(x)'
<1>1. events \in Seq(Event)
  BY DEF WorldTypes
<1>2. events' \in Seq(Event) /\ \A x \in Range(events') : x \in Range(events) \/ x = e
  BY <1>1, EventSteps
<1> QED BY <1>2

LEMMA CreateWorld ==
  ASSUME ConnectionInv, Unused # {}, Created, NEW ids, NEW w, Register(ids, w, authorized),
         (ids = owned /\ w = window) \/ (ids = With(owned, NewTab) /\ w \in {window, NewTab}),
         UNCHANGED <<client, link, cur>>, events' = events \/ \E o \in Tab : events' = Append(events, <<"popup", NewTab, o>>),
         faults' = faults \/ (faults < MaxFaults /\ faults' = faults + 1)
  PROVE  /\ WorldTypes' /\ WorldStep /\ Homes' /\ Told' /\ SteelSessionIsKept' /\ (Open' => Open)
         /\ NewTab \in Tab /\ (ids = With(owned, NewTab) => NewTab \in Range(owned'))
<1>1. Base /\ WorldTypes /\ Homes /\ Told
  BY DEF ConnectionInv, Base, ConnTypes, Tabbed
<1>2. /\ UNCHANGED <<selected, link, cur, steel>> /\ owned' = ids /\ window' = w /\ authorized' = authorized
      /\ home' = [home EXCEPT ![NewTab] = selected] /\ live' = live \cup {NewTab}
  BY DEF client, Created, Register
<1>3. NewTab \in Unused /\ NewTab \in HarnessTab /\ NewTab \in Tab /\ selected \in Provider /\ None \notin Provider
  BY <1>1, Registers, ConnectionAssumption DEF Unused, Tab, WorldTypes
<1>4. owned \in Seq(Tab) /\ Injective(owned) /\ window \in Tab \cup {None} /\ home \in [Tab -> Provider \cup {None}]
      /\ live \in SUBSET Tab /\ faults \in 0..MaxFaults /\ MaxFaults \in Nat
  BY <1>1, ConnectionAssumption DEF WorldTypes
<1>5. /\ With(owned, NewTab) \in Seq(Tab) /\ Injective(With(owned, NewTab))
      /\ Range(With(owned, NewTab)) = Range(owned) \cup {NewTab}
  BY <1>3, <1>4, WithOnce
<1>6. /\ ids \in Seq(Tab) /\ Injective(ids) /\ Range(owned) \in SUBSET Range(ids) /\ Range(ids) \in SUBSET (Range(owned) \cup {NewTab})
      /\ w = window \/ w \in Range(ids)
  BY <1>4, <1>5
<1>7. home'[NewTab] = selected /\ \A t \in Tab : t # NewTab => home'[t] = home[t]
  BY <1>2, <1>3, <1>4
<1>8. events' \in Seq(Event) /\ \A x \in Range(events') : x \in Range(events) \/ TellsTruth(x)'
  <2>1. CASE events' = events
    BY <1>1, <2>1 DEF WorldTypes
  <2>2. ASSUME NEW o \in Tab, events' = Append(events, <<"popup", NewTab, o>>)
        PROVE  events' \in Seq(Event) /\ \A x \in Range(events') : x \in Range(events) \/ TellsTruth(x)'
    <3>1. PICK t \in HarnessTab : NewTab = t
      BY <1>3
    <3>2. <<"popup", t, o>> \in Event /\ events' = Append(events, <<"popup", t, o>>)
      BY <1>3, <2>2, <3>1 DEF Event
    <3>3. TellsTruth(<<"popup", t, o>>)'
      BY <1>3, <1>7, <3>1 DEF TellsTruth
    <3> QED BY <1>1, <3>2, <3>3, ToldMore
  <2> QED BY <2>1, <2>2
<1>9. WorldTypes'
  <2>1. home' \in [Tab -> Provider \cup {None}] /\ live' \in SUBSET Tab /\ faults' \in 0..MaxFaults
    BY <1>2, <1>3, <1>4
  <2>2. w \in Tab \cup {None}
    BY <1>3, <1>4
  <2> QED BY <1>1, <1>2, <1>6, <1>8, <2>1, <2>2 DEF WorldTypes, Injective, Register
<1>10. Turns({NewTab})
  <2>1. \E t \in Tab \cup {None} : cur'.tab = t /\ Opened(t) /\ Controlled(t)
    BY <1>1, <1>2, CurrentIsFine
  <2>2. /\ \A t \in Range(owned) : t \in Range(owned')
        /\ \A t \in Range(owned') : t \in Range(owned) \cup {NewTab}
        /\ window' \in {None, window} \cup Range(owned')
    BY <1>2, <1>6
  <2>3. {NewTab} \in SUBSET Unused /\ \A t \in Tab : home'[t] = IF t \in {NewTab} THEN selected ELSE home[t]
    BY <1>3, <1>7
  <2>4. \A t \in authorized \cup dropped : t \in Reached'
    BY <1>2 DEF Reached, Register
  <2> QED BY <1>2, <1>8, <2>1, <2>2, <2>3, <2>4 DEF Turns
<1>11. SteelSessionIsKept' /\ (Open' => Open)
  BY <1>2, <1>4 DEF SteelSessionIsKept, ConnectionInv, Open
<1> QED BY <1>1, <1>2, <1>3, <1>5, <1>9, <1>10, <1>11, TurnsWorld

LEMMA WindowFine ==
  ASSUME ConnectionInv, WorldTypes', WorldStep, Homes', Told', SteelSessionIsKept', Open' => Open,
         NEW c \in Call, NEW a \in {"fresh", "given", "refused"}, NEW t \in Tab \cup {None}, WindowDone(c, a, t),
         t = None \/ t \in Range(owned'), a = "fresh" => Unused # {} /\ t = NewTab
  PROVE  Fine'
<1> DEFINE In(d) == d = c \/ call[d].at = "winwait"
<1>1. ASSUME NEW d \in Call
      PROVE  /\ ~In(d) => call'[d] = call[d]
             /\ In(d) => /\ call'[d].pick = t /\ call'[d].at \in {a, Shared(a)}
                         /\ d # c => call'[d].at = Shared(a)
  BY PickIsFine, WindowDoneFields
<1>2. Shared(a) \in {"given", "refused"}
  BY DEF Shared
<1> HIDE DEF In
<1>3. Opened(t)' /\ Controlled(t)'
  <2>1. None \notin Pages'
    BY ConnectionAssumption DEF WorldTypes, Pages
  <2> QED BY <2>1 DEF Opened, Controlled, Reached, Homes
<1>4. ASSUME NEW d \in Call, In(d)
      PROVE  Picked(d)' /\ (d # c => ~Shows(d)') /\ (Shows(c)' => Unused # {} /\ call'[c].pick = NewTab)
  <2>1. call'[d].pick = t /\ call'[d].at \in {"fresh", "given", "refused"} /\ (d # c => call'[d].at # "fresh")
    BY <1>1, <1>2, <1>4
  <2>2. In(c)
    BY DEF In
  <2>3. call'[c].at = "fresh" => a = "fresh"
    BY <1>1, <1>2, <2>2
  <2>4. call'[c].at \in {"fresh", "given", "refused"} /\ call'[c].pick = t
    BY <1>1, <1>2, <2>2
  <2> QED BY <1>3, <2>1, <2>3, <2>4 DEF Picked, Shows, Opened, Controlled
<1>5. \A d \in Call \ {c} : Rests(d) \/ (Picked(d)' /\ ~Shows(d)')
  <2>1. ASSUME NEW d \in Call \ {c}, ~In(d)
        PROVE  Rests(d)
    BY <1>1, <2>1, PickIsFine DEF Rests, Picked
  <2> QED BY <1>4, <2>1
<1>6. In(c)
  BY DEF In
<1> QED BY <1>4, <1>5, <1>6, FineAgain

LEMMA RegistryRests ==
  ASSUME ConnectionInv, UNCHANGED <<client, link, events, cur, browser, faults>>, NEW w \in {window} \cup Range(owned),
         Register(owned, w, authorized)
  PROVE  WorldTypes' /\ WorldStep /\ Homes' /\ Told' /\ SteelSessionIsKept' /\ (Open' => Open)
<1>1. owned \in Seq(Tab) /\ Injective(owned) /\ authorized \in SUBSET Tab
  BY DEF ConnectionInv, Base, ConnTypes, WorldTypes
<1> QED BY <1>1, PruneWorld

LEMMA WinTargetsFine ==
  ASSUME ConnectionInv, NEW c \in Call, WinTargets(c)
  PROVE  Fine'
<1> DEFINE t == IF WindowIfLive # None THEN window ELSE First(LiveOnly(owned))
<1>1. UNCHANGED <<client, link, events, cur, browser, faults>> /\ call[c].at = "wintargets"
  BY DEF WinTargets
<1>2. t # None => t \in Range(owned) /\ t \in Tab
  <2>1. WorldTypes /\ Homes
    BY DEF ConnectionInv, Base, ConnTypes, Tabbed
  <2>2. Range(owned) \in SUBSET Tab /\ (First(LiveOnly(owned)) = None \/ First(LiveOnly(owned)) \in Range(owned))
    BY <2>1, Registers
  <2>3. WindowIfLive # None => window \in Range(owned)
    BY <2>1 DEF WindowIfLive, Homes, Owns
  <2> QED BY <2>2, <2>3
<1>3. CASE WindowDone(c, "refused", None) /\ UNCHANGED registry
  <2>1. Register(owned, window, authorized)
    BY <1>3, Registering
  <2>2. WorldTypes' /\ WorldStep /\ Homes' /\ Told' /\ SteelSessionIsKept' /\ (Open' => Open)
    BY <1>1, <2>1, RegistryRests
  <2> QED BY <1>3, <2>2, WindowFine
<1>4. CASE t # None /\ WindowDone(c, "given", t) /\ Registered(owned, t, authorized)
  <2>1. WorldTypes' /\ WorldStep /\ Homes' /\ Told' /\ SteelSessionIsKept' /\ (Open' => Open)
    BY <1>1, <1>2, <1>4, Registering, RegistryRests
  <2>2. t \in Range(owned')
    BY <1>2, <1>4 DEF Registered
  <2> HIDE DEF t
  <2> QED BY <1>2, <1>4, <2>1, <2>2, WindowFine
<1>5. CASE Go(c, "create") /\ UNCHANGED registry
  BY <1>1, <1>5, AtTypes, GoFine DEF GoesTo, Requesting
<1> QED BY <1>3, <1>4, <1>5 DEF WinTargets

LEMMA CreateFine ==
  ASSUME ConnectionInv, NEW c \in Call, Create(c)
  PROVE  Fine'
<1>1. UNCHANGED <<client, link, events, cur, faults>>
  BY DEF Create
<1>2. CASE WindowDone(c, "refused", None) /\ UNCHANGED registry /\ UNCHANGED browser
  <2>1. Register(owned, window, authorized)
    BY <1>2, Registering
  <2>2. WorldTypes' /\ WorldStep /\ Homes' /\ Told' /\ SteelSessionIsKept' /\ (Open' => Open)
    BY <1>1, <1>2, <2>1, RegistryRests
  <2> QED BY <1>2, <2>2, WindowFine
<1>3. CASE WindowDone(c, "refused", None) /\ UNCHANGED registry /\ Unused # {} /\ Created
  <2>1. Register(owned, window, authorized)
    BY <1>3, Registering
  <2>2. WorldTypes' /\ WorldStep /\ Homes' /\ Told' /\ SteelSessionIsKept' /\ (Open' => Open)
    BY <1>1, <1>3, <2>1, CreateWorld
  <2> QED BY <1>3, <2>2, WindowFine
<1>4. CASE WindowDone(c, "fresh", NewTab) /\ Unused # {} /\ Created /\ Registered(With(owned, NewTab), NewTab, authorized)
  <2>1. /\ WorldTypes' /\ WorldStep /\ Homes' /\ Told' /\ SteelSessionIsKept' /\ (Open' => Open)
        /\ NewTab \in Tab /\ NewTab \in Range(owned')
    BY <1>1, <1>4, Registering, CreateWorld
  <2> QED BY <1>4, <2>1, WindowFine
<1> QED BY <1>2, <1>3, <1>4 DEF Create

LEMMA OpenTabFine ==
  ASSUME ConnectionInv, NEW c \in Call, OpenTab(c)
  PROVE  Fine'
<1>1. UNCHANGED <<client, link, events, cur, faults>> /\ call[c].at = "open"
  BY DEF OpenTab
<1>2. CASE End(c) /\ UNCHANGED registry /\ UNCHANGED browser
  BY <1>1, <1>2, EndFine
<1>3. CASE End(c) /\ UNCHANGED registry /\ Unused # {} /\ Created
  <2>1. Register(owned, window, authorized)
    BY <1>3, Registering
  <2>2. WorldTypes' /\ WorldStep /\ Homes' /\ Told' /\ SteelSessionIsKept' /\ (Open' => Open)
    BY <1>1, <1>3, <2>1, CreateWorld
  <2> QED BY <1>3, <2>2, EndedFine
<1>4. CASE Unused # {} /\ Created /\ Registered(With(owned, NewTab), window, authorized) /\ GoPick(c, "switch", NewTab)
  <2>1. /\ WorldTypes' /\ WorldStep /\ Homes' /\ Told' /\ SteelSessionIsKept' /\ (Open' => Open)
        /\ NewTab \in Tab /\ NewTab \in Range(owned')
    BY <1>1, <1>4, Registering, CreateWorld
  <2>2. "switch" \in At
    BY AtTypes DEF Requesting
  <2>3. Held(call', c) /\ call'[c].at = "switch" /\ call'[c].pick = NewTab
    BY <1>4, <2>1, <2>2, PickIsFine, GoPickFields
  <2> QED BY <1>4, <2>1, <2>3, FineOwned
<1> QED BY <1>2, <1>3, <1>4 DEF OpenTab

LEMMA CallsRest ==
  ASSUME ConnectionInv, call' = call, WorldTypes', WorldStep, Homes', Told', SteelSessionIsKept', Open' => Open
  PROVE  Fine'
<1>1. \A d \in Call : Rests(d)
  BY PickIsFine DEF Rests, Picked
<1> QED BY <1>1, ManyFine

LEMMA PopupFine ==
  ASSUME ConnectionInv, NEW o \in Tab, Popup(o)
  PROVE  Fine'
<1>1. /\ UNCHANGED <<client, link, cur, registry>> /\ call' = call /\ Unused # {} /\ Created
      /\ events' = events \/ events' = Append(events, <<"popup", NewTab, o>>)
      /\ faults < MaxFaults /\ faults' = faults + 1
  BY DEF Popup, Fault
<1>2. Register(owned, window, authorized)
  BY <1>1, Registering
<1>3. WorldTypes' /\ WorldStep /\ Homes' /\ Told' /\ SteelSessionIsKept' /\ (Open' => Open)
  BY <1>1, <1>2, CreateWorld
<1> QED BY <1>1, <1>3, CallsRest


-----------------------------------------------------------------------------
(* Tabs that close, what the registry is told of it, and popups adopted.   *)
LEMMA ShrinkWorld ==
  ASSUME ConnectionInv, UNCHANGED <<client, link, cur, home, steel>>, live' \in SUBSET live,
         NEW ids, NEW w, Register(ids, w, authorized), ids \in Seq(Tab), Injective(ids), w \in {None, window},
         Range(owned) \cap Pages \cap live' \in SUBSET Range(ids),
         \A t \in Range(ids) : t \in Range(owned) \/ (t \in HarnessTab /\ home[t] # None),
         events' \in Seq(Event), \A x \in Range(events') : x \in Range(events) \/ TellsTruth(x)',
         faults' = faults \/ (faults < MaxFaults /\ faults' = faults + 1)
  PROVE  WorldTypes' /\ WorldStep /\ Homes' /\ Told' /\ SteelSessionIsKept' /\ (Open' => Open)
<1>1. Base /\ WorldTypes /\ Homes /\ Told
  BY DEF ConnectionInv, Base, ConnTypes, Tabbed
<1>2. UNCHANGED <<selected, link, cur, home, steel>> /\ owned' = ids /\ window' = w /\ authorized' = authorized
      /\ faults \in 0..MaxFaults /\ MaxFaults \in Nat /\ window \in Tab \cup {None}
  BY <1>1, ConnectionAssumption DEF client, Register, WorldTypes
<1>3. WorldTypes'
  <2>1. live' \in SUBSET Tab /\ faults' \in 0..MaxFaults /\ w \in Tab \cup {None}
    BY <1>1, <1>2 DEF WorldTypes
  <2> QED BY <1>1, <1>2, <2>1 DEF WorldTypes, Injective, Register
<1>4. Turns({})
  <2>1. \E t \in Tab \cup {None} : cur'.tab = t /\ Opened(t) /\ Controlled(t)
    BY <1>1, <1>2, CurrentIsFine
  <2>2. \A t \in Range(owned) : t \in live' /\ home[t] = selected => t \in Range(owned')
    BY <1>2 DEF Pages
  <2>3. \A t \in authorized \cup dropped : t \in Reached'
    BY <1>2 DEF Reached, Register
  <2> QED BY <1>2, <2>1, <2>2, <2>3 DEF Turns
<1>5. SteelSessionIsKept' /\ (Open' => Open)
  BY <1>2 DEF SteelSessionIsKept, ConnectionInv, Open
<1> QED BY <1>1, <1>3, <1>4, <1>5, TurnsWorld

LEMMA RemovedOnce ==
  ASSUME ConnectionInv, NEW t \in Tab
  PROVE  /\ Without(owned, t) \in Seq(Tab) /\ Injective(Without(owned, t)) /\ Range(Without(owned, t)) = Range(owned) \ {t}
         /\ owned \in Seq(Tab) /\ Injective(owned) /\ events \in Seq(Event)
<1>1. owned \in Seq(Tab) /\ Injective(owned) /\ events \in Seq(Event)
  BY DEF ConnectionInv, Base, ConnTypes, WorldTypes
<1> QED BY <1>1, OnceSteps

LEMMA DisposeFine ==
  ASSUME ConnectionInv, NEW c \in Call, Dispose(c)
  PROVE  Fine'
<1> DEFINE h == Head(owned)
           w == IF window = h THEN None ELSE window
<1>1. /\ call[c].at = "dispose" /\ Open /\ owned # <<>> /\ Go(c, "dispose")
      /\ live' = (IF call[c].cut THEN live ELSE live \ {h}) /\ Registered(Tail(owned), w, authorized)
      /\ UNCHANGED <<client, link, events, cur, home, steel, faults>>
  BY DEF Dispose
<1>2. live' = live \ {h}
  BY <1>1, PickIsFine DEF Picked
<1>3. owned \in Seq(Tab) /\ Injective(owned) /\ events \in Seq(Event) /\ w \in {None, window}
  BY DEF ConnectionInv, Base, ConnTypes, WorldTypes
<1>4. h \in Tab /\ Tail(owned) \in Seq(Tab)
  BY <1>1, <1>3
<1>5. Injective(Tail(owned)) /\ Range(Tail(owned)) = Range(owned) \ {h}
  BY SMTT(60), <1>1, <1>3, <1>4, OnceSteps
<1> HIDE DEF h, w
<1>6. WorldTypes' /\ WorldStep /\ Homes' /\ Told' /\ SteelSessionIsKept' /\ (Open' => Open)
  BY <1>1, <1>2, <1>3, <1>4, <1>5, Registering, ShrinkWorld
<1>7. /\ Held(call', c) /\ call'[c].at = "dispose" /\ call'[c].pick = call[c].pick
      /\ (call'[c].cut => ~Open) /\ (Open' <=> Open)
  <2>1. "dispose" \in At
    BY AtTypes DEF Requesting
  <2> QED BY <1>1, <2>1, GoingFields, PickIsFine DEF Go, Open
<1>8. \A d \in Call \ {c} : Rests(d)
  BY <1>7, OthersRest
<1>9. Picked(c)' /\ ~Shows(c)'
  BY <1>6, <1>7, PickIsFine, PlainPick DEF GoesTo, Shows
<1> QED BY <1>6, <1>8, <1>9, FineAgain

LEMMA CloseTabFine ==
  ASSUME ConnectionInv, NEW c \in Call, CloseTab(c)
  PROVE  Fine'
<1> DEFINE t == call[c].arg
           e == <<"gone", t, None>>
<1>1. End(c) /\ UNCHANGED <<client, link, cur, home, steel, faults>>
  BY DEF CloseTab
<1>2. CASE UNCHANGED <<live, events, registry>>
  BY <1>1, <1>2, EndFine DEF browser
<1>3. CASE t \in Pages /\ live' = live \ {t} /\ Removed(t) /\ events' = Append(events, e)
  <2>1. t \in Tab /\ e \in Event /\ home[t] # None /\ WorldTypes
    BY <1>3, Pruned, PickIsFine DEF Event, Pages, Homes
  <2>2. PICK x \in Event : x = e
    BY <2>1
  <2>3. home'[t] # None /\ t \notin live'
    BY <1>1, <1>3, <2>1
  <2>4. x[1] = "gone" /\ x[2] = t
    BY <2>2
  <2>5. TellsTruth(x)'
    BY <2>3, <2>4 DEF TellsTruth
  <2>6. events' \in Seq(Event) /\ \A y \in Range(events') : y \in Range(events) \/ TellsTruth(y)'
    BY <1>3, <2>1, <2>2, <2>5, ToldMore
  <2>7. /\ Without(owned, t) \in Seq(Tab) /\ Injective(Without(owned, t)) /\ Range(Without(owned, t)) = Range(owned) \ {t}
    BY <2>1, RemovedOnce
  <2>8. PICK w \in {None, window} : Registered(Without(owned, t), w, authorized)
    BY <1>3 DEF Removed
  <2> HIDE DEF t
  <2>9. WorldTypes' /\ WorldStep /\ Homes' /\ Told' /\ SteelSessionIsKept' /\ (Open' => Open)
    BY <1>1, <1>3, <2>6, <2>7, <2>8, Registering, ShrinkWorld
  <2> QED BY <1>1, <2>9, EndedFine
<1> QED BY <1>2, <1>3 DEF CloseTab

LEMMA TabGoneFine ==
  ASSUME ConnectionInv, NEW t \in Tab, TabGone(t)
  PROVE  Fine'
<1>1. /\ UNCHANGED <<client, link, cur, registry, home, steel>> /\ call' = call /\ t \in live /\ live' = live \ {t}
      /\ events' = events \/ events' = Append(events, <<"gone", t, None>>)
      /\ faults < MaxFaults /\ faults' = faults + 1
  BY DEF TabGone, Fault
<1>2. WorldTypes /\ Homes
  BY DEF ConnectionInv, Base, ConnTypes, Tabbed
<1>3. <<"gone", t, None>> \in Event /\ TellsTruth(<<"gone", t, None>>)'
  BY <1>1, <1>2 DEF Event, TellsTruth, Homes
<1>4. events' \in Seq(Event) /\ \A y \in Range(events') : y \in Range(events) \/ TellsTruth(y)'
  BY <1>1, <1>2, <1>3, ToldMore
<1>5. Register(owned, window, authorized) /\ owned \in Seq(Tab) /\ Injective(owned)
  BY <1>1, <1>2, Registering DEF WorldTypes
<1>6. WorldTypes' /\ WorldStep /\ Homes' /\ Told' /\ SteelSessionIsKept' /\ (Open' => Open)
  BY <1>1, <1>4, <1>5, ShrinkWorld
<1> QED BY <1>1, <1>6, CallsRest

LEMMA ConsumeFine ==
  ASSUME ConnectionInv, Consume
  PROVE  Fine'
<1> DEFINE e == Head(events)
<1>1. /\ UNCHANGED <<client, link, cur, browser, faults>> /\ call' = call /\ events # <<>> /\ events' = Tail(events)
      /\ \/ e[1] = "gone" /\ Removed(e[2])
         \/ e[1] = "popup" /\ Registered(IF Owns(e[3]) THEN With(owned, e[2]) ELSE owned, window, authorized)
  BY DEF Consume
<1>2. WorldTypes /\ Homes /\ Told
  BY DEF ConnectionInv, Base, ConnTypes, Tabbed
<1>3. events' \in Seq(Event) /\ Range(events') \in SUBSET Range(events) /\ e \in Range(events) /\ e \in Event
  BY <1>1, <1>2, EventSteps
<1>4. e[2] \in Tab /\ TellsTruth(e)
  BY <1>2, <1>3 DEF Event, Told
<1>5. UNCHANGED <<home, steel, live>>
  BY <1>1 DEF browser
<1> HIDE DEF e
<1>6. owned \in Seq(Tab) /\ Injective(owned)
  BY <1>2 DEF WorldTypes
<1>7. CASE e[1] = "gone" /\ Removed(e[2])
  <2>1. /\ Without(owned, e[2]) \in Seq(Tab) /\ Injective(Without(owned, e[2])) /\ Range(Without(owned, e[2])) = Range(owned) \ {e[2]}
    BY <1>4, RemovedOnce
  <2>2. PICK w \in {None, window} : Registered(Without(owned, e[2]), w, authorized)
    BY <1>7 DEF Removed
  <2>3. e[2] \notin live'
    BY <1>4, <1>5, <1>7 DEF TellsTruth
  <2>4. WorldTypes' /\ WorldStep /\ Homes' /\ Told' /\ SteelSessionIsKept' /\ (Open' => Open)
    BY <1>1, <1>3, <1>5, <2>1, <2>2, <2>3, Registering, ShrinkWorld
  <2> QED BY <1>1, <2>4, CallsRest
<1>8. CASE e[1] = "popup" /\ Registered(IF Owns(e[3]) THEN With(owned, e[2]) ELSE owned, window, authorized)
  <2>1. PICK ids \in {owned, With(owned, e[2])} : Registered(ids, window, authorized)
    BY <1>8
  <2>2. /\ With(owned, e[2]) \in Seq(Tab) /\ Injective(With(owned, e[2])) /\ Range(With(owned, e[2])) = Range(owned) \cup {e[2]}
    BY <1>4, <1>6, WithOnce
  <2>3. e[2] \in HarnessTab /\ home[e[2]] # None
    BY <1>4, <1>8 DEF TellsTruth
  <2>4. /\ ids \in Seq(Tab) /\ Injective(ids) /\ Range(owned) \in SUBSET Range(ids)
        /\ \A t \in Range(ids) : t \in Range(owned) \/ (t \in HarnessTab /\ home[t] # None)
    BY <1>6, <2>1, <2>2, <2>3
  <2>5. WorldTypes' /\ WorldStep /\ Homes' /\ Told' /\ SteelSessionIsKept' /\ (Open' => Open)
    BY <1>1, <1>3, <1>5, <2>1, <2>4, Registering, ShrinkWorld
  <2> QED BY <1>1, <2>5, CallsRest
<1> QED BY <1>1, <1>7, <1>8


-----------------------------------------------------------------------------
(* One resource ends and the next begins with nothing; who does it works   *)
(* alone, so that no other call is on its way to a tab.                    *)
LEMMA DisconnectFine ==
  ASSUME ConnectionInv, NEW c \in Call, Disconnect(c)
  PROVE  Fine'
<1>1. Base /\ WorldTypes /\ Homes /\ ControlTypes
  BY DEF ConnectionInv, Base, ConnTypes, Tabbed
<1>2. /\ call[c].at = "dispose" /\ events' = <<>> /\ cur' = NoTab /\ owned' = <<>> /\ window' = None /\ authorized' = {} /\ dropped' = {}
      /\ home' = home
      /\ live' = IF steel'.live THEN live ELSE {t \in live : home[t] # Steel}
      /\ \E s \in {"connecting", "closed"} : link' = [link EXCEPT !.status = s]
      /\ IF call[c].op = "release" THEN End(c) /\ UNCHANGED selected
         ELSE /\ selected' = call[c].arg /\ call' = [call EXCEPT ![c].at = "endpoint", ![c].client = resource + 1, ![c].then = "start"]
  <2>1. /\ call[c].at = "dispose" /\ events' = <<>> /\ cur' = NoTab /\ owned' = <<>> /\ window' = None /\ authorized' = {} /\ dropped' = {}
        /\ home' = home /\ live' = IF steel'.live THEN live ELSE {t \in live : home[t] # Steel}
    BY DEF Disconnect
  <2>2. \E s \in {"connecting", "closed"} : link' = [link EXCEPT !.status = s]
    BY DEF Disconnect
  <2>3. IF call[c].op = "release" THEN End(c) /\ UNCHANGED selected
        ELSE /\ selected' = call[c].arg /\ call' = [call EXCEPT ![c].at = "endpoint", ![c].client = resource + 1, ![c].then = "start"]
    BY DEF Disconnect
  <2> QED BY <2>1, <2>2, <2>3
<1>3. \/ steel' = Released /\ faults' = faults
      \/ steel.known /\ faults < MaxFaults /\ faults' = faults + 1 /\ steel' = [steel EXCEPT !.known = FALSE]
  BY DEF Disconnect, Fault
<1>4. /\ call[c].op \in Exclusive /\ Working(c) /\ (call[c].op = "setup" => call[c].arg \in Provider)
      /\ \A d \in Call \ {c} : ~Working(d)
  <2>1. call[c].op \in Exclusive /\ Working(c) /\ (call[c].op = "setup" => call[c].arg \in Provider)
    BY <1>1, <1>2, InPlace DEF Placed, Working
  <2> QED BY <1>1, <2>1 DEF Base, Control, Ahead
<1>5. steel \in [live : BOOLEAN, known : BOOLEAN] /\ faults \in 0..MaxFaults /\ MaxFaults \in Nat /\ selected \in Provider /\ None \notin Tab
      /\ link \in [status : {"closed", "connecting", "open"}, gen : Nat] /\ live \in SUBSET Tab
  BY <1>1, ConnectionAssumption DEF WorldTypes
<1>6. steel' \in [live : BOOLEAN, known : BOOLEAN] /\ faults' \in 0..MaxFaults
  <2>1. CASE steel' = Released /\ faults' = faults
    <3>1. [live |-> FALSE, known |-> FALSE] \in [live : BOOLEAN, known : BOOLEAN]
      OBVIOUS
    <3>2. steel' = [live |-> FALSE, known |-> FALSE] \/ steel' = steel
      BY <2>1 DEF Released
    <3> QED BY <1>5, <2>1, <3>1, <3>2, Zenon
  <2>2. CASE faults < MaxFaults /\ faults' = faults + 1 /\ steel' = [steel EXCEPT !.known = FALSE]
    <3>1. [steel EXCEPT !.known = FALSE] \in [live : BOOLEAN, known : BOOLEAN]
      BY <1>5
    <3>2. faults' \in 0..MaxFaults
      BY <1>5, <2>2
    <3> QED BY <2>2, <3>1, <3>2, Zenon
  <2> QED BY <1>3, <2>1, <2>2
<1>7. SteelSessionIsKept'
  <2>1. CASE steel' = Released /\ faults' = faults
    BY <1>5, <2>1 DEF Released, SteelSessionIsKept, ConnectionInv
  <2>2. CASE faults' = faults + 1
    BY <1>5, <2>2 DEF SteelSessionIsKept
  <2> QED BY <1>3, <2>1, <2>2
<1>8. WorldTypes'
  <2>1. link' \in [status : {"closed", "connecting", "open"}, gen : Nat]
    BY <1>2, <1>5
  <2>2. selected' \in Provider
    <3>1. call[c].op = "release" \/ call[c].op = "setup"
      BY <1>4 DEF Exclusive
    <3> QED BY <1>2, <1>4, <1>5, <3>1
  <2>3. live' \in SUBSET Tab
    BY <1>2, <1>5
  <2>4. NoTab \in [tab : Tab \cup {None}, gen : Nat]
    BY <1>1, CurrentIsFine
  <2>5. <<>> \in Seq(Tab) /\ Injective(<<>>) /\ <<>> \in Seq(Event)
    BY DEF Injective
  <2>6. Injective(owned)'
    BY <1>2, <2>5 DEF Injective
  <2> QED BY <1>1, <1>2, <1>6, <2>1, <2>2, <2>3, <2>4, <2>5, <2>6 DEF WorldTypes
<1>9. Homes' /\ Told'
  <2>1. Range(owned') = {} /\ Range(events') = {}
    BY <1>2 DEF Range
  <2>2. None \notin Pages'
    BY <1>5, <1>8 DEF WorldTypes, Pages
  <2>3. live' \in SUBSET live
    BY <1>2
  <2> QED BY <1>1, <1>2, <2>1, <2>2, <2>3 DEF Homes, Told, UserTabsAreNotOwned, Opened, Controlled, NoTab
<1>10. /\ Held(call', c) /\ call'[c].op = call[c].op /\ call'[c].at \in {"done", "endpoint"} /\ call'[c].pick \in {call[c].pick, None}
  <2>1. CASE End(c)
    BY <1>1, <2>1, EndedFields DEF End
  <2>2. CASE call' = [call EXCEPT ![c].at = "endpoint", ![c].client = resource + 1, ![c].then = "start"]
    <3> DEFINE k == resource + 1
               x == [call[c] EXCEPT !.at = "endpoint", !.client = k, !.then = "start"]
    <3>1. "endpoint" \in At /\ k \in Nat
      BY <1>1, AtTypes DEF ControlTypes
    <3>2. call' = [call EXCEPT ![c] = x]
      BY <1>1, <2>2 DEF ControlTypes
    <3> HIDE DEF k
    <3>3. x \in Record /\ x.op = call[c].op /\ x.at = "endpoint" /\ x.pick = call[c].pick
      BY <1>1, <3>1 DEF Record, ControlTypes
    <3> HIDE DEF x
    <3>4. Held(call', c) /\ call'[c] = x
      BY <1>1, <3>2, <3>3 DEF Held, ControlTypes
    <3> QED BY <3>3, <3>4
  <2> QED BY <1>2, <2>1, <2>2
<1>11. \A d \in Call : /\ Picked(d)' /\ (Shows(d)' => Shows(d) /\ call'[d].pick = call[d].pick)
  <2>1. ASSUME NEW d \in Call \ {c}
        PROVE  /\ Picked(d)' /\ (Shows(d)' => Shows(d) /\ call'[d].pick = call[d].pick)
    <3>1. call'[d] = call[d] /\ call[d].at \in {"new", "gate", "done"} /\ Opened(call[d].pick)
      BY <1>4, <1>10, PickIsFine DEF Held, Working, Picked
    <3> QED BY <1>2, <3>1 DEF Picked, Shows, GoesTo, Opened
  <2>2. Picked(c)' /\ ~Shows(c)'
    <3>1. Opened(call[c].pick)
      BY PickIsFine DEF Picked
    <3> QED BY <1>2, <1>4, <1>10, <3>1 DEF Picked, Shows, GoesTo, Opened, Exclusive
  <2> QED BY <2>1, <2>2
<1>12. Apart'
  BY <1>11 DEF ConnectionInv, Tabbed, Apart
<1> QED BY <1>7, <1>8, <1>9, <1>11, <1>12 DEF Fine, Tabbed

-----------------------------------------------------------------------------
(* Every step keeps the invariant.                                         *)
LEMMA StepsFine ==
  ASSUME ConnectionInv, [Next]_vars
  PROVE  Fine'
<1>1. ASSUME NEW c \in Call, Steps(c) \/ Abort(c)
      PROVE  Fine'
  <2>1. CASE \E k \in Kinds[c] : Begin(c, k[1], k[2])
    BY <2>1, BeginFine
  <2>2. CASE Lease(c) \/ Enter(c) \/ Dispose(c) \/ Disconnect(c) \/ SaveFails(c)
    BY <2>2, LeaseFine, EnterFine, DisposeFine, DisconnectFine, SaveFailsFine
  <2>3. CASE Alive(c) \/ Probe(c)
    BY <2>3, QuietFine, ReviveFine
  <2>4. CASE Endpoint(c) \/ Opens(c) \/ DialFails(c)
    BY <2>4, EndpointFine, OpensFine, DialFailsFine
  <2>5. CASE Targets(c) \/ Attach(c) \/ Enabled(c)
    BY <2>5, TargetsFine, AttachFine, SettlesFine, QuietFine
  <2>6. CASE WinTargets(c) \/ Create(c)
    BY <2>6, WinTargetsFine, CreateFine
  <2>7. CASE Given(c)
    <3>1. CASE call[c].at = "refused" /\ ~Opening(c)
      <4>1. AttachFails(c)
        BY <2>7, <3>1 DEF Given
      <4> QED BY <3>1, <4>1, AttachFailsFine
    <3> QED BY <2>7, <3>1, GivenFine
  <2>8. CASE Check(c) \/ Tabs(c) \/ OpenTab(c) \/ Switch(c) \/ Switched(c)
    BY <2>8, CheckFine, TabsFine, OpenTabFine, SwitchFine, SwitchedFine
  <2>9. CASE Handle(c) \/ Listing(c) \/ Act(c) \/ Authorize(c) \/ CloseTab(c) \/ Abort(c)
    BY <2>9, HandleFine, ListingFine, QuietFine, AuthorizeFine, CloseTabFine
  <2> QED BY <1>1, <2>1, <2>2, <2>3, <2>4, <2>5, <2>6, <2>7, <2>8, <2>9 DEF Steps
<1>2. CASE Drop \/ Consume
  BY <1>2, DropFine, ConsumeFine
<1>3. CASE \E t \in Tab : TabGone(t) \/ Popup(t)
  BY <1>3, TabGoneFine, PopupFine
<1>4. CASE UNCHANGED vars
  <2>1. /\ call' = call /\ UNCHANGED <<client, link, events, cur, browser, faults>> /\ Register(owned, window, authorized)
    BY <1>4, Registering DEF vars, client, browser, registry
  <2>2. WorldTypes' /\ WorldStep /\ Homes' /\ Told' /\ SteelSessionIsKept' /\ (Open' => Open)
    BY <2>1, RegistryRests
  <2> QED BY <2>1, <2>2, CallsRest
<1> QED BY <1>1, <1>2, <1>3, <1>4 DEF Next

LEMMA ConnectionStep ==
  ASSUME ConnectionInv, [Next]_vars
  PROVE  ConnectionInv'
<1>1. Base /\ RegistryTypes
  BY RegistryIsTyped DEF ConnectionInv, Base, ConnTypes
<1>2. ControlTypes' /\ Control'
  BY <1>1, StepsControl
<1>3. Fine'
  BY StepsFine
<1> QED BY <1>2, <1>3 DEF Fine, ConnectionInv, Base, ConnTypes

LEMMA ConnectionInit == ASSUME Init PROVE ConnectionInv
<1>1. /\ None \notin Call /\ None \notin Tab /\ None \notin Provider /\ UserTab \in SUBSET Tab /\ MaxFaults \in Nat
      /\ {Steel, Cdp} = Provider /\ UserTab \cap HarnessTab = {}
  BY ConnectionAssumption DEF Provider, Tab
<1>2. \A c \in Call : /\ call[c] = [op |-> "read", arg |-> None, at |-> "new", client |-> 0, cut |-> FALSE, pick |-> None, gen |-> 0, then |-> "lane"]
  BY DEF Init
<1>3. call \in [Call -> Record]
  <2>1. "new" \in At /\ "read" \in Op
    BY DEF At, Op, Parallel
  <2> QED BY <2>1 DEF Init, Record
<1>4. ControlTypes
  <2>1. gate = <<>> /\ lane = <<>> /\ resource = 1 /\ starting = None /\ inFlight = None
    BY DEF Init
  <2> QED BY <1>3, <2>1 DEF ControlTypes
<1>5. WorldTypes
  <2>1. NoTab \in [tab : Tab \cup {None}, gen : Nat] /\ Injective(owned) /\ faults \in 0..MaxFaults
    BY <1>1 DEF Init, NoTab, Injective
  <2> QED BY <1>1, <2>1 DEF Init, WorldTypes
<1>6. Control
  <2>1. \A c \in Call : ~InGate(c) /\ ~InLane(c) /\ ~Working(c) /\ ~Starts(c) /\ ~MakesWindow(c) /\ ~Handles(c)
    BY <1>2 DEF InGate, InLane, Working, Starts, MakesWindow, Handles, StartAt, WindowAt, Exclusive
  <2>2. Queued
    BY <2>1 DEF Init, Queued, Injective, Range
  <2>3. \A c \in Call : Placed(c) /\ Counted(c) /\ Linked(c) /\ Ahead(c)
    BY <1>1, <1>2, <2>1 DEF Init, Placed, Counted, Linked, Ahead, Exclusive
  <2> QED BY <2>2, <2>3 DEF Control
<1>7. Homes /\ Told
  <2>1. Range(owned) = {} /\ Range(events) = {} /\ live = UserTab /\ authorized = {} /\ dropped = {} /\ cur.tab = None /\ window = None
    BY DEF Init, Range, NoTab
  <2>2. \A t \in UserTab : home[t] = Cdp
    BY <1>1 DEF Init
  <2>3. None \notin Pages
    BY <1>1, <2>1 DEF Pages
  <2>4. UserTabsAreNotOwned /\ Opened(cur.tab) /\ Controlled(cur.tab) /\ Opened(window) /\ (window \in Pages => Owns(window))
    BY <2>1, <2>3 DEF UserTabsAreNotOwned, Opened, Controlled
  <2>5. Told
    BY <2>1 DEF Told
  <2> QED BY <1>1, <2>1, <2>2, <2>4, <2>5 DEF Homes
<1>8. Apart /\ \A c \in Call : Picked(c)
  BY <1>2 DEF Apart, Shows, Picked, Opened, GoesTo
<1>9. SteelSessionIsKept
  BY DEF Init, SteelSessionIsKept
<1> QED BY <1>4, <1>5, <1>6, <1>7, <1>8, <1>9 DEF ConnectionInv, Tabbed, Base, ConnTypes


-----------------------------------------------------------------------------
(* What the runs check follows from the invariant.                         *)
LEMMA OnceCount ==
  ASSUME NEW S, NEW s \in Seq(S), Injective(s)
  PROVE  Cardinality(Range(s)) = Len(s)
<1>1. DOMAIN s = 1..Len(s) /\ Len(s) \in Nat /\ \A i \in 1..Len(s) : s[i] \in Range(s)
  BY RangeSeq
<1>2. s \in Bijection(1..Len(s), Range(s))
  <2>1. s \in [1..Len(s) -> Range(s)]
    <3>1. s = [i \in 1..Len(s) |-> s[i]]
      BY <1>1
    <3> QED BY <1>1, <3>1
  <2>2. s \in Injection(1..Len(s), Range(s))
    BY <1>1, <2>1 DEF Injective, Injection, IsInjective
  <2>3. s \in Surjection(1..Len(s), Range(s))
    BY <1>1, <2>1 DEF Range, Surjection
  <2> QED BY <2>2, <2>3 DEF Bijection
<1> QED BY <1>1, <1>2, FS_CountingElements DEF ExistsBijection

LEMMA ControlServes == ASSUME Base PROVE WaitersAreServed
<1>1. /\ gate \in Seq(Call) /\ lane \in Seq(Call) /\ None \notin Call /\ starting \in Call \cup {None} /\ inFlight \in Call \cup {None}
      /\ Queued /\ resource \in Nat \ {0}
  BY ConnectionAssumption DEF Base, ConnTypes, ControlTypes, Control
<1>2. Cardinality(Range(gate)) = Len(gate) /\ Cardinality(Range(lane)) = Len(lane)
  BY <1>1, OnceCount DEF Queued
<1>3. \A c \in Call : (call[c].at = "starting" => starting # None) /\ (call[c].at = "winwait" => inFlight # None)
  BY InPlace DEF Linked
<1>4. starting # None => UnderWay(starting) /\ call[starting].then = "start"
  <2>1. ASSUME starting # None
        PROVE  UnderWay(starting) /\ call[starting].then = "start"
    <3>1. starting \in Call /\ Starts(starting)
      BY <1>1, <2>1, InPlace DEF Linked
    <3> QED BY <3>1 DEF Starts, StartAt, UnderWay, Opening
  <2> QED BY <2>1
<1>5. inFlight # None => call[inFlight].at \in {"wintargets", "create"}
  BY <1>1, InPlace DEF Linked, MakesWindow
<1>6. Range(gate) = {c \in Call : call[c].at = "gate" \/ (call[c].op \in Exclusive /\ call[c].client # 0)}
  <2>1. \A c \in Call : call[c].client # 0 <=> Working(c)
    BY <1>1, InPlace DEF Counted
  <2> QED BY <1>1, <2>1 DEF Queued, InGate
<1>7. {c \in Call : call[c].at = "lane"} \in SUBSET Range(lane) /\ \A c \in Range(lane) : call[c].at \notin {"done", "starting"}
  BY <1>1 DEF Queued, InLane, Handles, WindowAt
<1> QED BY <1>2, <1>3, <1>4, <1>5, <1>6, <1>7 DEF WaitersAreServed

LEMMA ControlLeases == ASSUME Base PROVE LeaseKeepsClient
<1>1. \A c \in Call : call[c].client # 0 => Working(c) /\ call[c].client = resource
  BY InPlace DEF Counted
<1>2. \A c \in Leased : call[c].client = resource
  BY <1>1 DEF Leased
<1>3. \A c, d \in Call : call[c].op \in Exclusive /\ call[c].client # 0 /\ call[d].client # 0 => c = d
  BY <1>1 DEF Base, Control, Ahead
<1> QED BY <1>2, <1>3 DEF LeaseKeepsClient

LEMMA TabbedInv == ASSUME ConnectionInv PROVE Inv
<1>1. WorldTypes /\ ControlTypes /\ Homes /\ Apart /\ SteelSessionIsKept
  BY DEF ConnectionInv, Base, ConnTypes, Tabbed
<1>2. TypeOK
  <2>1. Cardinality(Range(owned)) = Len(owned)
    BY <1>1, OnceCount DEF WorldTypes
  <2> QED BY <1>1, <2>1 DEF TypeOK, WorldTypes, ControlTypes, Record, Event
<1>3. SessionIsControllable /\ UserTabsAreNotOwned
  BY <1>1 DEF Homes, SessionIsControllable, Controlled, Reached, CanControl, Owns
<1>4. NewTabsDiffer
  <2>1. ASSUME NEW c \in Call, NEW d \in Call, c # d, {call[c].op, call[d].op} = {"new"},
               {call[c].at, call[d].at} \subseteq {"switch", "switched", "done"}, call[c].pick # None
        PROVE  call[c].pick # call[d].pick
    <3>1. call[c].op = "new" /\ call[d].op = "new"
      BY <2>1
    <3>2. CASE call[d].pick = None
      BY <2>1, <3>2
    <3>3. CASE call[d].pick # None
      BY <1>1, <2>1, <3>1, <3>3 DEF Apart, Shows
    <3> QED BY <3>2, <3>3
  <2> QED BY <2>1 DEF NewTabsDiffer
<1> QED BY <1>1, <1>2, <1>3, <1>4 DEF Inv

(* Whatever moves the session from the tab of a handler is no handler: who *)
(* holds the lane heads it, and no two calls head it.                      *)
LEMMA SessionMoves ==
  ASSUME [Next]_vars, cur' \notin {cur, NoTab}
  PROVE  \E d \in Call : call[d].at = "attach" \/ call[d].at = "switched"
<1>1. ASSUME NEW c \in Call, Steps(c) \/ Abort(c)
      PROVE  \E d \in Call : call[d].at = "attach" \/ call[d].at = "switched"
  <2>1. CASE Attach(c) \/ Switched(c)
    BY <2>1 DEF Attach, Switched
  <2>2. cur' = cur \/ cur' = NoTab \/ Attach(c) \/ Switched(c)
    <3>1. CASE (\E k \in Kinds[c] : Begin(c, k[1], k[2])) \/ Lease(c) \/ Enter(c) \/ Dispose(c) \/ Disconnect(c) \/ SaveFails(c)
      BY <3>1 DEF Begin, Lease, Enter, Dispose, Disconnect, SaveFails, CloseTo
    <3>2. CASE Alive(c) \/ Probe(c) \/ Endpoint(c) \/ Opens(c) \/ DialFails(c)
      BY <3>2 DEF Alive, Probe, Endpoint, Opens, DialFails, Revive, Close, CloseTo
    <3>3. CASE Targets(c) \/ Enabled(c) \/ WinTargets(c) \/ Create(c) \/ Given(c)
      BY <3>3 DEF Targets, Enabled, WinTargets, Create, Given, AttachFails, Revive, Close, CloseTo
    <3>4. CASE Check(c) \/ Tabs(c) \/ OpenTab(c) \/ Switch(c)
      BY <3>4 DEF Check, Tabs, OpenTab, Switch
    <3>5. CASE Handle(c) \/ Listing(c) \/ Act(c) \/ Authorize(c) \/ CloseTab(c) \/ Abort(c)
      BY <3>5 DEF Handle, Listing, Act, Authorize, CloseTab, Abort
    <3> QED BY <1>1, <3>1, <3>2, <3>3, <3>4, <3>5 DEF Steps
  <2> QED BY <2>1, <2>2
<1>2. CASE Drop \/ Consume
  BY <1>2 DEF Drop, Consume, Close, CloseTo
<1>3. CASE \E t \in Tab : TabGone(t) \/ Popup(t)
  BY <1>3 DEF TabGone, Popup
<1>4. CASE UNCHANGED vars
  BY <1>4 DEF vars
<1> QED BY <1>1, <1>2, <1>3, <1>4 DEF Next


LEMMA HandlersApart ==
  ASSUME Base, NEW c \in Call, call[c].at = "act", call[c].op \notin Parallel, NEW d \in Call, call[d].at = "attach" \/ call[d].at = "switched"
  PROVE  d # c /\ (call[d].at = "attach" \/ (call[d].at = "switched" /\ call[d].then = "lane"))
<1>1. d # c
  OBVIOUS
<1>2. Handles(c) /\ Head(lane) = c
  BY DEF Handles, Base, Control, Ahead
<1>3. CASE call[d].at = "switched"
  <2>1. call[d].then \in {"lane", "handler"}
    BY <1>3, InPlace DEF Placed
  <2>2. call[d].then # "handler"
    BY <1>1, <1>2, <1>3 DEF Handles, WindowAt, Base, Control, Ahead
  <2> QED BY <1>1, <1>3, <2>1, <2>2
<1> QED BY <1>1, <1>3

-----------------------------------------------------------------------------
(* The invariant of the connection: who holds the gate, the lane, the      *)
(* start and the window, and what is known of every tab, through calls,    *)
(* drops, reconnections and changes of resource.                           *)
THEOREM ConnectionInvariant == Spec => []ConnectionInv
<1>1. Init => ConnectionInv
  BY ConnectionInit
<1>2. ConnectionInv /\ [Next]_vars => ConnectionInv'
  BY ConnectionStep
<1> QED BY <1>1, <1>2, PTL DEF Spec

(* For any calls, tabs and faults: the types hold, the session rests on no *)
(* page it may not control but one that a listing without chrome:// pages  *)
(* dropped, the harness owns no tab of the user's, no two new tabs are one,*)
(* and a live Steel session is known unless something failed (Inv of the   *)
(* run).                                                                   *)
THEOREM TabsStayWithTheirOwners == Spec => []Inv
BY TabbedInv, ConnectionInvariant, PTL

(* A tool keeps the browser it leased: the resource is replaced only by an *)
(* exclusive call that is alone to have one.                               *)
THEOREM LeasesKeepTheirClient == Spec => []LeaseKeepsClient
<1>1. ConnectionInv => LeaseKeepsClient
  BY ControlLeases DEF ConnectionInv
<1> QED BY <1>1, ConnectionInvariant, PTL

(* Who waits for a start, a window, the gate or the lane waits for a call  *)
(* that is under way and not for one that waits for it: no waiter is left  *)
(* behind by a start that failed or a connection that dropped.             *)
THEOREM WaitersHaveAServer == Spec => []WaitersAreServed
<1>1. ConnectionInv => WaitersAreServed
  BY ControlServes DEF ConnectionInv
<1> QED BY <1>1, ConnectionInvariant, PTL

(* While a handler has the lane no other handler moves the session from    *)
(* its tab.                                                                *)
THEOREM HandlersKeepTheirTab == Spec => HandlersDoNotMix
<1> DEFINE MovedByOther(c) ==
      (call[c].at = "act" /\ call[c].op \notin Parallel /\ cur = [tab |-> call[c].pick, gen |-> call[c].gen] /\ cur' \notin {cur, NoTab})
        => \E d \in Call \ {c} : call[d].at = "attach" \/ (call[d].at = "switched" /\ call[d].then = "lane")
           OthersMove == \A c \in Call : MovedByOther(c)
<1>1. ConnectionInv /\ [Next]_vars => OthersMove
  <2> SUFFICES ASSUME ConnectionInv, [Next]_vars, NEW c \in Call,
                      call[c].at = "act", call[c].op \notin Parallel, cur' \notin {cur, NoTab}
               PROVE  \E d \in Call \ {c} : call[d].at = "attach" \/ (call[d].at = "switched" /\ call[d].then = "lane")
    OBVIOUS
  <2>1. PICK d \in Call : call[d].at = "attach" \/ call[d].at = "switched"
    BY SessionMoves
  <2> QED BY <2>1, HandlersApart DEF ConnectionInv
<1>2. ConnectionInv /\ [Next]_vars => [OthersMove]_vars
  BY <1>1
<1>3. HandlersDoNotMix <=> [][OthersMove]_vars
  BY DEF HandlersDoNotMix
<1> HIDE DEF OthersMove
<1> QED BY <1>2, <1>3, ConnectionInvariant, PTL DEF Spec
=============================================================================
