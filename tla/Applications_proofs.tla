--------------------------- MODULE Applications_proofs ---------------------------
(***************************************************************************)
(* Theorems about Applications, for any calls, identities, profiles,       *)
(* prefixes, mappings and named ids, and any number of midnights, reloads, *)
(* crashes and changes by hand.                                            *)
(***************************************************************************)
EXTENDS Applications, SequenceTheorems, FiniteSetTheorems, WellFoundedInduction, TLAPS

(* A call whose route is resolved has that of its identity, and one that   *)
(* joined a queue the key of its runtime, route and type.                  *)
Early == {"new", "inbound", "buffered", "merged"}
InSection == {"list", "write", "record"}
Dispatched == {"queued", "handoff", "prompt", "prompting"} \cup InSection
Waiting == {"new", "inbound", "buffered"}

Routed ==
  \A c \in Call :
    /\ call[c].route # NoId => call[c].route = Mapping[call[c].identity]
    /\ call[c].at \notin {"new", "inbound"} \cup Ended => call[c].route # NoId
    /\ call[c].at = "new" => call[c].route = NoId
Keyed ==
  \A c \in Call :
    /\ call[c].at \in Dispatched => call[c].key # NoKey
    /\ call[c].at \in Early => call[c].key = NoKey
    /\ call[c].key # NoKey =>
         /\ call[c].key \in Key
         /\ call[c].key.runtime = call[c].runtime /\ call[c].key.route = call[c].route
         /\ call[c].key.of[1] = "stateless" <=> TypeOf(c) = "stateless"

(* A buffer holds the calls that are buffered, each once, and has a timer. *)
Once(s) == \A m, n \in DOMAIN s : s[m] = s[n] => m = n
Buffers ==
  /\ \A g \in Runtime, i \in Identity : Once(buffer[g][i].entries)
  /\ \A c \in Call, g \in Runtime, i \in Identity :
       c \in Range(buffer[g][i].entries) <=> (call[c].at = "buffered" /\ call[c].runtime = g /\ call[c].identity = i)
Timed ==
  \A g \in Runtime, i \in Identity : buffer[g][i].entries # <<>> =>
    \E n \in DOMAIN timers[g] : timers[g][n] = [identity |-> i, version |-> buffer[g][i].version]

(* Each call is dispatched by one leader, and sent only by a leader that   *)
(* prompts or has prompted.                                                *)
Entries ==
  /\ \A c, d, e \in Call : c \in EntriesOf(d) /\ c \in EntriesOf(e) => d = e
  /\ \A d \in Call : EntriesOf(d) # {} => d \in EntriesOf(d)
  /\ \A d \in Call : call[d].at \in Dispatched => d \in EntriesOf(d)
  /\ \A d \in Call : call[d].at \in Waiting => EntriesOf(d) = {} /\ call[d].sent = 0 /\ \A e \in Call : d \notin EntriesOf(e)
  /\ \A c, d \in Call : c \in EntriesOf(d) => call[c].route = call[d].route /\ call[d].route # NoId /\ call[d].key # NoKey
  /\ \A c, d \in Call : c \in EntriesOf(d) /\ call[d].at \in Dispatched \ {"prompting"} => call[c].sent = 0
  /\ \A c \in Call : call[c].sent <= 1
(* Only messages are merged.                                               *)
Alone ==
  \A c \in Call : /\ call[c].at = "buffered" => call[c].op = "message"
                  /\ call[c].op # "message" => EntriesOf(c) \subseteq {c}
Merged == \A c \in Call : call[c].at = "merged" => \E d \in Call : c \in EntriesOf(d) /\ call[d].at \notin Ended

(* The calls of a queue hold it from their key to the end of their         *)
(* section, and only the first of a key is past it.                        *)
Holds(c) == call[c].at \in {"queued"} \cup InSection \/ (call[c].at = "handoff" /\ call[c].op = "rollover")
Queues ==
  /\ \A g \in Runtime : Once(queue[g])
  /\ \A g \in Runtime, c \in Call : c \in Range(queue[g]) <=> (Holds(c) /\ call[c].runtime = g)
  /\ \A g \in Runtime : \A m, n \in DOMAIN queue[g] :
       (m < n /\ call[queue[g][n]].at # "queued") => call[queue[g][m]].key # call[queue[g][n]].key

(* A call has no id before its section, unless it brought one; what is     *)
(* merged into another never gets one.                                     *)
Fresh ==
  /\ \A c \in Call : /\ call[c].at \in Early \cup {"queued"} /\ call[c].op # "named" => call[c].id = NoId
                     /\ call[c].op = "named" => call[c].id \in Id
  /\ \A c, d \in Call : d \in EntriesOf(c) /\ d # c => call[d].id = NoId

(* An id made up for a prefix and a day has a sequence number that the     *)
(* rows have reached or will reach next.  Every row is of a call, and a    *)
(* call that did not bring its id made up that of its row.                 *)
Reached(id) == id.seq = 1 \/ \E x \in rows : x.route.prefix = id.prefix /\ x.day = id.day /\ x.seq >= id.seq - 1
IdentifiedAt(c) ==
  call[c].at \in InSection /\ call[c].op # "named" =>
    /\ call[c].id \in MadeUp
    /\ call[c].id.prefix = call[c].route.prefix /\ call[c].id.day <= day
    /\ Reached(call[c].id)
Numbers(x) ==
  /\ x.id \in MadeUp /\ x.id.prefix = x.route.prefix /\ x.id.day <= x.day
  /\ x.id.day = x.day => x.id.seq <= x.seq
RowAt(x) ==
  /\ x.day <= day
  /\ \E d \in Call : /\ call[d].key # NoKey /\ call[d].key.route = x.route /\ TypeOf(d) = x.type
                     /\ call[d].id = x.id /\ (call[d].op = "named" \/ Numbers(x))
Numbered == IsFiniteSet(rows) /\ \A x \in rows : RowAt(x)

(* What a call is about to record has its file, or had it; a file that     *)
(* appears under it is from another queue, or made by hand.                *)
FiledAt(c) ==
  call[c].at = "record" /\ TypeOf(c) = "stateful" =>
    call[c].id \in file[call[c].route.profile] \cup deleted[call[c].route.profile]
ElsewhereKeyed(c) ==
  \/ call[c].id \in created[call[c].route.profile]
  \/ \E d \in Call : call[d].id = call[c].id /\ call[d].key \notin {NoKey, call[c].key}
ContendedAt(c) == (call[c].at = "write" /\ call[c].id \in file[call[c].route.profile]) => ElsewhereKeyed(c)

(* A call that creates a session because its route had none, while the     *)
(* route has one, has been overtaken by another queue.                     *)
Overtaken(c) ==
  \E d \in Call : call[d].key # NoKey /\ call[d].key.route = call[c].route /\ TypeOf(d) = TypeOf(c) /\ call[d].key # call[c].key
DividedAt(c) ==
  (call[c].at \in InSection /\ call[c].op \in {"message", "direct", "stateless"}
     /\ current[call[c].route][TypeOf(c)] # NoId) => Overtaken(c)
ConflictAt(c) == call[c].at = "conflict" /\ call[c].id # NoId => call[c].route # NoId /\ ElsewhereKeyed(c)

Sections == \A c \in Call : IdentifiedAt(c) /\ FiledAt(c) /\ ContendedAt(c) /\ DividedAt(c) /\ ConflictAt(c)

ApplicationInv ==
  /\ TypeOK /\ Routed /\ Keyed /\ Buffers /\ Timed /\ Entries /\ Alone /\ Merged /\ Queues
  /\ Fresh /\ Numbered /\ Sections /\ CurrentExists
-----------------------------------------------------------------------------
(* Sequences whose members occur once.                                     *)
LEMMA OnceAppend ==
  ASSUME NEW S, NEW s \in Seq(S), NEW e \in S, Once(s), e \notin Range(s)
  PROVE  /\ Append(s, e) \in Seq(S) /\ Once(Append(s, e))
         /\ Range(Append(s, e)) = Range(s) \cup {e}
<1> DEFINE t == Append(s, e)
<1>1. /\ t \in Seq(S) /\ Len(t) = Len(s) + 1
      /\ \A i \in 1..Len(s) : t[i] = s[i]
      /\ t[Len(s) + 1] = e
  BY AppendProperties
<1>2. DOMAIN s = 1..Len(s) /\ DOMAIN t = 1..Len(s) + 1 /\ Len(s) \in Nat
  BY <1>1
<1> HIDE DEF t
<1>3. Range(t) = Range(s) \cup {e}
  BY <1>1, <1>2 DEF Range
<1>4. ASSUME NEW m \in DOMAIN t, NEW n \in DOMAIN t, t[m] = t[n]
      PROVE  m = n
  <2>1. ASSUME NEW k \in 1..Len(s) PROVE s[k] # e
    BY <1>2 DEF Range
  <2>2. m \in 1..Len(s) \/ m = Len(s) + 1
    BY <1>2
  <2>3. n \in 1..Len(s) \/ n = Len(s) + 1
    BY <1>2
  <2> QED BY <1>1, <1>2, <1>4, <2>1, <2>2, <2>3 DEF Once
<1> QED BY <1>1, <1>3, <1>4 DEF Once, t

LEMMA RemoveAtEffect ==
  ASSUME NEW S, NEW s \in Seq(S), NEW n \in DOMAIN s
  PROVE  /\ RemoveAt(s, n) \in Seq(S) /\ Len(RemoveAt(s, n)) = Len(s) - 1
         /\ \A i \in 1..Len(s) - 1 : RemoveAt(s, n)[i] = IF i < n THEN s[i] ELSE s[i + 1]
<1>1. Len(s) \in Nat /\ n \in 1..Len(s)
  OBVIOUS
<1> DEFINE a == SubSeq(s, 1, n - 1)
<1> DEFINE b == SubSeq(s, n + 1, Len(s))
<1>2. /\ a \in Seq(S) /\ Len(a) = n - 1
      /\ \A i \in 1..n - 1 : a[i] = s[i]
  <2>1. \A i \in 1..n - 1 : s[i] \in S
    BY <1>1
  <2>2. /\ SubSeq(s, 1, n - 1) \in Seq(S)
        /\ Len(SubSeq(s, 1, n - 1)) = IF 1 <= n - 1 THEN n - 1 - 1 + 1 ELSE 0
        /\ \A i \in 1..(n - 1 - 1 + 1) : SubSeq(s, 1, n - 1)[i] = s[1 + i - 1]
    BY <1>1, <2>1, SubSeqProperties
  <2> QED BY <1>1, <2>2
<1>3. /\ b \in Seq(S) /\ Len(b) = Len(s) - n
      /\ \A i \in 1..Len(s) - n : b[i] = s[n + i]
  <2>1. \A i \in n + 1..Len(s) : s[i] \in S
    BY <1>1
  <2>2. /\ SubSeq(s, n + 1, Len(s)) \in Seq(S)
        /\ Len(SubSeq(s, n + 1, Len(s))) = IF n + 1 <= Len(s) THEN Len(s) - (n + 1) + 1 ELSE 0
        /\ \A i \in 1..(Len(s) - (n + 1) + 1) : SubSeq(s, n + 1, Len(s))[i] = s[n + 1 + i - 1]
    BY <1>1, <2>1, SubSeqProperties
  <2> QED BY <1>1, <2>2
<1>4. RemoveAt(s, n) = a \o b
  BY DEF RemoveAt
<1> HIDE DEF a, b
<1>5. /\ a \o b \in Seq(S) /\ Len(a \o b) = Len(a) + Len(b)
      /\ \A i \in 1..Len(a) + Len(b) : (a \o b)[i] = IF i <= Len(a) THEN a[i] ELSE b[i - Len(a)]
  BY <1>2, <1>3, ConcatProperties
<1>6. Len(a) + Len(b) = Len(s) - 1
  BY <1>1, <1>2, <1>3
<1>7. ASSUME NEW i \in 1..Len(s) - 1
      PROVE  (a \o b)[i] = IF i < n THEN s[i] ELSE s[i + 1]
  <2>1. (a \o b)[i] = IF i <= Len(a) THEN a[i] ELSE b[i - Len(a)]
    BY <1>5, <1>6
  <2>2. CASE i < n
    <3>1. i <= Len(a) /\ i \in 1..n - 1
      BY <1>1, <1>2, <2>2
    <3> QED BY <1>2, <2>1, <2>2, <3>1
  <2>3. CASE ~(i < n)
    <3>1. ~(i <= Len(a)) /\ i - Len(a) \in 1..Len(s) - n /\ n + (i - Len(a)) = i + 1
      BY <1>1, <1>2, <2>3
    <3>2. b[i - Len(a)] = s[i + 1]
      BY <1>3, <3>1
    <3> QED BY <2>1, <2>3, <3>1, <3>2
  <2> QED BY <2>2, <2>3
<1> QED BY <1>4, <1>5, <1>6, <1>7

LEMMA RemoveAtKeeps ==
  ASSUME NEW S, NEW s \in Seq(S), NEW n \in DOMAIN s, NEW m \in DOMAIN s, m # n
  PROVE  \E k \in DOMAIN RemoveAt(s, n) : RemoveAt(s, n)[k] = s[m]
<1> DEFINE t == RemoveAt(s, n)
<1>1. /\ t \in Seq(S) /\ Len(t) = Len(s) - 1
      /\ \A i \in 1..Len(s) - 1 : t[i] = IF i < n THEN s[i] ELSE s[i + 1]
  BY RemoveAtEffect
<1>2. Len(s) \in Nat /\ n \in 1..Len(s) /\ m \in 1..Len(s) /\ DOMAIN t = 1..Len(s) - 1
  BY <1>1
<1> HIDE DEF t
<1>3. CASE m < n
  <2>1. m \in DOMAIN t /\ t[m] = s[m]
    BY <1>1, <1>2, <1>3
  <2> QED BY <2>1 DEF t
<1>4. CASE m > n
  <2>1. m - 1 \in DOMAIN t /\ t[m - 1] = s[m]
    BY <1>1, <1>2, <1>4
  <2> QED BY <2>1 DEF t
<1> QED BY <1>2, <1>3, <1>4

LEMMA RemoveAtOnce ==
  ASSUME NEW S, NEW s \in Seq(S), NEW n \in DOMAIN s, Once(s)
  PROVE  /\ Once(RemoveAt(s, n))
         /\ Range(RemoveAt(s, n)) = Range(s) \ {s[n]}
<1> DEFINE t == RemoveAt(s, n)
<1>1. /\ t \in Seq(S) /\ Len(t) = Len(s) - 1
      /\ \A i \in 1..Len(s) - 1 : t[i] = IF i < n THEN s[i] ELSE s[i + 1]
  BY RemoveAtEffect
<1>2. /\ Len(s) \in Nat /\ n \in 1..Len(s)
      /\ DOMAIN s = 1..Len(s) /\ DOMAIN t = 1..Len(s) - 1
  BY <1>1
<1>5. ASSUME NEW m \in DOMAIN s, m # n
      PROVE  s[m] \in Range(t)
  BY <1>5, RemoveAtKeeps DEF Range
<1> HIDE DEF t
<1>3. ASSUME NEW i \in DOMAIN t
      PROVE  \E k \in DOMAIN s : k # n /\ t[i] = s[k] /\ k = IF i < n THEN i ELSE i + 1
  BY <1>1, <1>2
<1>4. ASSUME NEW i \in DOMAIN t, NEW j \in DOMAIN t, t[i] = t[j]
      PROVE  i = j
  BY <1>2, <1>3, <1>4 DEF Once
<1>6. Range(t) = Range(s) \ {s[n]}
  BY <1>3, <1>5 DEF Range, Once
<1> QED BY <1>4, <1>6 DEF Once, t

-----------------------------------------------------------------------------
(* A finite set of naturals has a maximum: take a smallest one that has    *)
(* none, and drop a member.                                                *)
LEMMA NatHasLeast ==
  ASSUME NEW T \in SUBSET Nat, T # {}
  PROVE  \E t \in T : \A u \in T : t <= u
<1>1. \E t \in T : \A u \in T : ~(<<u, t>> \in OpToRel(<, Nat))
  BY NatLessThanWellFounded, WFMin, Zenon
<1>2. PICK t \in T : \A u \in T : ~(<<u, t>> \in OpToRel(<, Nat))
  BY <1>1
<1>3. ASSUME NEW u \in T
      PROVE  t <= u
  <2>1. t \in Nat /\ u \in Nat
    OBVIOUS
  <2>2. u < t => <<u, t>> \in OpToRel(<, Nat)
    BY <2>1 DEF OpToRel
  <2>3. ~(<<u, t>> \in OpToRel(<, Nat))
    BY <1>2
  <2>4. ~(u < t)
    BY <2>2, <2>3, Zenon
  <2> QED BY <2>1, <2>4
<1> QED BY <1>3

LEMMA FiniteHasMax ==
  ASSUME NEW S \in SUBSET Nat, IsFiniteSet(S), S # {}
  PROVE  Max(S) \in S /\ \A n \in S : n <= Max(S)
<1> DEFINE Has(A) == \E m \in A : \A n \in A : m >= n
<1> DEFINE Lacks(A) == IsFiniteSet(A) /\ A # {} /\ ~Has(A)
<1> DEFINE bad == {k \in Nat : \E A \in SUBSET Nat : Lacks(A) /\ Cardinality(A) = k}
<1>1. bad = {}
  <2> SUFFICES ASSUME bad # {} PROVE FALSE
    OBVIOUS
  <2>1. PICK k \in bad : \A l \in bad : k <= l
    BY NatHasLeast
  <2>2. PICK A \in SUBSET Nat : Lacks(A) /\ Cardinality(A) = k
    OBVIOUS
  <2>3. PICK a \in A : TRUE
    BY <2>2
  <2> DEFINE B == A \ {a}
  <2>4. IsFiniteSet(B) /\ Cardinality(B) = k - 1 /\ k \in Nat
    BY <2>2, FS_RemoveElement, FS_CardinalityType
  <2>5. B # {}
    <3> SUFFICES ASSUME B = {} PROVE FALSE
      OBVIOUS
    <3>1. A = {a}
      BY <2>3
    <3> QED BY <2>2, <3>1
  <2>6. Has(B)
    <3> SUFFICES ASSUME ~Has(B) PROVE FALSE
      OBVIOUS
    <3>1. Cardinality(B) \in Nat
      BY <2>4, FS_CardinalityType
    <3>2. k - 1 \in bad
      <4> HIDE DEF Has, B
      <4>1. B \in SUBSET Nat
        BY DEF B
      <4> QED BY <2>4, <2>5, <3>1, <4>1
    <3> HIDE DEF bad
    <3> QED BY <2>1, <2>4, <3>2
  <2>7. PICK b \in B : \A n \in B : b >= n
    BY <2>6
  <2>8. a \in Nat /\ b \in Nat /\ b \in A
    BY <2>3, <2>7
  <2>9. CASE a >= b
    <3>1. \A n \in A : a >= n
      BY <2>7, <2>8, <2>9
    <3> QED BY <2>2, <2>3, <3>1
  <2>10. CASE b >= a
    <3>1. \A n \in A : b >= n
      BY <2>7, <2>8, <2>10
    <3> QED BY <2>2, <2>8, <3>1
  <2> QED BY <2>8, <2>9, <2>10
<1>2. Has(S)
  <2> SUFFICES ASSUME ~Has(S) PROVE FALSE
    OBVIOUS
  <2>1. Cardinality(S) \in Nat
    BY FS_CardinalityType
  <2> HIDE DEF Has
  <2> QED BY <1>1, <2>1
<1> QED BY <1>2 DEF Max

-----------------------------------------------------------------------------
(* The records of the variables' types, and the numbers of the store.      *)
CallRec == [op : Op, identity : Identity, runtime : Runtime, route : Route \cup {NoId}, at : At,
            key : Key \cup {NoKey}, id : Id \cup {NoId}, entries : Seq(Call), sent : Nat]
RowRec == [id : Id, route : Route, type : Type, day : Days, seq : Nat \ {0}]
TimerRec == [identity : Identity, version : Nat]
BufferRec == [version : Nat, entries : Seq(Call)]

LEMMA Types ==
  ASSUME TypeOK
  PROVE  /\ call \in [Call -> CallRec]
         /\ buffer \in [Runtime -> [Identity -> BufferRec]]
         /\ timers \in [Runtime -> Seq(TimerRec)]
         /\ queue \in [Runtime -> Seq(Call)]
         /\ rows \in SUBSET RowRec
BY DEF TypeOK, CallRec, BufferRec, TimerRec, RowRec

LEMMA CallParts ==
  ASSUME TypeOK, NEW c \in Call
  PROVE  /\ call[c].op \in Op /\ call[c].identity \in Identity /\ call[c].runtime \in Runtime
         /\ call[c].route \in Route \cup {NoId} /\ call[c].at \in At /\ call[c].key \in Key \cup {NoKey}
         /\ call[c].id \in Id \cup {NoId} /\ call[c].entries \in Seq(Call) /\ call[c].sent \in Nat
         /\ EntriesOf(c) \in SUBSET Call /\ TypeOf(c) \in Type
<1>1. call[c] \in CallRec
  BY Types
<1>2. call[c].entries \in Seq(Call)
  BY <1>1 DEF CallRec
<1>3. EntriesOf(c) \in SUBSET Call
  BY <1>2, RangeOfSeq DEF EntriesOf
<1> QED BY <1>1, <1>3 DEF CallRec, TypeOf, Type

LEMMA SequenceBounds ==
  ASSUME TypeOK, IsFiniteSet(rows), NEW r \in Route, NEW d \in Days
  PROVE  /\ Sequence(r, d) \in Nat \ {0}
         /\ \A x \in rows : x.route.prefix = r.prefix /\ x.day = d => x.seq < Sequence(r, d)
         /\ Sequence(r, d) = 1 \/ \E x \in rows : x.route.prefix = r.prefix /\ x.day = d /\ x.seq = Sequence(r, d) - 1
<1> DEFINE mine == {y \in rows : y.route.prefix = r.prefix /\ y.day = d}
<1> DEFINE seqs == {x.seq : x \in mine}
<1> DEFINE all == {0} \cup seqs
<1>1. \A x \in rows : x.seq \in Nat \ {0}
  BY Types DEF RowRec
<1>2. IsFiniteSet(mine)
  BY FS_Subset, mine \in SUBSET rows
<1>3. IsFiniteSet(seqs)
  <2> DEFINE f == [x \in mine |-> x.seq]
  <2>1. f \in Surjection(mine, seqs)
    BY DEF Surjection
  <2> HIDE DEF f, mine, seqs
  <2> QED BY <1>2, <2>1, FS_Surjection
<1>4. IsFiniteSet(all) /\ all # {} /\ all \in SUBSET Nat
  <2>1. all = seqs \cup {0}
    OBVIOUS
  <2>2. seqs \in SUBSET Nat
    BY <1>1
  <2> HIDE DEF seqs
  <2>3. IsFiniteSet(seqs \cup {0})
    BY <1>3, FS_AddElement
  <2> QED BY <2>1, <2>2, <2>3
<1>5. Max(all) \in all /\ \A n \in all : n <= Max(all)
  <2> HIDE DEF all
  <2> QED BY <1>4, FiniteHasMax
<1>6. Sequence(r, d) = 1 + Max(all)
  BY DEF Sequence
<1> DEFINE top == Max(all)
<1>7. top \in Nat /\ (top = 0 \/ \E x \in mine : top = x.seq) /\ \A x \in mine : x.seq <= top
  <2> HIDE DEF mine
  <2> QED BY <1>4, <1>5
<1> HIDE DEF top
<1>8. Sequence(r, d) = 1 + top
  BY <1>6 DEF top
<1> QED BY <1>1, <1>7, <1>8

-----------------------------------------------------------------------------
(* What the actions make of the calls.                                     *)
Static(d) ==
  /\ call'[d].op = call[d].op /\ call'[d].identity = call[d].identity /\ call'[d].runtime = call[d].runtime
  /\ call'[d].route = call[d].route /\ call'[d].key = call[d].key /\ call'[d].entries = call[d].entries
Kept(d) == Static(d) /\ call'[d].id = call[d].id /\ call'[d].sent = call[d].sent

LEMMA SettleEffect ==
  ASSUME TypeOK, NEW c \in Call, NEW a \in At, Settle(c, a)
  PROVE  /\ call' \in [Call -> CallRec]
         /\ \A d \in Call : Kept(d) /\ call'[d].at = IF d \in EntriesOf(c) \cup {c} THEN a ELSE call[d].at
<1>1. call \in [Call -> CallRec]
  BY Types
<1>2. call' = [d \in Call |-> IF d \in EntriesOf(c) \cup {c} THEN [call[d] EXCEPT !.at = a] ELSE call[d]]
  BY DEF Settle, Settled
<1>3. ASSUME NEW d \in Call
      PROVE  call'[d] \in CallRec /\ Kept(d) /\ call'[d].at = IF d \in EntriesOf(c) \cup {c} THEN a ELSE call[d].at
  BY <1>1, <1>2 DEF CallRec, Kept, Static
<1> QED BY <1>2, <1>3

LEMMA GoEffect ==
  ASSUME TypeOK, NEW c \in Call, NEW a \in At, Go(c, a)
  PROVE  /\ call' \in [Call -> CallRec]
         /\ \A d \in Call : Kept(d) /\ call'[d].at = IF d = c THEN a ELSE call[d].at
<1>1. call \in [Call -> CallRec]
  BY Types
<1>2. call' = [call EXCEPT ![c].at = a]
  BY DEF Go
<1>3. ASSUME NEW d \in Call
      PROVE  call'[d] \in CallRec /\ Kept(d) /\ call'[d].at = IF d = c THEN a ELSE call[d].at
  BY <1>1, <1>2 DEF CallRec, Kept, Static
<1> QED BY <1>1, <1>2, <1>3

LEMMA ReceiveEffect ==
  ASSUME TypeOK, NEW c \in Call, NEW op \in Op, NEW i \in Identity, NEW id \in Id \cup {NoId}, Receive(c, op, i, id)
  PROVE  /\ call' \in [Call -> CallRec]
         /\ \A d \in Call \ {c} : Kept(d) /\ call'[d].at = call[d].at
         /\ call'[c].op = op /\ call'[c].identity = i /\ call'[c].runtime = reloads /\ call'[c].at = "inbound"
         /\ call'[c].route = call[c].route /\ call'[c].key = call[c].key /\ call'[c].entries = call[c].entries
         /\ call'[c].id = id /\ call'[c].sent = call[c].sent
<1>1. call \in [Call -> CallRec] /\ reloads \in Runtime /\ "inbound" \in At
  BY Types DEF TypeOK, At
<1>2. call' = [call EXCEPT ![c].op = op, ![c].identity = i, ![c].id = id, ![c].runtime = reloads, ![c].at = "inbound"]
  BY DEF Receive
<1> DEFINE r == [call[c] EXCEPT !.op = op, !.identity = i, !.id = id, !.runtime = reloads, !.at = "inbound"]
<1>3. call' = [call EXCEPT ![c] = r]
  BY <1>1, <1>2
<1>4. call[c] \in CallRec
  BY <1>1
<1>5. r \in CallRec /\ r.op = op /\ r.identity = i /\ r.runtime = reloads /\ r.at = "inbound"
      /\ r.route = call[c].route /\ r.key = call[c].key /\ r.entries = call[c].entries /\ r.id = id /\ r.sent = call[c].sent
  BY <1>1, <1>4 DEF CallRec
<1> HIDE DEF r
<1>6. call'[c] = r /\ \A d \in Call \ {c} : call'[d] = call[d]
  BY <1>1, <1>3
<1>7. call' \in [Call -> CallRec]
  BY <1>1, <1>3, <1>5
<1> QED BY <1>5, <1>6, <1>7 DEF Kept, Static

(* Collect is one of three: the call is ignored, buffered or queued.       *)
Ignores(c) == Go(c, "ignored") /\ UNCHANGED <<buffer, timers, queue>>
IsBuffered(c) ==
  LET g == call[c].runtime
      i == call[c].identity
      b == buffer[g][i]
  IN /\ Mapping[i] # Ignored /\ call[c].op = "message"
     /\ buffer' = [buffer EXCEPT ![g][i] = [version |-> b.version + 1, entries |-> Append(b.entries, c)]]
     /\ timers' = [timers EXCEPT ![g] = Append(@, [identity |-> i, version |-> b.version + 1])]
     /\ call' = [call EXCEPT ![c].route = Mapping[i], ![c].at = "buffered"]
     /\ UNCHANGED queue
IsQueued(c) ==
  LET r == Mapping[call[c].identity]
  IN /\ r # Ignored
     /\ call' = [call EXCEPT ![c].route = r, ![c].at = "queued", ![c].entries = <<c>>, ![c].key = KeyOf(c, r)]
     /\ queue' = Joined(c)
     /\ UNCHANGED <<buffer, timers>>

LEMMA CollectCases ==
  ASSUME TypeOK, NEW c \in Call, NEW yes \in BOOLEAN, Collect(c, yes)
  PROVE  /\ call[c].at = "inbound" /\ UNCHANGED <<file, rows, current, byHand, bounds>>
         /\ Ignores(c) \/ IsBuffered(c) \/ IsQueued(c)
<1>1. call \in [Call -> CallRec]
  BY Types
<1> DEFINE i == call[c].identity
<1> DEFINE r == Mapping[i]
<1> DEFINE routed == [call EXCEPT ![c].route = r]
<1>2. [routed EXCEPT ![c].at = "buffered"] = [call EXCEPT ![c].route = r, ![c].at = "buffered"]
  BY <1>1 DEF CallRec
<1>3. [routed EXCEPT ![c].at = "queued", ![c].entries = <<c>>, ![c].key = KeyOf(c, r)]
      = [call EXCEPT ![c].route = r, ![c].at = "queued", ![c].entries = <<c>>, ![c].key = KeyOf(c, r)]
  <2> HIDE DEF r
  <2> QED BY <1>1 DEF CallRec
<1>4. call[c].at = "inbound" /\ UNCHANGED <<file, rows, current, byHand, bounds>>
  BY DEF Collect
<1>5. CASE r = Ignored
  BY <1>5 DEF Collect, Ignores
<1>6. CASE r # Ignored /\ yes /\ call[c].op = "message"
  <2>1. /\ buffer' = [buffer EXCEPT ![call[c].runtime][i] = [version |-> buffer[call[c].runtime][i].version + 1,
                                                            entries |-> Append(buffer[call[c].runtime][i].entries, c)]]
        /\ timers' = [timers EXCEPT ![call[c].runtime] = Append(@, [identity |-> i, version |-> buffer[call[c].runtime][i].version + 1])]
        /\ call' = [routed EXCEPT ![c].at = "buffered"]
        /\ UNCHANGED queue
    BY <1>6 DEF Collect
  <2> QED BY <1>2, <1>4, <1>6, <2>1 DEF IsBuffered
<1>7. CASE r # Ignored /\ ~(yes /\ call[c].op = "message")
  <2>1. /\ call' = [routed EXCEPT ![c].at = "queued", ![c].entries = <<c>>, ![c].key = KeyOf(c, r)]
        /\ queue' = Joined(c)
        /\ UNCHANGED <<buffer, timers>>
    BY <1>7 DEF Collect
  <2> QED BY <1>3, <1>4, <1>7, <2>1 DEF IsQueued
<1> QED BY <1>4, <1>5, <1>6, <1>7

LEMMA RouteOf ==
  ASSUME NEW i \in Identity, Mapping[i] # Ignored
  PROVE  Mapping[i] \in Route
BY ApplicationsAssumption DEF ApplicationsAssumption

LEMMA NoKeyIsNone == NoKey \notin Key /\ \A k \in Key : k.route \in Route /\ k.route # NoId
BY ApplicationsAssumption DEF ApplicationsAssumption, NoKey, Key

LEMMA KeyOfType ==
  ASSUME TypeOK, Fresh, NEW c \in Call, NEW r \in Route
  PROVE  /\ KeyOf(c, r) \in Key /\ KeyOf(c, r) # NoKey
         /\ KeyOf(c, r).runtime = call[c].runtime /\ KeyOf(c, r).route = r
         /\ KeyOf(c, r).of[1] = "stateless" <=> TypeOf(c) = "stateless"
<1> DEFINE of == CASE call[c].op = "stateless" -> <<"stateless", 0>> [] call[c].op = "named" -> <<"named", call[c].id>>
                   [] OTHER -> <<"day", day>>
<1>1. call[c].runtime \in Runtime /\ day \in Days /\ (call[c].op = "named" => call[c].id \in Id)
  BY CallParts DEF TypeOK, Fresh
<1>2. of \in ({"day"} \X Days) \cup ({"stateless"} \X {0}) \cup ({"named"} \X Id)
  BY <1>1
<1>3. of[1] = "stateless" <=> TypeOf(c) = "stateless"
  BY DEF TypeOf
<1>4. KeyOf(c, r) = [runtime |-> call[c].runtime, route |-> r, of |-> of]
  BY DEF KeyOf
<1> HIDE DEF of
<1>5. KeyOf(c, r) \in Key
  BY <1>1, <1>2, <1>4 DEF Key
<1> QED BY <1>3, <1>4, <1>5, NoKeyIsNone

LEMMA IsBufferedEffect ==
  ASSUME TypeOK, NEW c \in Call, IsBuffered(c)
  PROVE  /\ call' \in [Call -> CallRec]
         /\ \A d \in Call \ {c} : Kept(d) /\ call'[d].at = call[d].at
         /\ call'[c].op = call[c].op /\ call'[c].identity = call[c].identity /\ call'[c].runtime = call[c].runtime
         /\ call'[c].route = Mapping[call[c].identity] /\ call'[c].route \in Route /\ call'[c].at = "buffered"
         /\ call'[c].key = call[c].key /\ call'[c].entries = call[c].entries
         /\ call'[c].id = call[c].id /\ call'[c].sent = call[c].sent
<1>1. call \in [Call -> CallRec] /\ call[c] \in CallRec /\ "buffered" \in At
  BY Types DEF At
<1> DEFINE m == Mapping[call[c].identity]
<1>2. m \in Route /\ call' = [call EXCEPT ![c].route = m, ![c].at = "buffered"]
  BY RouteOf, CallParts DEF IsBuffered
<1> HIDE DEF m
<1> DEFINE r == [call[c] EXCEPT !.route = m, !.at = "buffered"]
<1>3. call' = [call EXCEPT ![c] = r]
  BY <1>1, <1>2
<1>5. r \in CallRec /\ r.op = call[c].op /\ r.identity = call[c].identity /\ r.runtime = call[c].runtime /\ r.at = "buffered"
      /\ r.route = m /\ r.key = call[c].key /\ r.entries = call[c].entries /\ r.id = call[c].id /\ r.sent = call[c].sent
  BY <1>1, <1>2 DEF CallRec
<1> HIDE DEF r
<1>6. call'[c] = r /\ \A d \in Call \ {c} : call'[d] = call[d]
  BY <1>1, <1>3
<1>7. call' \in [Call -> CallRec]
  BY <1>1, <1>3, <1>5
<1> QED BY <1>2, <1>5, <1>6, <1>7 DEF Kept, Static, m

LEMMA IsQueuedEffect ==
  ASSUME TypeOK, Fresh, NEW c \in Call, IsQueued(c)
  PROVE  /\ call' \in [Call -> CallRec]
         /\ \A d \in Call \ {c} : Kept(d) /\ call'[d].at = call[d].at
         /\ call'[c].op = call[c].op /\ call'[c].identity = call[c].identity /\ call'[c].runtime = call[c].runtime
         /\ call'[c].route = Mapping[call[c].identity] /\ call'[c].route \in Route /\ call'[c].at = "queued"
         /\ call'[c].key = KeyOf(c, Mapping[call[c].identity]) /\ call'[c].entries = <<c>>
         /\ call'[c].id = call[c].id /\ call'[c].sent = call[c].sent
<1>1. call \in [Call -> CallRec] /\ call[c] \in CallRec /\ "queued" \in At
  BY Types DEF At
<1> DEFINE m == Mapping[call[c].identity]
<1> DEFINE k == KeyOf(c, m)
<1>2. m \in Route /\ call' = [call EXCEPT ![c].route = m, ![c].at = "queued", ![c].entries = <<c>>, ![c].key = k]
  BY RouteOf, CallParts DEF IsQueued
<1>4. k \in Key /\ <<c>> \in Seq(Call)
  BY <1>2, KeyOfType
<1> HIDE DEF m, k
<1> DEFINE r == [call[c] EXCEPT !.route = m, !.at = "queued", !.entries = <<c>>, !.key = k]
<1>3. call' = [call EXCEPT ![c] = r]
  BY <1>1, <1>2
<1>5. r \in CallRec /\ r.op = call[c].op /\ r.identity = call[c].identity /\ r.runtime = call[c].runtime /\ r.at = "queued"
      /\ r.route = m /\ r.key = k /\ r.entries = <<c>> /\ r.id = call[c].id /\ r.sent = call[c].sent
  BY <1>1, <1>2, <1>4 DEF CallRec
<1> HIDE DEF r
<1>6. call'[c] = r /\ \A d \in Call \ {c} : call'[d] = call[d]
  BY <1>1, <1>3
<1>7. call' \in [Call -> CallRec]
  BY <1>1, <1>3, <1>5
<1> QED BY <1>2, <1>5, <1>6, <1>7 DEF Kept, Static, m, k

(* A timer that fires for the version of its buffer dispatches the last    *)
(* call of the buffer.                                                     *)
Buf(g, n) == buffer[g][timers[g][n].identity]
Live(g, n) == Buf(g, n).entries # <<>> /\ Buf(g, n).version = timers[g][n].version

LEMMA FlushCases ==
  ASSUME TypeOK, NEW g \in Runtime, NEW n \in DOMAIN timers[g], Flush(g, n)
  PROVE  /\ timers' = [timers EXCEPT ![g] = RemoveAt(@, n)] /\ UNCHANGED <<file, rows, current, byHand, bounds>>
         /\ timers[g][n].identity \in Identity
         /\ ~Live(g, n) => UNCHANGED <<buffer, call, queue>>
         /\ Live(g, n) => buffer' = Flushed(g, timers[g][n].identity) /\ queue' = Joined(Last(Buf(g, n).entries))
<1>1. timers[g] \in Seq(TimerRec)
  BY Types
<1>2. timers[g][n] \in TimerRec
  BY <1>1
<1>3. timers[g][n].identity \in Identity
  BY <1>2 DEF TimerRec
<1> QED BY <1>3 DEF Flush, Live, Buf

LEMMA BufType ==
  ASSUME TypeOK, NEW g \in Runtime, NEW i \in Identity
  PROVE  /\ buffer[g][i] \in BufferRec /\ buffer[g][i].version \in Nat /\ buffer[g][i].entries \in Seq(Call)
         /\ Range(buffer[g][i].entries) \in SUBSET Call
         /\ buffer[g][i].entries # <<>> => Last(buffer[g][i].entries) \in Range(buffer[g][i].entries)
         /\ buffer[g][i].entries = <<>> <=> Range(buffer[g][i].entries) = {}
<1>1. buffer[g][i] \in BufferRec
  BY Types
<1>2. buffer[g][i].version \in Nat /\ buffer[g][i].entries \in Seq(Call)
  BY <1>1 DEF BufferRec
<1> DEFINE s == buffer[g][i].entries
<1> HIDE DEF s
<1>3. s \in Seq(Call)
  BY <1>2 DEF s
<1>4. Range(s) \in SUBSET Call
  BY <1>3, RangeOfSeq
<1>5. ASSUME s # <<>> PROVE Len(s) \in DOMAIN s
  BY <1>3, <1>5
<1>6. s # <<>> => Last(s) \in Range(s)
  BY <1>5 DEF Last, Range
<1>7. s = <<>> => Range(s) = {}
  BY DEF Range
<1> QED BY <1>1, <1>2, <1>4, <1>6, <1>7 DEF s

LEMMA FlushEffect ==
  ASSUME TypeOK, Fresh, Routed, Buffers, NEW g \in Runtime, NEW n \in DOMAIN timers[g], Flush(g, n), Live(g, n),
         NEW s, s = Buf(g, n).entries, NEW l, l = Last(s)
  PROVE  /\ call' \in [Call -> CallRec]
         /\ s \in Seq(Call) /\ l \in Call /\ l \in Range(s) /\ call[l].route \in Route
         /\ \A d \in Call : d \in Range(s) => call[d].at = "buffered" /\ call[d].runtime = g /\ call[d].identity = timers[g][n].identity
         /\ \A d \in Call \ {l} : Kept(d) /\ call'[d].at = IF d \in Range(s) THEN "merged" ELSE call[d].at
         /\ call'[l].op = call[l].op /\ call'[l].identity = call[l].identity /\ call'[l].runtime = call[l].runtime
         /\ call'[l].route = call[l].route /\ call'[l].at = "queued"
         /\ call'[l].key = KeyOf(l, call[l].route) /\ call'[l].entries = s
         /\ call'[l].id = call[l].id /\ call'[l].sent = call[l].sent
<1>1. call \in [Call -> CallRec] /\ "queued" \in At /\ "merged" \in At
  BY Types DEF At
<1> DEFINE i == timers[g][n].identity
<1>2. i \in Identity
  BY FlushCases
<1>3. s \in Seq(Call) /\ l \in Range(s) /\ l \in Call /\ Range(s) \in SUBSET Call /\ s # <<>>
  BY <1>2, BufType DEF Buf, Live
<1>4. \A d \in Call : d \in Range(s) => call[d].at = "buffered" /\ call[d].runtime = g /\ call[d].identity = i
  BY <1>2 DEF Buffers, Buf
<1>5. call[l].route \in Route
  BY <1>3, <1>4, CallParts DEF Routed, Ended
<1> DEFINE k == KeyOf(l, call[l].route)
<1>6. k \in Key
  BY <1>3, <1>5, KeyOfType
<1>7. call' = [d \in Call |->
                  IF d = l THEN [call[d] EXCEPT !.at = "queued", !.entries = s, !.key = KeyOf(d, call[d].route)]
                  ELSE IF d \in Range(s) THEN [call[d] EXCEPT !.at = "merged"] ELSE call[d]]
  BY DEF Flush, Live, Buf
<1>8. ASSUME NEW d \in Call \ {l}
      PROVE  call'[d] \in CallRec /\ Kept(d) /\ call'[d].at = IF d \in Range(s) THEN "merged" ELSE call[d].at
  <2>1. call'[d] = IF d \in Range(s) THEN [call[d] EXCEPT !.at = "merged"] ELSE call[d]
    BY <1>7
  <2> QED BY <1>1, <2>1 DEF CallRec, Kept, Static
<1>9. call'[l] = [call[l] EXCEPT !.at = "queued", !.entries = s, !.key = k]
  BY <1>3, <1>7
<1> HIDE DEF k
<1>10. call'[l] \in CallRec /\ call'[l].op = call[l].op /\ call'[l].identity = call[l].identity /\ call'[l].runtime = call[l].runtime
       /\ call'[l].route = call[l].route /\ call'[l].at = "queued" /\ call'[l].key = k /\ call'[l].entries = s
       /\ call'[l].id = call[l].id /\ call'[l].sent = call[l].sent
  <2>1. call[l] \in CallRec
    BY <1>1, <1>3
  <2> QED BY <1>1, <1>3, <1>6, <1>9, <2>1 DEF CallRec
<1>11. call' \in [Call -> CallRec]
  BY <1>7, <1>8, <1>10
<1> QED BY <1>3, <1>4, <1>5, <1>8, <1>10, <1>11 DEF k

(* Resolve gives the current session, or an id for a new one.              *)
Takes(c) ==
  /\ call[c].op \in {"message", "direct", "stateless"} /\ current[call[c].route][TypeOf(c)] # NoId
NewId(c) == IF call[c].op = "named" THEN call[c].id ELSE NextSessionId(call[c].route)

LEMMA IdKinds ==
  /\ \A id \in MadeUp : id \in Id /\ id.prefix \in Prefix /\ id.day \in Days /\ id.seq \in Nat \ {0}
  /\ NoId \notin Id /\ NoId \notin MadeUp
BY ApplicationsAssumption DEF ApplicationsAssumption, Id, MadeUp

LEMMA NewIdType ==
  ASSUME TypeOK, Fresh, IsFiniteSet(rows), NEW c \in Call, call[c].route \in Route
  PROVE  /\ NewId(c) \in Id
         /\ call[c].op = "named" => NewId(c) = call[c].id
         /\ call[c].op # "named" => /\ NewId(c) \in MadeUp /\ NewId(c).prefix = call[c].route.prefix /\ NewId(c).day = day
                                    /\ Reached(NewId(c))
<1>1. day \in Days
  BY DEF TypeOK
<1>2. CASE call[c].op = "named"
  BY <1>2 DEF NewId, Fresh
<1>3. CASE call[c].op # "named"
  <2> DEFINE q == Sequence(call[c].route, day)
  <2>1. /\ q \in Nat \ {0}
        /\ q = 1 \/ \E x \in rows : x.route.prefix = call[c].route.prefix /\ x.day = day /\ x.seq = q - 1
    BY <1>1, SequenceBounds
  <2> HIDE DEF q
  <2>2. NewId(c) = [prefix |-> call[c].route.prefix, day |-> day, seq |-> q]
    BY <1>3 DEF NewId, NextSessionId, q
  <2>3. call[c].route.prefix \in Prefix
    BY DEF Route
  <2>4. NewId(c) \in MadeUp
    BY <1>1, <2>1, <2>2, <2>3 DEF MadeUp
  <2>5. \A x \in rows : x.seq \in Nat
    BY Types DEF RowRec
  <2>6. Reached(NewId(c))
    BY <2>1, <2>2, <2>5 DEF Reached
  <2> QED BY <1>3, <2>2, <2>4, <2>6, IdKinds
<1> QED BY <1>2, <1>3

LEMMA ResolveEffect ==
  ASSUME TypeOK, Fresh, IsFiniteSet(rows), NEW c \in Call, call[c].route \in Route, Resolve(c)
  PROVE  /\ call[c].at = "queued" /\ Behind(c) = {} /\ UNCHANGED <<buffer, timers, file, rows, current, byHand, bounds>>
         /\ call' \in [Call -> CallRec]
         /\ \A d \in Call \ {c} : Kept(d) /\ call'[d].at = call[d].at
         /\ Static(c) /\ call'[c].sent = call[c].sent
         /\ Takes(c) => /\ call'[c].at = IF call[c].op = "message" THEN "handoff" ELSE "prompt"
                        /\ queue' = Left(c)
         /\ ~Takes(c) => /\ call'[c].at = IF call[c].op = "stateless" THEN "record" ELSE "list"
                         /\ call'[c].id = NewId(c) /\ queue' = queue
<1>1. call \in [Call -> CallRec] /\ {"handoff", "prompt", "record", "list"} \subseteq At /\ call[c] \in CallRec
  BY Types DEF At
<1>2. call[c].at = "queued" /\ Behind(c) = {} /\ UNCHANGED <<buffer, timers, file, rows, current, byHand, bounds>>
  BY DEF Resolve
<1> DEFINE now == current[call[c].route][TypeOf(c)]
<1>3. now \in Id \cup {NoId} /\ NewId(c) \in Id
  <2>1. now \in Id \cup {NoId}
    <3>1. TypeOf(c) \in Type
      BY CallParts
    <3>2. current \in [Route -> [Type -> Id \cup {NoId}]]
      BY DEF TypeOK
    <3> QED BY <3>1, <3>2
  <2>2. NewId(c) \in Id
    BY NewIdType
  <2> QED BY <2>1, <2>2
<1> DEFINE id == IF Takes(c) THEN now ELSE NewId(c)
<1> DEFINE a == IF Takes(c) THEN IF call[c].op = "message" THEN "handoff" ELSE "prompt"
                ELSE IF call[c].op = "stateless" THEN "record" ELSE "list"
<1>4. call' = [call EXCEPT ![c].id = id, ![c].at = a]
  BY DEF Resolve, Takes, NewId
<1>5. id \in Id \cup {NoId} /\ a \in At
  BY <1>1, <1>3
<1>6. /\ Takes(c) => queue' = Left(c)
      /\ ~Takes(c) => queue' = queue
  BY DEF Resolve, Takes
<1> HIDE DEF id, a
<1> DEFINE r == [call[c] EXCEPT !.id = id, !.at = a]
<1>7. r \in CallRec /\ r.op = call[c].op /\ r.identity = call[c].identity /\ r.runtime = call[c].runtime /\ r.at = a
      /\ r.route = call[c].route /\ r.key = call[c].key /\ r.entries = call[c].entries /\ r.id = id /\ r.sent = call[c].sent
  BY <1>1, <1>5 DEF CallRec
<1>8. call' = [call EXCEPT ![c] = r]
  BY <1>1, <1>4
<1> HIDE DEF r
<1>9. call'[c] = r /\ \A d \in Call \ {c} : call'[d] = call[d]
  BY <1>1, <1>8
<1>10. call' \in [Call -> CallRec]
  BY <1>1, <1>7, <1>8
<1> QED BY <1>2, <1>6, <1>7, <1>9, <1>10 DEF Kept, Static, id, a

LEMMA PromptEffect ==
  ASSUME TypeOK, NEW c \in Call, NEW yes \in BOOLEAN, Prompt(c, yes), ~Settle(c, "refused"), ~Settle(c, "failed")
  PROVE  /\ call' \in [Call -> CallRec]
         /\ \A d \in Call : /\ Static(d) /\ call'[d].id = call[d].id
                            /\ call'[d].at = IF d = c THEN "prompting" ELSE call[d].at
                            /\ call'[d].sent = IF d \in EntriesOf(c) THEN call[d].sent + 1 ELSE call[d].sent
<1>1. call \in [Call -> CallRec] /\ "prompting" \in At
  BY Types DEF At
<1>2. call' = [d \in Call |-> LET e == IF d = c THEN [call[d] EXCEPT !.at = "prompting"] ELSE call[d]
                              IN IF d \in EntriesOf(c) THEN [e EXCEPT !.sent = @ + 1] ELSE e]
  BY DEF Prompt
<1>3. ASSUME NEW d \in Call
      PROVE  /\ call'[d] \in CallRec /\ Static(d) /\ call'[d].id = call[d].id
             /\ call'[d].at = IF d = c THEN "prompting" ELSE call[d].at
             /\ call'[d].sent = IF d \in EntriesOf(c) THEN call[d].sent + 1 ELSE call[d].sent
  <2> DEFINE e == IF d = c THEN [call[d] EXCEPT !.at = "prompting"] ELSE call[d]
  <2>1. e \in CallRec /\ e.op = call[d].op /\ e.identity = call[d].identity /\ e.runtime = call[d].runtime
        /\ e.route = call[d].route /\ e.key = call[d].key /\ e.entries = call[d].entries /\ e.id = call[d].id /\ e.sent = call[d].sent
        /\ e.at = IF d = c THEN "prompting" ELSE call[d].at
    BY <1>1 DEF CallRec
  <2>2. call'[d] = IF d \in EntriesOf(c) THEN [e EXCEPT !.sent = @ + 1] ELSE e
    BY <1>2
  <2> HIDE DEF e
  <2> QED BY <2>1, <2>2 DEF CallRec, Static
<1> QED BY <1>2, <1>3

-----------------------------------------------------------------------------
(* Routes, keys and entries.  A quiet step moves calls on, or ends them,   *)
(* and leaves all that Receive, Collect and Flush gave them.               *)
Quiet ==
  \A d \in Call : /\ Static(d)
                  /\ \/ call'[d].at = call[d].at \/ call'[d].at \in Ended
                     \/ call[d].at \in Dispatched \ {"prompting"} /\ call'[d].at \in Dispatched
SentKept == \A d \in Call : call'[d].sent = call[d].sent

LEMMA QuietSame ==
  ASSUME Quiet
  PROVE  \A d \in Call : EntriesOf(d)' = EntriesOf(d) /\ TypeOf(d)' = TypeOf(d)
BY DEF Quiet, Static, EntriesOf, TypeOf

LEMMA QuietKeys ==
  ASSUME Routed, Keyed, Quiet
  PROVE  Routed' /\ Keyed'
<1>1. Routed'
  BY DEF Quiet, Static, Routed, Ended, Dispatched, InSection
<1>2. Keyed'
  BY QuietSame DEF Quiet, Static, Keyed, Ended, Dispatched, InSection, Early
<1> QED BY <1>1, <1>2

LEMMA QuietAlone ==
  ASSUME Alone, Quiet
  PROVE  Alone'
BY QuietSame DEF Alone, Quiet, Static, Ended, Dispatched, InSection

LEMMA QuietEntries ==
  ASSUME Entries, Quiet, SentKept
  PROVE  Entries'
<1>1. \A d \in Call : EntriesOf(d)' = EntriesOf(d)
  BY QuietSame
<1>2. (\A c, d, e \in Call : c \in EntriesOf(d) /\ c \in EntriesOf(e) => d = e)'
  BY <1>1 DEF Entries
<1>3. (\A d \in Call : EntriesOf(d) # {} => d \in EntriesOf(d))'
  BY <1>1 DEF Entries
<1>4. (\A d \in Call : call[d].at \in Dispatched => d \in EntriesOf(d))'
  BY <1>1 DEF Entries, Quiet, Dispatched, InSection, Ended
<1>5. (\A d \in Call : call[d].at \in Waiting => EntriesOf(d) = {} /\ call[d].sent = 0 /\ \A e \in Call : d \notin EntriesOf(e))'
  BY <1>1 DEF Entries, Quiet, SentKept, Dispatched, InSection, Ended, Waiting
<1>6. (\A c, d \in Call : c \in EntriesOf(d) => call[c].route = call[d].route /\ call[d].route # NoId /\ call[d].key # NoKey)'
  BY <1>1 DEF Entries, Quiet, Static
<1>7. (\A c, d \in Call : c \in EntriesOf(d) /\ call[d].at \in Dispatched \ {"prompting"} => call[c].sent = 0)'
  BY <1>1 DEF Entries, Quiet, SentKept, Dispatched, InSection, Ended
<1>8. (\A c \in Call : call[c].sent <= 1)'
  BY DEF Entries, SentKept
<1> QED BY <1>2, <1>3, <1>4, <1>5, <1>6, <1>7, <1>8 DEF Entries

LEMMA PromptEntries ==
  ASSUME TypeOK, Entries, Quiet, NEW c \in Call, call[c].at = "prompt",
         \A d \in Call : /\ call'[d].at = IF d = c THEN "prompting" ELSE call[d].at
                         /\ call'[d].sent = IF d \in EntriesOf(c) THEN call[d].sent + 1 ELSE call[d].sent
  PROVE  Entries'
<1>1. \A d \in Call : EntriesOf(d)' = EntriesOf(d)
  BY QuietSame
<1>2. (\A d, e, f \in Call : d \in EntriesOf(e) /\ d \in EntriesOf(f) => e = f)'
  BY <1>1 DEF Entries
<1>3. (\A d \in Call : EntriesOf(d) # {} => d \in EntriesOf(d))'
  BY <1>1 DEF Entries
<1>4. (\A d \in Call : call[d].at \in Dispatched => d \in EntriesOf(d))'
  BY <1>1 DEF Entries, Dispatched
<1>5. (\A d \in Call : call[d].at \in Waiting => EntriesOf(d) = {} /\ call[d].sent = 0 /\ \A e \in Call : d \notin EntriesOf(e))'
  BY <1>1 DEF Entries, Waiting
<1>6. (\A d, e \in Call : d \in EntriesOf(e) => call[d].route = call[e].route /\ call[e].route # NoId /\ call[e].key # NoKey)'
  BY <1>1 DEF Entries, Quiet, Static
<1>7. (\A d, e \in Call : d \in EntriesOf(e) /\ call[e].at \in Dispatched \ {"prompting"} => call[d].sent = 0)'
  BY <1>1 DEF Entries, Dispatched
<1>8. \A d \in EntriesOf(c) : d \in Call /\ call[d].sent = 0
  BY CallParts DEF Entries, Dispatched
<1>9. (\A d \in Call : call[d].sent <= 1)'
  BY <1>8 DEF Entries
<1> QED BY <1>2, <1>3, <1>4, <1>5, <1>6, <1>7, <1>9 DEF Entries

LEMMA ReceiveKeys ==
  ASSUME TypeOK, Routed, Keyed, Entries, Alone, NEW c \in Call, NEW op \in Op, NEW i \in Identity, NEW id \in Id \cup {NoId}, Receive(c, op, i, id)
  PROVE  Routed' /\ Keyed' /\ Entries' /\ Alone'
<1>1. call[c].at = "new" /\ call[c].route = NoId /\ call[c].key = NoKey
  BY DEF Receive, Routed, Keyed, Early
<1>2. /\ \A d \in Call \ {c} : Kept(d) /\ call'[d].at = call[d].at
      /\ call'[c].at = "inbound" /\ call'[c].route = NoId /\ call'[c].key = NoKey
      /\ call'[c].entries = call[c].entries /\ call'[c].sent = call[c].sent
  BY <1>1, ReceiveEffect
<1>3. \A d \in Call : EntriesOf(d)' = EntriesOf(d)
  BY <1>2 DEF Kept, Static, EntriesOf
<1>4. \A d \in Call \ {c} : TypeOf(d)' = TypeOf(d)
  BY <1>2 DEF Kept, Static, TypeOf
<1>5. Routed'
  BY <1>2 DEF Routed, Kept, Static
<1>6. Keyed'
  BY <1>2, <1>4 DEF Keyed, Kept, Static, Dispatched, InSection, Early
<1>7. EntriesOf(c) = {} /\ \A e \in Call : c \notin EntriesOf(e)
  BY <1>1 DEF Entries, Waiting
<1>8. Entries'
  BY <1>1, <1>2, <1>3, <1>7 DEF Entries, Kept, Static, Dispatched, InSection, Waiting
<1>9. Alone'
  BY <1>2, <1>3, <1>7 DEF Alone, Kept, Static
<1> QED BY <1>5, <1>6, <1>8, <1>9

LEMMA BufferedKeys ==
  ASSUME TypeOK, Routed, Keyed, Entries, Alone, NEW c \in Call, call[c].at = "inbound", IsBuffered(c)
  PROVE  Routed' /\ Keyed' /\ Entries' /\ Alone'
<1>1. call[c].key = NoKey
  BY DEF Keyed, Early
<1>2. /\ \A d \in Call \ {c} : Kept(d) /\ call'[d].at = call[d].at
      /\ call'[c].at = "buffered" /\ call'[c].identity = call[c].identity
      /\ call'[c].route = Mapping[call[c].identity] /\ call'[c].route # NoId
      /\ call'[c].key = NoKey /\ call'[c].entries = call[c].entries /\ call'[c].sent = call[c].sent
  BY <1>1, IsBufferedEffect, ApplicationsAssumption DEF ApplicationsAssumption
<1>3. \A d \in Call : EntriesOf(d)' = EntriesOf(d)
  BY <1>2 DEF Kept, Static, EntriesOf
<1>4. \A d \in Call \ {c} : TypeOf(d)' = TypeOf(d)
  BY <1>2 DEF Kept, Static, TypeOf
<1>5. Routed'
  BY <1>2 DEF Routed, Kept, Static
<1>6. Keyed'
  BY <1>2, <1>4 DEF Keyed, Kept, Static, Dispatched, InSection, Early
<1>7. EntriesOf(c) = {} /\ \A e \in Call : c \notin EntriesOf(e)
  BY DEF Entries, Waiting
<1>8. Entries'
  BY <1>2, <1>3, <1>7 DEF Entries, Kept, Static, Dispatched, InSection, Waiting
<1>9. Alone'
  <2>1. call'[c].op = "message"
    BY IsBufferedEffect DEF IsBuffered
  <2> QED BY <1>2, <1>3, <1>7, <2>1 DEF Alone, Kept, Static
<1> QED BY <1>5, <1>6, <1>8, <1>9

LEMMA QueuedKeys ==
  ASSUME TypeOK, Fresh, Routed, Keyed, Entries, Alone, NEW c \in Call, call[c].at = "inbound", IsQueued(c)
  PROVE  Routed' /\ Keyed' /\ Entries' /\ Alone'
<1> DEFINE r == Mapping[call[c].identity]
<1>0. r \in Route /\ r # NoId
  BY CallParts, RouteOf, ApplicationsAssumption DEF ApplicationsAssumption, IsQueued
<1>1. KeyOf(c, r) \in Key /\ KeyOf(c, r) # NoKey /\ KeyOf(c, r).runtime = call[c].runtime /\ KeyOf(c, r).route = r
      /\ (KeyOf(c, r).of[1] = "stateless" <=> TypeOf(c) = "stateless")
  BY <1>0, KeyOfType
<1>2. /\ \A d \in Call \ {c} : Kept(d) /\ call'[d].at = call[d].at
      /\ call'[c].at = "queued" /\ call'[c].identity = call[c].identity /\ call'[c].op = call[c].op
      /\ call'[c].runtime = call[c].runtime
      /\ call'[c].route = r /\ call'[c].key = KeyOf(c, r) /\ call'[c].entries = <<c>> /\ call'[c].sent = call[c].sent
  BY IsQueuedEffect
<1>3. EntriesOf(c)' = {c} /\ \A d \in Call \ {c} : EntriesOf(d)' = EntriesOf(d)
  BY <1>2 DEF Kept, Static, EntriesOf, Range
<1>4. \A d \in Call : TypeOf(d)' = TypeOf(d)
  BY <1>2 DEF Kept, Static, TypeOf
<1>5. Routed'
  BY <1>0, <1>2 DEF Routed, Kept, Static
<1>6. Keyed'
  <2> HIDE DEF r
  <2> QED BY <1>1, <1>2, <1>4 DEF Keyed, Kept, Static, Dispatched, InSection, Early
<1>7. EntriesOf(c) = {} /\ call[c].sent = 0 /\ \A e \in Call : c \notin EntriesOf(e)
  BY DEF Entries, Waiting
<1>8. Entries'
  <2> HIDE DEF r
  <2> QED BY <1>0, <1>1, <1>2, <1>3, <1>7 DEF Entries, Kept, Static, Dispatched, InSection, Waiting
<1>9. Alone'
  BY <1>2, <1>3 DEF Alone, Kept, Static
<1> QED BY <1>5, <1>6, <1>8, <1>9

LEMMA FlushKeys ==
  ASSUME TypeOK, Fresh, Routed, Keyed, Entries, Alone, Buffers, NEW g \in Runtime, NEW n \in DOMAIN timers[g], Flush(g, n), Live(g, n),
         NEW s, s = Buf(g, n).entries, NEW l, l = Last(s)
  PROVE  Routed' /\ Keyed' /\ Entries' /\ Alone'
<1> DEFINE r == call[l].route
<1> DEFINE i == timers[g][n].identity
<1>1. /\ s \in Seq(Call) /\ l \in Call /\ l \in Range(s) /\ r \in Route
      /\ \A d \in Call : d \in Range(s) => call[d].at = "buffered" /\ call[d].runtime = g /\ call[d].identity = i
      /\ \A d \in Call \ {l} : Kept(d) /\ call'[d].at = IF d \in Range(s) THEN "merged" ELSE call[d].at
      /\ call'[l].op = call[l].op /\ call'[l].identity = call[l].identity /\ call'[l].runtime = call[l].runtime
      /\ call'[l].route = r /\ call'[l].at = "queued"
      /\ call'[l].key = KeyOf(l, r) /\ call'[l].entries = s /\ call'[l].sent = call[l].sent
  BY FlushEffect
<1> HIDE DEF i
<1>2. KeyOf(l, r) \in Key /\ KeyOf(l, r) # NoKey /\ KeyOf(l, r).runtime = call[l].runtime /\ KeyOf(l, r).route = r
      /\ (KeyOf(l, r).of[1] = "stateless" <=> TypeOf(l) = "stateless") /\ r # NoId
  BY <1>1, KeyOfType, ApplicationsAssumption DEF ApplicationsAssumption
<1>3. EntriesOf(l)' = Range(s) /\ \A d \in Call \ {l} : EntriesOf(d)' = EntriesOf(d)
  BY <1>1 DEF Kept, Static, EntriesOf
<1>4. \A d \in Call : TypeOf(d)' = TypeOf(d)
  BY <1>1 DEF Kept, Static, TypeOf
<1>5. Routed'
  BY <1>1 DEF Routed, Kept, Static, Ended
<1>6. Keyed'
  <2> HIDE DEF r
  <2> QED BY <1>1, <1>2, <1>4 DEF Keyed, Kept, Static, Dispatched, InSection, Early
<1>7. \A d \in Call : d \in Range(s) =>
        /\ call[d].at = "buffered" /\ EntriesOf(d) = {} /\ call[d].sent = 0 /\ \A e \in Call : d \notin EntriesOf(e)
        /\ call[d].route = r
  <2>1. \A d \in Call : d \in Range(s) => call[d].route = Mapping[i]
    BY <1>1 DEF Routed, Ended
  <2> QED BY <1>1, <2>1 DEF Entries, Waiting
<1>8. Entries'
  <2> HIDE DEF r
  <2>2. (\A d, e, f \in Call : d \in EntriesOf(e) /\ d \in EntriesOf(f) => e = f)'
    BY <1>1, <1>3, <1>7 DEF Entries
  <2>3. (\A d \in Call : EntriesOf(d) # {} => d \in EntriesOf(d))'
    BY <1>1, <1>3 DEF Entries
  <2>4. (\A d \in Call : call[d].at \in Dispatched => d \in EntriesOf(d))'
    BY <1>1, <1>3 DEF Entries, Dispatched, InSection
  <2>5. (\A d \in Call : call[d].at \in Waiting => EntriesOf(d) = {} /\ call[d].sent = 0 /\ \A e \in Call : d \notin EntriesOf(e))'
    BY <1>1, <1>3 DEF Entries, Waiting, Kept
  <2>6. (\A d, e \in Call : d \in EntriesOf(e) => call[d].route = call[e].route /\ call[e].route # NoId /\ call[e].key # NoKey)'
    BY <1>1, <1>2, <1>3, <1>7 DEF Entries, Kept, Static
  <2>7. (\A d, e \in Call : d \in EntriesOf(e) /\ call[e].at \in Dispatched \ {"prompting"} => call[d].sent = 0)'
    BY <1>1, <1>3, <1>7 DEF Entries, Kept, Dispatched, InSection
  <2>8. (\A d \in Call : call[d].sent <= 1)'
    BY <1>1 DEF Entries, Kept
  <2> QED BY <2>2, <2>3, <2>4, <2>5, <2>6, <2>7, <2>8 DEF Entries
<1>9. Alone'
  <2>1. \A d \in Call : call'[d].op = call[d].op
    BY <1>1 DEF Kept, Static
  <2>2. call[l].op = "message"
    BY <1>1 DEF Alone
  <2> QED BY <1>1, <1>3, <2>1, <2>2 DEF Alone
<1> QED BY <1>5, <1>6, <1>8, <1>9

-----------------------------------------------------------------------------
(* Buffers, merged calls and queues, when one call moves or ends.          *)
Others(c) ==
  \A d \in Call \ {c} : /\ call[d].at \in Dispatched \cup Waiting => call'[d].at = call[d].at
                        /\ call'[d].at = call[d].at \/ call'[d].at \in Ended
                        /\ Static(d)
OthersHold(c) ==
  \A d \in Call \ {c} : /\ Holds(d)' <=> Holds(d)
                        /\ Holds(d) => /\ call'[d].at = call[d].at /\ call'[d].key = call[d].key
                                       /\ call'[d].runtime = call[d].runtime

LEMMA OthersAreHeld ==
  ASSUME NEW c \in Call, Others(c)
  PROVE  OthersHold(c)
BY DEF Others, OthersHold, Holds, Dispatched, InSection, Ended, Static

LEMMA SettleKeeps ==
  ASSUME TypeOK, Entries, NEW c \in Call, NEW a \in Ended, Settle(c, a)
  PROVE  /\ call' \in [Call -> CallRec] /\ Quiet /\ SentKept /\ Others(c) /\ call'[c].at = a
         /\ \A d \in Call : call'[d].id = call[d].id
         /\ \A d \in Call : call'[d].at = IF d \in EntriesOf(c) \cup {c} THEN a ELSE call[d].at
<1>1. a \in At
  BY DEF At
<1>2. /\ call' \in [Call -> CallRec]
      /\ \A d \in Call : Kept(d) /\ call'[d].at = IF d \in EntriesOf(c) \cup {c} THEN a ELSE call[d].at
  BY <1>1, SettleEffect
<1>3. ASSUME NEW d \in Call \ {c}, call[d].at \in Dispatched \cup Waiting
      PROVE  d \notin EntriesOf(c)
  BY <1>3 DEF Entries
<1> QED BY <1>2, <1>3 DEF Kept, Quiet, SentKept, Others

LEMMA GoKeeps ==
  ASSUME TypeOK, NEW c \in Call, NEW a \in At, Go(c, a),
         a \in Ended \/ (call[c].at \in Dispatched \ {"prompting"} /\ a \in Dispatched)
  PROVE  /\ call' \in [Call -> CallRec] /\ Quiet /\ SentKept /\ Others(c) /\ call'[c].at = a
         /\ \A d \in Call : call'[d].id = call[d].id
BY GoEffect DEF Kept, Quiet, SentKept, Others

LEMMA BuffersStay ==
  ASSUME Buffers, UNCHANGED buffer,
         \A d \in Call : /\ call'[d].at = "buffered" <=> call[d].at = "buffered"
                         /\ call[d].at = "buffered" => call'[d].runtime = call[d].runtime /\ call'[d].identity = call[d].identity
  PROVE  Buffers'
BY DEF Buffers

LEMMA OthersBuffers ==
  ASSUME Buffers, UNCHANGED buffer, NEW c \in Call, Others(c), call[c].at # "buffered", call'[c].at # "buffered"
  PROVE  Buffers'
<1>1. ASSUME NEW d \in Call
      PROVE  /\ call'[d].at = "buffered" <=> call[d].at = "buffered"
             /\ call[d].at = "buffered" => call'[d].runtime = call[d].runtime /\ call'[d].identity = call[d].identity
  BY DEF Others, Static, Waiting, Ended
<1> QED BY <1>1, BuffersStay

LEMMA TimedStay ==
  ASSUME Timed, UNCHANGED <<buffer, timers>>
  PROVE  Timed'
BY DEF Timed

LEMMA MergedStay ==
  ASSUME Merged, \A d \in Call : /\ call'[d].at = "merged" => call[d].at = "merged"
                                 /\ call[d].at \notin Ended /\ EntriesOf(d) # {} => call'[d].at \notin Ended /\ EntriesOf(d)' = EntriesOf(d)
  PROVE  Merged'
BY DEF Merged

LEMMA MergedSettle ==
  ASSUME TypeOK, Entries, Merged, NEW c \in Call, NEW a \in Ended, Settle(c, a)
  PROVE  Merged'
<1>1. \A d \in Call : EntriesOf(d)' = EntriesOf(d) /\ call'[d].at = IF d \in EntriesOf(c) \cup {c} THEN a ELSE call[d].at
  BY SettleKeeps, QuietSame
<1>2. ASSUME NEW d \in Call, call'[d].at = "merged"
      PROVE  \E e \in Call : d \in EntriesOf(e)' /\ call'[e].at \notin Ended
  <2>1. d \notin EntriesOf(c) /\ call[d].at = "merged"
    BY <1>1, <1>2 DEF Ended
  <2>2. PICK e \in Call : d \in EntriesOf(e) /\ call[e].at \notin Ended
    BY <2>1 DEF Merged
  <2>3. e \in EntriesOf(e) /\ e # c
    BY <2>1, <2>2 DEF Entries
  <2>4. e \notin EntriesOf(c)
    BY <2>3 DEF Entries
  <2> QED BY <1>1, <2>2, <2>3, <2>4
<1> QED BY <1>2 DEF Merged

LEMMA PlaceInQueue ==
  ASSUME TypeOK, Queues, NEW c \in Call, Holds(c)
  PROVE  /\ Place(c) \in DOMAIN queue[call[c].runtime] /\ queue[call[c].runtime][Place(c)] = c
         /\ call[c].runtime \in Runtime /\ queue[call[c].runtime] \in Seq(Call)
<1>1. call[c].runtime \in Runtime
  BY CallParts
<1>2. c \in Range(queue[call[c].runtime])
  BY <1>1 DEF Queues
<1>3. \E n \in DOMAIN queue[call[c].runtime] : queue[call[c].runtime][n] = c
  BY <1>2 DEF Range
<1> QED BY <1>1, <1>3, Types DEF Place

LEMMA InQueue ==
  ASSUME TypeOK, Queues, NEW g \in Runtime, NEW n \in DOMAIN queue[g]
  PROVE  queue[g][n] \in Call /\ Holds(queue[g][n]) /\ call[queue[g][n]].runtime = g
<1>1. queue[g] \in Seq(Call)
  BY Types
<1>2. queue[g][n] \in Range(queue[g]) /\ queue[g][n] \in Call
  BY <1>1 DEF Range
<1> QED BY <1>2 DEF Queues

LEMMA QueueStays ==
  ASSUME TypeOK, Queues, UNCHANGED queue, NEW c \in Call, OthersHold(c),
         Holds(c)' <=> Holds(c), Holds(c) => /\ call'[c].key = call[c].key /\ call'[c].runtime = call[c].runtime
                                             /\ call'[c].at # "queued" => call[c].at # "queued"
  PROVE  Queues'
<1>1. ASSUME NEW d \in Call
      PROVE  /\ Holds(d)' <=> Holds(d)
             /\ Holds(d) => /\ call'[d].key = call[d].key /\ call'[d].runtime = call[d].runtime
                            /\ call'[d].at # "queued" => call[d].at # "queued"
  BY DEF OthersHold
<1>2. (\A g \in Runtime : Once(queue[g]))'
  BY DEF Queues
<1>3. (\A g \in Runtime, d \in Call : d \in Range(queue[g]) <=> (Holds(d) /\ call[d].runtime = g))'
  BY <1>1 DEF Queues
<1>4. (\A g \in Runtime : \A m, n \in DOMAIN queue[g] :
         (m < n /\ call[queue[g][n]].at # "queued") => call[queue[g][m]].key # call[queue[g][n]].key)'
  BY <1>1, InQueue DEF Queues
<1> QED BY <1>2, <1>3, <1>4 DEF Queues

LEMMA QueueStarts ==
  ASSUME TypeOK, Queues, UNCHANGED queue, NEW c \in Call, OthersHold(c), call[c].at = "queued", Behind(c) = {},
         Holds(c)', call'[c].key = call[c].key, call'[c].runtime = call[c].runtime
  PROVE  Queues'
<1>0. Holds(c)
  BY DEF Holds
<1>1. ASSUME NEW d \in Call
      PROVE  /\ Holds(d)' <=> Holds(d)
             /\ Holds(d) => /\ call'[d].key = call[d].key /\ call'[d].runtime = call[d].runtime
                            /\ d # c /\ call'[d].at # "queued" => call[d].at # "queued"
  BY <1>0 DEF OthersHold
<1>2. (\A g \in Runtime : Once(queue[g]))'
  BY DEF Queues
<1>3. (\A g \in Runtime, d \in Call : d \in Range(queue[g]) <=> (Holds(d) /\ call[d].runtime = g))'
  BY <1>1 DEF Queues
<1>4. ASSUME NEW g \in Runtime, NEW m \in DOMAIN queue[g], NEW n \in DOMAIN queue[g], m < n,
             call'[queue[g][n]].at # "queued"
      PROVE  call'[queue[g][m]].key # call'[queue[g][n]].key
  <2>1. /\ queue[g][n] \in Call /\ Holds(queue[g][n]) /\ call[queue[g][n]].runtime = g
        /\ queue[g][m] \in Call /\ Holds(queue[g][m]) /\ call[queue[g][m]].runtime = g
    BY InQueue
  <2>2. CASE queue[g][n] # c
    BY <1>1, <1>4, <2>1, <2>2 DEF Queues
  <2>3. CASE queue[g][n] = c
    <3>1. Place(c) \in DOMAIN queue[g] /\ queue[g][Place(c)] = c /\ call[c].runtime = g /\ queue[g] \in Seq(Call)
      BY <1>0, <2>1, <2>3, PlaceInQueue
    <3>2. Place(c) = n
      BY <2>3, <3>1 DEF Queues, Once
    <3>3. m \in 1..Place(c) - 1
      BY <1>4, <3>1, <3>2
    <3>4. call[queue[g][m]].key = call[c].key => queue[g][m] \in Behind(c)
      BY <3>1, <3>3 DEF Behind
    <3> QED BY <1>1, <2>1, <2>3, <3>4
  <2> QED BY <2>2, <2>3
<1>5. (\A g \in Runtime : \A m, n \in DOMAIN queue[g] :
         (m < n /\ call[queue[g][n]].at # "queued") => call[queue[g][m]].key # call[queue[g][n]].key)'
  BY <1>4
<1> QED BY <1>2, <1>3, <1>5 DEF Queues

LEMMA QueueJoins ==
  ASSUME TypeOK, Queues, NEW c \in Call, queue' = Joined(c), OthersHold(c), ~Holds(c),
         call'[c].at = "queued", call'[c].runtime = call[c].runtime
  PROVE  queue' \in [Runtime -> Seq(Call)] /\ Queues'
<1> DEFINE h == call[c].runtime
<1>1. h \in Runtime /\ queue \in [Runtime -> Seq(Call)] /\ c \notin Range(queue[h])
  BY CallParts, Types DEF Queues
<1>2. queue' = [queue EXCEPT ![h] = Append(@, c)]
  BY DEF Joined
<1>3. /\ Append(queue[h], c) \in Seq(Call) /\ Once(Append(queue[h], c))
      /\ Range(Append(queue[h], c)) = Range(queue[h]) \cup {c}
      /\ DOMAIN Append(queue[h], c) = 1..Len(queue[h]) + 1
      /\ \A m \in 1..Len(queue[h]) : Append(queue[h], c)[m] = queue[h][m]
      /\ Append(queue[h], c)[Len(queue[h]) + 1] = c
      /\ DOMAIN queue[h] = 1..Len(queue[h]) /\ Len(queue[h]) \in Nat
  <2>1. queue[h] \in Seq(Call) /\ Once(queue[h])
    BY <1>1 DEF Queues
  <2> HIDE DEF h
  <2>2. /\ Append(queue[h], c) \in Seq(Call) /\ Len(Append(queue[h], c)) = Len(queue[h]) + 1
        /\ \A m \in 1..Len(queue[h]) : Append(queue[h], c)[m] = queue[h][m]
        /\ Append(queue[h], c)[Len(queue[h]) + 1] = c
    BY <2>1, AppendProperties
  <2>3. Once(Append(queue[h], c)) /\ Range(Append(queue[h], c)) = Range(queue[h]) \cup {c}
    BY <1>1, <2>1, OnceAppend
  <2> QED BY <2>1, <2>2, <2>3
<1>4. queue' \in [Runtime -> Seq(Call)]
  BY <1>1, <1>2, <1>3
<1>5. queue'[h] = Append(queue[h], c) /\ \A g \in Runtime \ {h} : queue'[g] = queue[g]
  BY <1>1, <1>2
<1>6. Holds(c)'
  BY DEF Holds
<1>10. Range(queue'[h]) = Range(queue[h]) \cup {c} /\ \A g \in Runtime \ {h} : Range(queue'[g]) = Range(queue[g])
  <2> HIDE DEF h
  <2> QED BY <1>3, <1>5
<1>7. \A g \in Runtime : Once(queue'[g])
  BY <1>3, <1>5 DEF Queues
<1>8. ASSUME NEW g \in Runtime, NEW d \in Call
      PROVE  d \in Range(queue'[g]) <=> (Holds(d)' /\ call'[d].runtime = g)
  <2>1. CASE d = c
    <3>1. c \in Range(queue'[g]) <=> g = h
      BY <1>1, <1>10 DEF Queues
    <3> QED BY <1>6, <2>1, <3>1
  <2>2. CASE d # c
    <3>1. d \in Range(queue'[g]) <=> d \in Range(queue[g])
      BY <1>10, <2>2
    <3> QED BY <2>2, <3>1 DEF Queues, OthersHold
  <2> QED BY <2>1, <2>2
<1>9. ASSUME NEW g \in Runtime, NEW m \in DOMAIN queue'[g], NEW n \in DOMAIN queue'[g], m < n,
             call'[queue'[g][n]].at # "queued"
      PROVE  call'[queue'[g][m]].key # call'[queue'[g][n]].key
  <2>1. m \in DOMAIN queue[g] /\ n \in DOMAIN queue[g] /\ queue'[g][m] = queue[g][m] /\ queue'[g][n] = queue[g][n]
    <3>1. CASE g # h
      BY <1>5, <3>1
    <3>2. CASE g = h
      <4>1. n # Len(queue[h]) + 1
        BY <1>3, <1>5, <1>9, <3>2
      <4>2. n \in 1..Len(queue[h]) /\ m \in 1..Len(queue[h])
        BY <1>3, <1>5, <1>9, <3>2, <4>1
      <4> HIDE DEF h
      <4> QED BY <1>3, <1>5, <3>2, <4>2
    <3> QED BY <3>1, <3>2
  <2>2. /\ queue[g][n] \in Call \ {c} /\ Holds(queue[g][n])
        /\ queue[g][m] \in Call \ {c} /\ Holds(queue[g][m])
    BY <2>1, InQueue
  <2> QED BY <1>9, <2>1, <2>2 DEF Queues, OthersHold
<1> QED BY <1>4, <1>7, <1>8, <1>9 DEF Queues

LEMMA QueueLeaves ==
  ASSUME TypeOK, Queues, NEW c \in Call, queue' = Left(c), OthersHold(c), Holds(c), ~Holds(c)'
  PROVE  queue' \in [Runtime -> Seq(Call)] /\ Queues'
<1> DEFINE h == call[c].runtime
<1> DEFINE k == Place(c)
<1>1. h \in Runtime /\ queue \in [Runtime -> Seq(Call)] /\ k \in DOMAIN queue[h] /\ queue[h][k] = c
  BY PlaceInQueue, Types
<1>2. queue' = [queue EXCEPT ![h] = RemoveAt(@, k)]
  BY DEF Left
<1>3. queue[h] \in Seq(Call) /\ Once(queue[h])
  BY <1>1 DEF Queues
<1> HIDE DEF k
<1>4. /\ RemoveAt(queue[h], k) \in Seq(Call) /\ Len(RemoveAt(queue[h], k)) = Len(queue[h]) - 1
      /\ \A i \in 1..Len(queue[h]) - 1 : RemoveAt(queue[h], k)[i] = IF i < k THEN queue[h][i] ELSE queue[h][i + 1]
      /\ Once(RemoveAt(queue[h], k)) /\ Range(RemoveAt(queue[h], k)) = Range(queue[h]) \ {c}
  <2> HIDE DEF h
  <2> QED BY <1>1, <1>3, RemoveAtEffect, RemoveAtOnce
<1>5. queue' \in [Runtime -> Seq(Call)]
  BY <1>1, <1>2, <1>4
<1>6. queue'[h] = RemoveAt(queue[h], k) /\ \A g \in Runtime \ {h} : queue'[g] = queue[g]
  BY <1>1, <1>2
<1>7. \A g \in Runtime : Once(queue'[g])
  BY <1>4, <1>6 DEF Queues
<1>8. ASSUME NEW g \in Runtime, NEW d \in Call
      PROVE  d \in Range(queue'[g]) <=> (Holds(d)' /\ call'[d].runtime = g)
  <2>1. CASE d = c
    <3>1. c \notin Range(queue'[g])
      BY <1>4, <1>6 DEF Queues
    <3> QED BY <2>1, <3>1
  <2>2. CASE d # c
    <3>1. d \in Range(queue'[g]) <=> d \in Range(queue[g])
      BY <1>4, <1>6, <2>2
    <3> QED BY <2>2, <3>1 DEF Queues, OthersHold
  <2> QED BY <2>1, <2>2
<1>9. ASSUME NEW g \in Runtime, NEW m \in DOMAIN queue'[g], NEW n \in DOMAIN queue'[g], m < n,
             call'[queue'[g][n]].at # "queued"
      PROVE  call'[queue'[g][m]].key # call'[queue'[g][n]].key
  <2>1. \E i, j \in DOMAIN queue[g] : i < j /\ queue'[g][m] = queue[g][i] /\ queue'[g][n] = queue[g][j]
    <3>1. CASE g # h
      BY <1>6, <1>9, <3>1
    <3>2. CASE g = h
      <4>1. m \in 1..Len(queue[h]) - 1 /\ n \in 1..Len(queue[h]) - 1 /\ k \in 1..Len(queue[h]) /\ Len(queue[h]) \in Nat
            /\ DOMAIN queue[h] = 1..Len(queue[h])
        BY <1>1, <1>3, <1>4, <1>6, <3>2
      <4> DEFINE i == IF m < k THEN m ELSE m + 1
      <4> DEFINE j == IF n < k THEN n ELSE n + 1
      <4>2. i \in DOMAIN queue[h] /\ j \in DOMAIN queue[h] /\ i < j
        BY <1>9, <4>1
      <4>3. queue'[h][m] = queue[h][i] /\ queue'[h][n] = queue[h][j]
        BY <1>4, <1>6, <4>1
      <4> QED BY <3>2, <4>2, <4>3
    <3> QED BY <3>1, <3>2
  <2>2. PICK i \in DOMAIN queue[g], j \in DOMAIN queue[g] : i < j /\ queue'[g][m] = queue[g][i] /\ queue'[g][n] = queue[g][j]
    BY <2>1
  <2>3. queue'[g][m] \in Range(queue'[g]) /\ queue'[g][n] \in Range(queue'[g])
    BY DEF Range
  <2>4. queue'[g][m] # c /\ queue'[g][n] # c
    BY <1>4, <1>6, <2>3 DEF Queues
  <2>5. /\ queue[g][j] \in Call \ {c} /\ Holds(queue[g][j])
        /\ queue[g][i] \in Call \ {c} /\ Holds(queue[g][i])
    BY <2>2, <2>4, InQueue
  <2> QED BY <1>9, <2>2, <2>5 DEF Queues, OthersHold
<1> QED BY <1>5, <1>7, <1>8, <1>9 DEF Queues

-----------------------------------------------------------------------------
(* An id is given to a call that leaves its queue, and kept from then on.  *)
Identifies(c) ==
  call'[c].at # "queued" /\ (call'[c].id = call[c].id \/ (call[c].at = "queued" /\ call[c].op # "named"))

(* The sections: what a call brought to its session stays true while       *)
(* others act.                                                             *)
KeysStay ==
  \A d \in Call : call[d].key # NoKey =>
    /\ call'[d].key = call[d].key /\ call'[d].route = call[d].route /\ call'[d].op = call[d].op
    /\ call[d].id # NoId => call'[d].id = call[d].id
Calm(d) ==
  call'[d].at \in InSection \cup {"conflict"} =>
    /\ call'[d].at = call[d].at /\ call'[d].op = call[d].op /\ call'[d].identity = call[d].identity
    /\ call'[d].route = call[d].route /\ call'[d].key = call[d].key /\ call'[d].id = call[d].id
SameOf(d) ==
  /\ call'[d].op = call[d].op /\ call'[d].identity = call[d].identity
  /\ call'[d].route = call[d].route /\ call'[d].key = call[d].key

LEMMA FreshMoves ==
  ASSUME Entries, Fresh, Quiet, NEW c \in Call, Others(c), \A d \in Call \ {c} : call'[d].id = call[d].id, Identifies(c)
  PROVE  Fresh' /\ KeysStay
<1>1. \A d \in Call : EntriesOf(d)' = EntriesOf(d) /\ call'[d].op = call[d].op
  BY QuietSame DEF Quiet, Static
<1>2. ASSUME NEW d \in Call
      PROVE  /\ call'[d].at \in Early \cup {"queued"} => call'[d].at = call[d].at /\ call'[d].id = call[d].id
             /\ call'[d].id = call[d].id \/ (d = c /\ call[d].at = "queued" /\ call[d].op # "named" /\ call[d].id = NoId)
  <2>1. CASE d = c
    <3>1. call'[d].at # "queued" /\ (call'[d].id = call[d].id \/ (call[d].at = "queued" /\ call[d].op # "named" /\ call[d].id = NoId))
      BY <2>1 DEF Identifies, Fresh
    <3>2. call'[d].at \in Early => call'[d].at = call[d].at
      BY DEF Quiet, Early, Ended, Dispatched, InSection
    <3> QED BY <2>1, <3>1, <3>2 DEF Early
  <2>2. CASE d # c
    <3>1. call'[d].at = call[d].at \/ call'[d].at \in Ended
      BY <2>2 DEF Others
    <3> QED BY <2>2, <3>1 DEF Early, Ended
  <2> QED BY <2>1, <2>2
<1>3. ASSUME NEW d \in Call
      PROVE  /\ call'[d].at \in Early \cup {"queued"} /\ call'[d].op # "named" => call'[d].id = NoId
             /\ call'[d].op = "named" => call'[d].id \in Id
  BY <1>1, <1>2 DEF Fresh
<1>4. ASSUME NEW e \in Call, NEW d \in Call, d \in EntriesOf(e), d # e
      PROVE  call'[d].id = NoId
  <2>1. call[d].id = NoId
    BY <1>4 DEF Fresh
  <2>2. ~(d = c /\ call[d].at = "queued")
    BY <1>4 DEF Entries, Dispatched
  <2> QED BY <1>2, <2>1, <2>2
<1>5. Fresh'
  BY <1>1, <1>3, <1>4 DEF Fresh
<1>6. KeysStay
  BY <1>2 DEF KeysStay, Quiet, Static
<1> QED BY <1>5, <1>6

LEMMA ReachedStays ==
  ASSUME rows \subseteq rows', NEW id, Reached(id)
  PROVE  id.seq = 1 \/ \E x \in rows' : x.route.prefix = id.prefix /\ x.day = id.day /\ x.seq >= id.seq - 1
BY DEF Reached

LEMMA ElsewhereStays ==
  ASSUME KeysStay, NEW c \in Call, ElsewhereKeyed(c), SameOf(c), call'[c].id = call[c].id, call[c].id # NoId,
         call[c].route \in Route, \A p \in Profile : created[p] \subseteq created'[p]
  PROVE  ElsewhereKeyed(c)'
<1>1. CASE call[c].id \in created[call[c].route.profile]
  <2>1. call[c].route.profile \in Profile
    BY DEF Route
  <2> QED BY <1>1, <2>1 DEF ElsewhereKeyed, SameOf
<1>2. CASE \E d \in Call : call[d].id = call[c].id /\ call[d].key \notin {NoKey, call[c].key}
  BY <1>2 DEF KeysStay, ElsewhereKeyed, SameOf
<1> QED BY <1>1, <1>2 DEF ElsewhereKeyed

LEMMA OvertakenStays ==
  ASSUME KeysStay, NEW c \in Call, Overtaken(c), SameOf(c)
  PROVE  Overtaken(c)'
<1>1. PICK d \in Call : call[d].key # NoKey /\ call[d].key.route = call[c].route /\ TypeOf(d) = TypeOf(c) /\ call[d].key # call[c].key
  BY DEF Overtaken
<1>2. call'[d].key = call[d].key /\ TypeOf(d)' = TypeOf(d) /\ TypeOf(c)' = TypeOf(c)
  BY <1>1 DEF KeysStay, TypeOf, SameOf
<1>3. /\ call'[d].key # NoKey /\ call'[d].key.route = call'[c].route /\ TypeOf(d)' = TypeOf(c)' /\ call'[d].key # call'[c].key
  BY <1>1, <1>2 DEF SameOf
<1> QED BY <1>3 DEF Overtaken

LEMMA IdentifiedStays ==
  ASSUME TypeOK, rows \subseteq rows', day' \in Nat, day <= day', NEW c \in Call, IdentifiedAt(c),
         call[c].at \in InSection, SameOf(c), call'[c].id = call[c].id
  PROVE  IdentifiedAt(c)'
<1>1. CASE call[c].op = "named"
  BY <1>1 DEF IdentifiedAt, SameOf
<1>2. CASE call[c].op # "named"
  <2> DEFINE id == call[c].id
  <2>1. id \in MadeUp /\ id.prefix = call[c].route.prefix /\ id.day <= day /\ Reached(id)
    BY <1>2 DEF IdentifiedAt
  <2>2. id.day \in Nat /\ day \in Nat
    BY <2>1, IdKinds DEF TypeOK, Days
  <2>3. id.day <= day'
    BY <2>1, <2>2
  <2>4. id.seq = 1 \/ \E x \in rows' : x.route.prefix = id.prefix /\ x.day = id.day /\ x.seq >= id.seq - 1
    BY <2>1, ReachedStays
  <2>5. call'[c].id \in MadeUp /\ call'[c].id.prefix = call'[c].route.prefix /\ call'[c].id.day <= day'
    BY <2>1, <2>3 DEF SameOf
  <2>6. Reached(call[c].id)'
    BY <2>4 DEF Reached
  <2> QED BY <1>2, <2>5, <2>6 DEF IdentifiedAt, SameOf
<1> QED BY <1>1, <1>2

LEMMA FiledStays ==
  ASSUME NEW c \in Call, FiledAt(c), call[c].at = "record", SameOf(c), call'[c].id = call[c].id,
         \A p \in Profile : file[p] \cup deleted[p] \subseteq file'[p] \cup deleted'[p], call[c].route \in Route
  PROVE  FiledAt(c)'
<1>1. call[c].route.profile \in Profile
  BY DEF Route
<1> QED BY <1>1 DEF FiledAt, SameOf, TypeOf

LEMMA ContendedStays ==
  ASSUME KeysStay, NEW c \in Call, ContendedAt(c), call[c].at = "write", SameOf(c), call'[c].id = call[c].id,
         call[c].id # NoId, call[c].route \in Route, \A p \in Profile : created[p] \subseteq created'[p],
         call[c].id \in file'[call[c].route.profile] => call[c].id \in file[call[c].route.profile] \/ ElsewhereKeyed(c)'
  PROVE  ContendedAt(c)'
<1>1. ElsewhereKeyed(c) => ElsewhereKeyed(c)'
  BY ElsewhereStays
<1> QED BY <1>1 DEF ContendedAt, SameOf

LEMMA DividedStays ==
  ASSUME KeysStay, NEW c \in Call, DividedAt(c), call[c].at \in InSection, SameOf(c),
         current'[call[c].route][TypeOf(c)] # NoId => current[call[c].route][TypeOf(c)] # NoId
  PROVE  DividedAt(c)'
<1>1. TypeOf(c)' = TypeOf(c)
  BY DEF TypeOf, SameOf
<1> QED BY <1>1, OvertakenStays DEF DividedAt, SameOf

LEMMA ConflictStays ==
  ASSUME TypeOK, KeysStay, NEW c \in Call, ConflictAt(c), call[c].at = "conflict", SameOf(c), call'[c].id = call[c].id,
         \A p \in Profile : created[p] \subseteq created'[p]
  PROVE  ConflictAt(c)'
<1>1. CASE call[c].id = NoId
  BY <1>1 DEF ConflictAt
<1>2. CASE call[c].id # NoId
  <2>1. call[c].route \in Route /\ ElsewhereKeyed(c)
    BY <1>2, CallParts DEF ConflictAt
  <2>2. ElsewhereKeyed(c)' /\ call'[c].route # NoId
    BY <1>2, <2>1, ElsewhereStays DEF SameOf, ConflictAt
  <2> QED BY <2>2 DEF ConflictAt
<1> QED BY <1>1, <1>2

LEMMA SectionId ==
  ASSUME TypeOK, Routed, Fresh, Sections, NEW c \in Call, call[c].at \in InSection
  PROVE  call[c].id \in Id /\ call[c].id # NoId /\ call[c].route \in Route /\ TypeOf(c) \in Type
<1>1. call[c].id \in Id
  BY IdKinds DEF Fresh, Sections, IdentifiedAt
<1> QED BY <1>1, IdKinds, CallParts DEF Routed, InSection, Ended

(* Two calls past the queue never share a key.                             *)
LEMMA Exclusion ==
  ASSUME TypeOK, Keyed, Queues, NEW c \in Call, NEW d \in Call, Holds(c), Holds(d),
         call[c].at # "queued", call[d].at # "queued", call[c].key = call[d].key
  PROVE  c = d
<1>1. call[c].key # NoKey /\ call[d].key # NoKey
  BY DEF Keyed, Holds, Dispatched, InSection
<1>2. call[c].runtime = call[d].runtime
  BY <1>1 DEF Keyed
<1>3. PICK g \in Runtime : g = call[c].runtime /\ g = call[d].runtime
  BY <1>2, CallParts
<1>4. queue[g] \in Seq(Call) /\ c \in Range(queue[g]) /\ d \in Range(queue[g])
  BY <1>3, Types DEF Queues
<1>5. PICK m \in DOMAIN queue[g], n \in DOMAIN queue[g] : queue[g][m] = c /\ queue[g][n] = d
  BY <1>4 DEF Range
<1>6. m \in Nat /\ n \in Nat
  BY <1>4
<1>7. ~(m < n) /\ ~(n < m)
  BY <1>5 DEF Queues
<1> QED BY <1>5, <1>6, <1>7

(* A step that leaves the rows, and at most removes active sessions; files *)
(* go and come by hand, or come from a call that has written its own.      *)
Writes(id) == \E e \in Call : call[e].at = "write" /\ call'[e].at # "write" /\ call[e].id = id
StoreStays ==
  /\ rows' = rows /\ day' \in Days /\ day <= day'
  /\ \A p \in Profile : /\ file[p] \cup deleted[p] \subseteq file'[p] \cup deleted'[p]
                        /\ created[p] \subseteq created'[p]
                        /\ \A id \in file'[p] : id \in file[p] \cup created'[p] \/ Writes(id)
  /\ \A r \in Route, t \in Type : current'[r][t] \in {current[r][t], NoId}

LEMMA CalmSection ==
  ASSUME TypeOK, Routed, Keyed, Queues, Fresh, Sections, StoreStays, KeysStay, NEW c \in Call, Calm(c)
  PROVE  (IdentifiedAt(c) /\ FiledAt(c) /\ ContendedAt(c) /\ DividedAt(c) /\ ConflictAt(c))'
<1>1. CASE call'[c].at \notin InSection \cup {"conflict"}
  BY <1>1 DEF IdentifiedAt, FiledAt, ContendedAt, DividedAt, ConflictAt, InSection
<1>2. CASE call'[c].at \in InSection
  <2>1. call'[c].at = call[c].at /\ SameOf(c) /\ call'[c].id = call[c].id
    BY <1>2 DEF Calm, SameOf
  <2>2. call[c].route \in Route /\ TypeOf(c) \in Type /\ call[c].id # NoId
    BY <1>2, <2>1, SectionId
  <2>3. IdentifiedAt(c)'
    BY <1>2, <2>1, IdentifiedStays DEF Sections, StoreStays, Days
  <2>4. FiledAt(c)'
    <3>1. CASE call[c].at = "record"
      BY <2>1, <2>2, <3>1, FiledStays DEF Sections, StoreStays
    <3>2. CASE call[c].at # "record"
      BY <2>1, <3>2 DEF FiledAt
    <3> QED BY <3>1, <3>2
  <2>5. ContendedAt(c)'
    <3>1. CASE call[c].at = "write"
      <4>1. ASSUME call[c].id \in file'[call[c].route.profile], call[c].id \notin file[call[c].route.profile]
            PROVE  ElsewhereKeyed(c)'
        <5>1. call[c].route.profile \in Profile
          BY <2>2 DEF Route
        <5>2. CASE call[c].id \in created'[call[c].route.profile]
          BY <2>1, <5>2 DEF ElsewhereKeyed, SameOf
        <5>3. CASE Writes(call[c].id)
          <6>1. PICK e \in Call : call[e].at = "write" /\ call'[e].at # "write" /\ call[e].id = call[c].id
            BY <5>3 DEF Writes
          <6>2. e # c
            BY <2>1, <3>1, <6>1
          <6>3. call[e].key # call[c].key
            BY <3>1, <6>1, <6>2, Exclusion DEF Holds, InSection
          <6>4. call[e].key # NoKey
            BY <6>1 DEF Keyed, Dispatched, InSection
          <6>5. ElsewhereKeyed(c)
            BY <6>1, <6>3, <6>4 DEF ElsewhereKeyed
          <6> QED BY <2>1, <2>2, <6>5, ElsewhereStays DEF StoreStays
        <5> QED BY <4>1, <5>1, <5>2, <5>3 DEF StoreStays
      <4> QED BY <2>1, <2>2, <3>1, <4>1, ContendedStays DEF Sections, StoreStays
    <3>2. CASE call[c].at # "write"
      BY <2>1, <3>2 DEF ContendedAt
    <3> QED BY <3>1, <3>2
  <2>6. DividedAt(c)'
    BY <1>2, <2>1, <2>2, DividedStays DEF Sections, StoreStays
  <2>7. ConflictAt(c)'
    BY <1>2 DEF ConflictAt, InSection
  <2> QED BY <2>3, <2>4, <2>5, <2>6, <2>7
<1>3. CASE call'[c].at = "conflict"
  <2>1. call[c].at = "conflict" /\ SameOf(c) /\ call'[c].id = call[c].id
    BY <1>3 DEF Calm, SameOf
  <2>2. ConflictAt(c)'
    BY <2>1, ConflictStays DEF Sections, StoreStays
  <2> QED BY <1>3, <2>2 DEF IdentifiedAt, FiledAt, ContendedAt, DividedAt, InSection
<1> QED BY <1>1, <1>2, <1>3

LEMMA RowStays ==
  ASSUME TypeOK, KeysStay, day' \in Days, day <= day', NEW x \in rows, RowAt(x)
  PROVE  RowAt(x)'
<1>1. x \in RowRec /\ day \in Days
  BY Types DEF TypeOK
<1>2. x.day <= day'
  BY <1>1 DEF RowAt, RowRec, Days
<1>3. PICK d \in Call : /\ call[d].key # NoKey /\ call[d].key.route = x.route /\ TypeOf(d) = x.type
                        /\ call[d].id = x.id /\ (call[d].op = "named" \/ Numbers(x))
  BY DEF RowAt
<1>4. call[d].id # NoId
  BY <1>1, <1>3, IdKinds DEF RowRec
<1>5. /\ call'[d].key # NoKey /\ call'[d].key.route = x.route /\ TypeOf(d)' = x.type
      /\ call'[d].id = x.id /\ (call'[d].op = "named" \/ Numbers(x))
  BY <1>3, <1>4 DEF KeysStay, TypeOf
<1> QED BY <1>2, <1>5 DEF RowAt, Numbers

LEMMA NumbersStay ==
  ASSUME TypeOK, Numbered, CurrentExists, StoreStays, KeysStay
  PROVE  Numbered' /\ CurrentExists'
<1>1. Numbered'
  BY RowStays DEF Numbered, StoreStays
<1>2. ASSUME NEW r \in Route, NEW t \in Type, current'[r][t] # NoId
      PROVE  /\ \E x \in rows' : x.id = current'[r][t] /\ x.route = r /\ x.type = t
             /\ t = "stateful" => current'[r][t] \in file'[r.profile] \cup deleted'[r.profile]
  <2>1. current'[r][t] = current[r][t] /\ r.profile \in Profile /\ rows' = rows
    BY <1>2 DEF StoreStays, Route
  <2> QED BY <1>2, <2>1 DEF CurrentExists, StoreStays
<1>3. CurrentExists'
  BY <1>2 DEF CurrentExists
<1> QED BY <1>1, <1>3

LEMMA CalmStore ==
  ASSUME TypeOK, Routed, Keyed, Queues, Fresh, Sections, Numbered, CurrentExists, StoreStays, KeysStay, \A c \in Call : Calm(c)
  PROVE  Sections' /\ Numbered' /\ CurrentExists'
<1>1. Sections'
  BY CalmSection DEF Sections
<1>2. Numbered' /\ CurrentExists'
  BY NumbersStay
<1> QED BY <1>1, <1>2

-----------------------------------------------------------------------------
(* The actions, one lemma each.                                            *)
LEMMA TypesThen ==
  ASSUME TypeOK, call' \in [Call -> CallRec], queue' \in [Runtime -> Seq(Call)], file' \in [Profile -> SUBSET Id],
         rows' \in SUBSET RowRec, current' \in [Route -> [Type -> Id \cup {NoId}]], UNCHANGED <<buffer, timers, byHand, bounds>>
  PROVE  TypeOK'
BY DEF TypeOK, CallRec, RowRec, byHand, bounds

LEMMA MoveKeeps ==
  ASSUME ApplicationInv, NEW c \in Call, call' \in [Call -> CallRec], Quiet, SentKept, Others(c), Merged',
         call[c].at # "buffered", call'[c].at # "buffered", UNCHANGED <<buffer, timers>>,
         \A d \in Call \ {c} : call'[d].id = call[d].id, Identifies(c)
  PROVE  Fresh' /\ Routed' /\ Keyed' /\ Entries' /\ Alone' /\ Buffers' /\ Timed' /\ Merged' /\ KeysStay /\ OthersHold(c)
<1>1. Routed' /\ Keyed' /\ Entries' /\ Alone'
  BY QuietKeys, QuietEntries, QuietAlone DEF ApplicationInv
<1>2. Buffers' /\ Timed'
  BY OthersBuffers, TimedStay DEF ApplicationInv
<1>3. Fresh' /\ KeysStay
  BY FreshMoves DEF ApplicationInv
<1> QED BY <1>1, <1>2, <1>3, OthersAreHeld

LEMMA OthersAreCalm ==
  ASSUME NEW c \in Call, Others(c), \A d \in Call \ {c} : call'[d].id = call[d].id, NEW d \in Call \ {c},
         call'[d].at = "conflict" => call[d].at = "conflict"
  PROVE  Calm(d)
BY DEF Calm, Others, Static, InSection, Ended

LEMMA StoreUntouched ==
  ASSUME TypeOK, UNCHANGED <<file, rows, current, byHand, bounds>>
  PROVE  StoreStays /\ rows' \in SUBSET RowRec /\ file' \in [Profile -> SUBSET Id] /\ current' \in [Route -> [Type -> Id \cup {NoId}]]
<1>1. /\ rows \in SUBSET RowRec /\ file \in [Profile -> SUBSET Id] /\ current \in [Route -> [Type -> Id \cup {NoId}]]
      /\ day \in Nat /\ day \in Days
  <2>1. /\ rows \in SUBSET RowRec /\ file \in [Profile -> SUBSET Id] /\ current \in [Route -> [Type -> Id \cup {NoId}]]
        /\ day \in Days
    BY Types DEF TypeOK
  <2> QED BY <2>1 DEF Days
<1>2. rows' = rows /\ file' = file /\ current' = current /\ day' = day /\ created' = created /\ deleted' = deleted
  BY DEF bounds, byHand
<1>3. day <= day'
  BY <1>1, <1>2
<1> QED BY <1>1, <1>2, <1>3 DEF StoreStays

(* The calls that move without touching a section or the store.            *)
LEMMA OutsideStore ==
  ASSUME ApplicationInv, NEW c \in Call, call' \in [Call -> CallRec], Quiet, SentKept, Others(c), Merged',
         call[c].at # "buffered", call'[c].at \notin {"buffered", "conflict", "queued"} \cup InSection,
         \A d \in Call \ {c} : call'[d].id = call[d].id /\ (call'[d].at = "conflict" => call[d].at = "conflict"),
         call'[c].id = call[c].id \/ (call[c].at = "queued" /\ call[c].op # "named"),
         UNCHANGED <<buffer, timers>>, StoreStays, TypeOK', Queues'
  PROVE  ApplicationInv'
<1>1. Fresh' /\ Routed' /\ Keyed' /\ Entries' /\ Alone' /\ Buffers' /\ Timed' /\ Merged' /\ KeysStay
  BY MoveKeeps DEF Identifies
<1>2. \A d \in Call : Calm(d)
  BY OthersAreCalm DEF Calm
<1>3. Sections' /\ Numbered' /\ CurrentExists'
  BY <1>1, <1>2, CalmStore DEF ApplicationInv
<1> QED BY <1>1, <1>3 DEF ApplicationInv

LEMMA OutsideKeeps ==
  ASSUME ApplicationInv, NEW c \in Call, call' \in [Call -> CallRec], Quiet, SentKept, Others(c), Merged',
         call[c].at # "buffered", call'[c].at \notin {"buffered", "conflict", "queued"} \cup InSection,
         \A d \in Call \ {c} : call'[d].id = call[d].id /\ (call'[d].at = "conflict" => call[d].at = "conflict"),
         call'[c].id = call[c].id \/ (call[c].at = "queued" /\ call[c].op # "named"),
         UNCHANGED <<buffer, timers, file, rows, current, byHand, bounds>>,
         queue' \in [Runtime -> Seq(Call)], Queues'
  PROVE  ApplicationInv'
<1>1. StoreStays /\ TypeOK'
  BY StoreUntouched, TypesThen DEF ApplicationInv
<1> QED BY <1>1, OutsideStore

LEMMA QueueUntouched ==
  ASSUME TypeOK, Queues, UNCHANGED queue, NEW c \in Call, Others(c), ~Holds(c), ~Holds(c)'
  PROVE  queue' \in [Runtime -> Seq(Call)] /\ Queues'
<1>1. OthersHold(c)
  BY OthersAreHeld
<1> QED BY <1>1, QueueStays, Types

LEMMA InboundFailsKeeps ==
  ASSUME ApplicationInv, NEW c \in Call, InboundFails(c)
  PROVE  ApplicationInv'
<1>1. call[c].at = "inbound" /\ Settle(c, "failed") /\ UNCHANGED <<buffer, timers, queue, file, rows, current, byHand, bounds>> /\ "failed" \in Ended
  BY DEF InboundFails, Ended
<1>2. /\ call' \in [Call -> CallRec] /\ Quiet /\ SentKept /\ Others(c) /\ call'[c].at = "failed"
      /\ \A d \in Call : call'[d].id = call[d].id
      /\ \A d \in Call : call'[d].at = IF d \in EntriesOf(c) \cup {c} THEN "failed" ELSE call[d].at
  BY <1>1, SettleKeeps DEF ApplicationInv
<1>3. Merged'
  BY <1>1, MergedSettle DEF ApplicationInv
<1>4. ~Holds(c) /\ ~Holds(c)'
  BY <1>1, <1>2 DEF Holds, InSection
<1>5. queue' \in [Runtime -> Seq(Call)] /\ Queues'
  BY <1>1, <1>2, <1>4, QueueUntouched DEF ApplicationInv
<1> QED BY <1>1, <1>2, <1>3, <1>5, OutsideKeeps DEF InSection

LEMMA IgnoresKeeps ==
  ASSUME ApplicationInv, NEW c \in Call, call[c].at = "inbound", Ignores(c), UNCHANGED <<file, rows, current, byHand, bounds>>
  PROVE  ApplicationInv'
<1>1. Go(c, "ignored") /\ UNCHANGED <<buffer, timers, queue, file, rows, current, byHand, bounds>> /\ "ignored" \in Ended /\ "ignored" \in At
  BY DEF Ignores, Ended, At
<1>2. /\ call' \in [Call -> CallRec] /\ Quiet /\ SentKept /\ Others(c) /\ call'[c].at = "ignored"
      /\ \A d \in Call : call'[d].id = call[d].id
      /\ \A d \in Call : call'[d].at = IF d = c THEN "ignored" ELSE call[d].at
  BY <1>1, GoKeeps, GoEffect DEF ApplicationInv
<1>3. Merged'
  <2>1. EntriesOf(c) = {}
    BY DEF ApplicationInv, Entries, Waiting
  <2> QED BY <1>2, <2>1, MergedStay, QuietSame DEF ApplicationInv
<1>4. ~Holds(c) /\ ~Holds(c)'
  BY <1>1, <1>2 DEF Holds, InSection
<1>5. queue' \in [Runtime -> Seq(Call)] /\ Queues'
  BY <1>1, <1>2, <1>4, QueueUntouched DEF ApplicationInv
<1> QED BY <1>1, <1>2, <1>3, <1>5, OutsideKeeps DEF InSection

LEMMA PromptKeeps ==
  ASSUME ApplicationInv, NEW c \in Call, NEW yes \in BOOLEAN, Prompt(c, yes)
  PROVE  ApplicationInv'
<1>1. call[c].at = "prompt" /\ UNCHANGED <<buffer, timers, queue, file, rows, current, byHand, bounds>>
  BY DEF Prompt
<1>2. ASSUME NEW a \in {"refused", "failed"}, Settle(c, a) PROVE ApplicationInv'
  <2>1. a \in Ended
    BY DEF Ended
  <2>2. /\ call' \in [Call -> CallRec] /\ Quiet /\ SentKept /\ Others(c) /\ call'[c].at = a
        /\ \A d \in Call : call'[d].id = call[d].id
        /\ \A d \in Call : call'[d].at = IF d \in EntriesOf(c) \cup {c} THEN a ELSE call[d].at
    BY <1>2, <2>1, SettleKeeps DEF ApplicationInv
  <2>3. Merged'
    BY <1>2, <2>1, MergedSettle DEF ApplicationInv
  <2>4. ~Holds(c) /\ ~Holds(c)'
    BY <1>1, <2>2 DEF Holds, InSection
  <2>5. queue' \in [Runtime -> Seq(Call)] /\ Queues'
    BY <1>1, <2>2, <2>4, QueueUntouched DEF ApplicationInv
  <2> QED BY <1>1, <2>2, <2>3, <2>5, OutsideKeeps DEF InSection
<1>3. CASE ~Settle(c, "refused") /\ ~Settle(c, "failed")
  <2>1. TypeOK /\ Fresh /\ Entries /\ Merged /\ Queues /\ Buffers /\ Timed /\ Routed /\ Keyed /\ Alone
    BY DEF ApplicationInv
  <2>2. /\ call' \in [Call -> CallRec]
        /\ \A d \in Call : /\ Static(d) /\ call'[d].id = call[d].id
                           /\ call'[d].at = IF d = c THEN "prompting" ELSE call[d].at
                           /\ call'[d].sent = IF d \in EntriesOf(c) THEN call[d].sent + 1 ELSE call[d].sent
    BY <1>3, <2>1, PromptEffect
  <2>3. Quiet /\ Others(c)
    BY <1>1, <2>2 DEF Quiet, Others, Dispatched
  <2>4. Entries'
    BY <1>1, <2>1, <2>2, <2>3, PromptEntries
  <2>5. Routed' /\ Keyed' /\ Alone'
    BY <2>1, <2>3, QuietKeys, QuietAlone
  <2>6. Merged'
    BY <1>1, <2>1, <2>2, <2>3, MergedStay, QuietSame DEF Ended
  <2>7. Buffers' /\ Timed'
    BY <1>1, <2>1, <2>2, <2>3, OthersBuffers, TimedStay
  <2>8. ~Holds(c) /\ ~Holds(c)'
    BY <1>1, <2>2 DEF Holds, InSection
  <2>9. queue' \in [Runtime -> Seq(Call)] /\ Queues'
    BY <1>1, <2>1, <2>3, <2>8, QueueUntouched
  <2>10. \A d \in Call : Calm(d)
    BY <2>2 DEF Calm, Static, InSection
  <2>11. StoreStays /\ TypeOK'
    BY <1>1, <2>1, <2>2, <2>9, StoreUntouched, TypesThen
  <2>12. Fresh' /\ KeysStay
    BY <1>1, <2>1, <2>2, <2>3, FreshMoves DEF Identifies
  <2>13. Sections' /\ Numbered' /\ CurrentExists'
    BY <2>1, <2>10, <2>11, <2>12, CalmStore DEF ApplicationInv
  <2> QED BY <2>4, <2>5, <2>6, <2>7, <2>9, <2>11, <2>12, <2>13 DEF ApplicationInv
<1> QED BY <1>2, <1>3

LEMMA PromptedKeeps ==
  ASSUME ApplicationInv, NEW c \in Call, NEW ok \in BOOLEAN, Prompted(c, ok)
  PROVE  ApplicationInv'
<1>1. PICK a \in {"done", "failed"} : Settle(c, a)
  BY DEF Prompted
<1>2. call[c].at = "prompting" /\ UNCHANGED <<buffer, timers, queue, file, rows, current, byHand, bounds>> /\ a \in Ended
  BY DEF Prompted, Ended
<1>3. /\ call' \in [Call -> CallRec] /\ Quiet /\ SentKept /\ Others(c) /\ call'[c].at = a
      /\ \A d \in Call : call'[d].id = call[d].id
      /\ \A d \in Call : call'[d].at = IF d \in EntriesOf(c) \cup {c} THEN a ELSE call[d].at
  BY <1>1, <1>2, SettleKeeps DEF ApplicationInv
<1>4. Merged'
  BY <1>1, <1>2, MergedSettle DEF ApplicationInv
<1>5. ~Holds(c) /\ ~Holds(c)'
  BY <1>2, <1>3 DEF Holds, InSection
<1>6. queue' \in [Runtime -> Seq(Call)] /\ Queues'
  BY <1>2, <1>3, <1>5, QueueUntouched DEF ApplicationInv
<1> QED BY <1>2, <1>3, <1>4, <1>6, OutsideKeeps DEF InSection

LEMMA HandoffKeeps ==
  ASSUME ApplicationInv, NEW c \in Call, Handoff(c)
  PROVE  ApplicationInv'
<1>1. call[c].at = "handoff" /\ UNCHANGED <<buffer, timers, file, rows, current, byHand, bounds>>
  BY DEF Handoff
<1>2. CASE call[c].op = "rollover"
  <2>1. Go(c, "done") /\ queue' = Left(c) /\ "done" \in Ended /\ "done" \in At
    BY <1>2 DEF Handoff, Ended, At
  <2>2. /\ call' \in [Call -> CallRec] /\ Quiet /\ SentKept /\ Others(c) /\ call'[c].at = "done"
        /\ \A d \in Call : call'[d].id = call[d].id
        /\ \A d \in Call : call'[d].at = IF d = c THEN "done" ELSE call[d].at
    BY <2>1, GoKeeps, GoEffect DEF ApplicationInv
  <2>3. Merged'
    <3>1. \A d \in Call : d \in EntriesOf(c) => d = c
      BY <1>2 DEF ApplicationInv, Alone
    <3>2. ASSUME NEW d \in Call, call'[d].at = "merged"
          PROVE  \E e \in Call : d \in EntriesOf(e)' /\ call'[e].at \notin Ended
      <4>1. d # c /\ call[d].at = "merged"
        BY <2>2, <3>2
      <4>2. PICK e \in Call : d \in EntriesOf(e) /\ call[e].at \notin Ended
        BY <4>1 DEF ApplicationInv, Merged
      <4>3. e # c
        BY <3>1, <4>1, <4>2
      <4> QED BY <2>2, <4>2, <4>3, QuietSame
    <3> QED BY <3>2 DEF Merged
  <2>4. Holds(c) /\ ~Holds(c)'
    BY <1>1, <1>2, <2>2 DEF Holds, InSection
  <2>5. queue' \in [Runtime -> Seq(Call)] /\ Queues'
    BY <2>1, <2>2, <2>4, QueueLeaves, OthersAreHeld DEF ApplicationInv
  <2> QED BY <1>1, <2>2, <2>3, <2>5, OutsideKeeps DEF InSection
<1>3. CASE call[c].op # "rollover"
  <2>1. Go(c, "prompt") /\ queue' = queue /\ "prompt" \in At
    BY <1>3 DEF Handoff, At
  <2>2. /\ call' \in [Call -> CallRec] /\ Quiet /\ SentKept /\ Others(c) /\ call'[c].at = "prompt" /\ call'[c].op = call[c].op
        /\ \A d \in Call : call'[d].id = call[d].id
        /\ \A d \in Call : call'[d].at = IF d = c THEN "prompt" ELSE call[d].at
    BY <1>1, <2>1, GoKeeps, GoEffect DEF ApplicationInv, Dispatched, Kept, Static
  <2>3. Merged'
    BY <1>1, <2>2, MergedStay, QuietSame DEF ApplicationInv, Ended
  <2>4. ~Holds(c) /\ ~Holds(c)'
    BY <1>1, <1>3, <2>2 DEF Holds, InSection
  <2>5. queue' \in [Runtime -> Seq(Call)] /\ Queues'
    BY <1>1, <2>1, <2>2, <2>4, QueueUntouched DEF ApplicationInv
  <2> QED BY <1>1, <2>2, <2>3, <2>5, OutsideKeeps DEF InSection
<1> QED BY <1>2, <1>3

LEMMA ReceiveKeeps ==
  ASSUME ApplicationInv, NEW c \in Call, NEW op \in Op, NEW i \in Identity, NEW id \in Id \cup {NoId}, Receive(c, op, i, id)
  PROVE  ApplicationInv'
<1>1. call[c].at = "new" /\ UNCHANGED <<buffer, timers, queue, file, rows, current, byHand, bounds>>
  BY DEF Receive
<1>2. TypeOK /\ Routed /\ Keyed /\ Entries /\ Alone /\ Buffers /\ Timed /\ Merged /\ Queues
  BY DEF ApplicationInv
<1>3. /\ call' \in [Call -> CallRec]
      /\ \A d \in Call \ {c} : Kept(d) /\ call'[d].at = call[d].at
      /\ call'[c].at = "inbound" /\ call'[c].entries = call[c].entries
  BY <1>2, ReceiveEffect
<1>4. Routed' /\ Keyed' /\ Entries' /\ Alone'
  BY <1>2, ReceiveKeys
<1>5. Buffers'
  BY <1>1, <1>2, <1>3, BuffersStay DEF Kept, Static
<1>6. Timed'
  BY <1>1, <1>2, TimedStay
<1>7. Merged'
  <2>1. \A d \in Call : EntriesOf(d)' = EntriesOf(d)
    BY <1>3 DEF Kept, Static, EntriesOf
  <2> QED BY <1>1, <1>2, <1>3, <2>1, MergedStay DEF Ended
<1>8. Queues' /\ queue' \in [Runtime -> Seq(Call)]
  <2>1. OthersHold(c) /\ ~Holds(c) /\ ~Holds(c)'
    BY <1>1, <1>3 DEF OthersHold, Holds, InSection, Kept, Static
  <2> QED BY <1>1, <1>2, <2>1, QueueStays, Types
<1>9. KeysStay
  <2>1. call[c].key = NoKey
    BY <1>1, <1>2 DEF Keyed, Early
  <2> QED BY <1>3, <2>1 DEF KeysStay, Kept, Static
<1>10. \A d \in Call : Calm(d)
  BY <1>1, <1>3 DEF Calm, Kept, Static, InSection
<1>11. StoreStays /\ TypeOK'
  BY <1>1, <1>2, <1>3, <1>8, StoreUntouched, TypesThen
<1>12. Sections' /\ Numbered' /\ CurrentExists'
  BY <1>2, <1>9, <1>10, <1>11, CalmStore DEF ApplicationInv
<1>13. Fresh'
  <2>1. \A d \in Call : EntriesOf(d)' = EntriesOf(d)
    BY <1>3 DEF Kept, Static, EntriesOf
  <2>2. EntriesOf(c) = {} /\ \A e \in Call : c \notin EntriesOf(e)
    BY <1>1, <1>2 DEF Entries, Waiting
  <2>3. /\ call'[c].op # "named" => call'[c].id = NoId
        /\ call'[c].op = "named" => call'[c].id \in Id
    <3>1. IF op = "named" THEN id \in Names ELSE id = NoId
      BY DEF Receive
    <3>2. call'[c].op = op /\ call'[c].id = id
      BY <1>2, ReceiveEffect
    <3> QED BY <3>1, <3>2, ApplicationsAssumption DEF ApplicationsAssumption
  <2> QED BY <1>3, <2>1, <2>2, <2>3 DEF ApplicationInv, Fresh, Kept, Static
<1> QED BY <1>4, <1>5, <1>6, <1>7, <1>8, <1>11, <1>12, <1>13 DEF ApplicationInv

LEMMA IsBufferedKeeps ==
  ASSUME ApplicationInv, NEW c \in Call, call[c].at = "inbound", IsBuffered(c), UNCHANGED <<file, rows, current, byHand, bounds>>
  PROVE  ApplicationInv'
<1>1. TypeOK /\ Routed /\ Keyed /\ Entries /\ Alone /\ Buffers /\ Timed /\ Merged /\ Queues
  BY DEF ApplicationInv
<1>2. /\ call' \in [Call -> CallRec]
      /\ \A d \in Call \ {c} : Kept(d) /\ call'[d].at = call[d].at
      /\ call'[c].at = "buffered" /\ call'[c].entries = call[c].entries
      /\ call'[c].runtime = call[c].runtime /\ call'[c].identity = call[c].identity
      /\ call'[c].op = call[c].op /\ call'[c].id = call[c].id
  BY <1>1, IsBufferedEffect
<1>3. UNCHANGED queue
  BY DEF IsBuffered
<1>4. Routed' /\ Keyed' /\ Entries' /\ Alone'
  BY <1>1, BufferedKeys
<1>5. PICK g \in Runtime, i \in Identity : g = call[c].runtime /\ i = call[c].identity
  BY <1>1, CallParts
<1> DEFINE b == buffer[g][i]
<1> DEFINE v == b.version + 1
<1> DEFINE t == [identity |-> i, version |-> v]
<1>6. b \in BufferRec /\ b.version \in Nat /\ b.entries \in Seq(Call)
  BY <1>1, BufType
<1>7. buffer' = [buffer EXCEPT ![g][i] = [version |-> v, entries |-> Append(b.entries, c)]]
  BY <1>5 DEF IsBuffered
<1>8. timers' = [timers EXCEPT ![g] = Append(@, t)]
  BY <1>5 DEF IsBuffered
<1>9. c \notin Range(b.entries) /\ Once(b.entries)
  BY <1>1 DEF Buffers
<1>10. Append(b.entries, c) \in Seq(Call) /\ Once(Append(b.entries, c)) /\ Range(Append(b.entries, c)) = Range(b.entries) \cup {c}
  <2> HIDE DEF b
  <2> QED BY <1>6, <1>9, OnceAppend
<1>11. /\ buffer' \in [Runtime -> [Identity -> BufferRec]]
       /\ buffer'[g][i] = [version |-> v, entries |-> Append(b.entries, c)]
       /\ \A h \in Runtime, j \in Identity : h # g \/ j # i => buffer'[h][j] = buffer[h][j]
  <2> DEFINE new == [version |-> v, entries |-> Append(b.entries, c)]
  <2>1. new \in BufferRec
    BY <1>6, <1>10 DEF BufferRec
  <2>2. buffer' = [buffer EXCEPT ![g][i] = new]
    BY <1>7
  <2> HIDE DEF new
  <2>3. /\ buffer' \in [Runtime -> [Identity -> BufferRec]] /\ buffer'[g][i] = new
        /\ \A h \in Runtime, j \in Identity : h # g \/ j # i => buffer'[h][j] = buffer[h][j]
    <3>1. buffer \in [Runtime -> [Identity -> BufferRec]]
      BY <1>1, Types
    <3> QED BY <2>1, <2>2, <3>1
  <2> QED BY <2>3 DEF new
<1>12. /\ timers' \in [Runtime -> Seq(TimerRec)]
       /\ \A h \in Runtime \ {g} : timers'[h] = timers[h]
       /\ DOMAIN timers'[g] = 1..Len(timers[g]) + 1 /\ Len(timers[g]) \in Nat /\ DOMAIN timers[g] = 1..Len(timers[g])
       /\ \A n \in DOMAIN timers[g] : timers'[g][n] = timers[g][n]
       /\ timers'[g][Len(timers[g]) + 1] = t
  <2>0. v \in Nat
    BY <1>6
  <2>1. t \in TimerRec /\ timers \in [Runtime -> Seq(TimerRec)]
    <3> HIDE DEF v
    <3> QED BY <1>1, <2>0, Types DEF TimerRec
  <2> HIDE DEF t
  <2>2. timers[g] \in Seq(TimerRec)
    BY <2>1
  <2>3. /\ Append(timers[g], t) \in Seq(TimerRec) /\ Len(Append(timers[g], t)) = Len(timers[g]) + 1
        /\ \A n \in 1..Len(timers[g]) : Append(timers[g], t)[n] = timers[g][n]
        /\ Append(timers[g], t)[Len(timers[g]) + 1] = t
    BY <2>1, <2>2, AppendProperties
  <2>4. timers'[g] = Append(timers[g], t) /\ \A h \in Runtime \ {g} : timers'[h] = timers[h]
    BY <1>8, <2>1
  <2>5. timers' \in [Runtime -> Seq(TimerRec)]
    BY <1>8, <2>1, <2>3
  <2>6. DOMAIN timers[g] = 1..Len(timers[g]) /\ Len(timers[g]) \in Nat /\ DOMAIN timers'[g] = 1..Len(timers[g]) + 1
    BY <2>2, <2>3, <2>4
  <2> QED BY <2>3, <2>4, <2>5, <2>6
<1>22. /\ Once(buffer'[g][i].entries) /\ Range(buffer'[g][i].entries) = Range(buffer[g][i].entries) \cup {c}
       /\ buffer'[g][i].version = v
  BY <1>10, <1>11
<1>23. \A h \in Runtime, j \in Identity : h # g \/ j # i => buffer'[h][j] = buffer[h][j]
  BY <1>11
<1> HIDE DEF b, v, t
<1>13. Buffers'
  <2>1. \A h \in Runtime, j \in Identity : Once(buffer'[h][j].entries)
    <3> TAKE h \in Runtime, j \in Identity
    <3>1. CASE h = g /\ j = i
      BY <1>22, <3>1
    <3>2. CASE h # g \/ j # i
      BY <1>1, <1>23, <3>2 DEF Buffers
    <3> QED BY <3>1, <3>2
  <2>2. ASSUME NEW d \in Call, NEW h \in Runtime, NEW j \in Identity
        PROVE  d \in Range(buffer'[h][j].entries) <=> (call'[d].at = "buffered" /\ call'[d].runtime = h /\ call'[d].identity = j)
    <3>1. CASE d = c
      <4>1. d \in Range(buffer'[h][j].entries) <=> h = g /\ j = i
        <5>1. CASE h = g /\ j = i
          BY <1>22, <3>1, <5>1
        <5>2. CASE h # g \/ j # i
          BY <1>1, <1>23, <3>1, <5>2 DEF Buffers
        <5> QED BY <5>1, <5>2
      <4> QED BY <1>2, <1>5, <3>1, <4>1
    <3>2. CASE d # c
      <4>1. d \in Range(buffer'[h][j].entries) <=> d \in Range(buffer[h][j].entries)
        BY <1>11, <1>22, <3>2
      <4> QED BY <1>1, <1>2, <3>2, <4>1 DEF Buffers, Kept, Static
    <3> QED BY <3>1, <3>2
  <2> QED BY <2>1, <2>2 DEF Buffers
<1>14. Timed'
  <2>1. ASSUME NEW h \in Runtime, NEW j \in Identity, buffer'[h][j].entries # <<>>
        PROVE  \E n \in DOMAIN timers'[h] : timers'[h][n] = [identity |-> j, version |-> buffer'[h][j].version]
    <3>1. CASE h = g /\ j = i
      <4>1. Len(timers[g]) + 1 \in DOMAIN timers'[g] /\ buffer'[g][i].version = v
        BY <1>12, <1>22
      <4> QED BY <1>12, <3>1, <4>1 DEF t
    <3>2. CASE h # g \/ j # i
      <4>1. PICK n \in DOMAIN timers[h] : timers[h][n] = [identity |-> j, version |-> buffer[h][j].version]
        BY <1>1, <1>11, <2>1, <3>2 DEF Timed
      <4>2. n \in DOMAIN timers'[h] /\ timers'[h][n] = timers[h][n]
        BY <1>12
      <4> QED BY <1>11, <3>2, <4>1, <4>2
    <3> QED BY <3>1, <3>2
  <2> QED BY <2>1 DEF Timed
<1>15. Merged'
  <2>1. \A d \in Call : EntriesOf(d)' = EntriesOf(d)
    BY <1>2 DEF Kept, Static, EntriesOf
  <2> QED BY <1>1, <1>2, <2>1, MergedStay DEF Ended
<1>16. Queues' /\ queue' \in [Runtime -> Seq(Call)]
  <2>1. OthersHold(c) /\ ~Holds(c) /\ ~Holds(c)'
    BY <1>2 DEF OthersHold, Holds, InSection, Kept, Static
  <2> QED BY <1>1, <1>3, <2>1, QueueStays, Types
<1>17. KeysStay
  <2>1. call[c].key = NoKey
    BY <1>1 DEF Keyed, Early
  <2> QED BY <1>2, <2>1 DEF KeysStay, Kept, Static
<1>18. \A d \in Call : Calm(d)
  BY <1>2 DEF Calm, Kept, Static, InSection
<1>19. StoreStays
  BY <1>1, StoreUntouched
<1>20. TypeOK'
  BY <1>1, <1>2, <1>11, <1>12, <1>16 DEF TypeOK, CallRec, BufferRec, TimerRec, byHand, bounds
<1>21. Sections' /\ Numbered' /\ CurrentExists'
  BY <1>1, <1>17, <1>18, <1>19, CalmStore DEF ApplicationInv
<1>24. Fresh'
  <2>1. \A d \in Call : EntriesOf(d)' = EntriesOf(d)
    BY <1>2 DEF Kept, Static, EntriesOf
  <2>2. ASSUME NEW d \in Call
        PROVE  /\ call'[d].op = call[d].op /\ call'[d].id = call[d].id
               /\ call'[d].at \in Early \cup {"queued"} => call[d].at \in Early \cup {"queued"}
    BY <1>2 DEF Kept, Static, Early
  <2> QED BY <2>1, <2>2 DEF ApplicationInv, Fresh
<1> QED BY <1>4, <1>13, <1>14, <1>15, <1>16, <1>20, <1>21, <1>24 DEF ApplicationInv

LEMMA IsQueuedKeeps ==
  ASSUME ApplicationInv, NEW c \in Call, call[c].at = "inbound", IsQueued(c), UNCHANGED <<file, rows, current, byHand, bounds>>
  PROVE  ApplicationInv'
<1>1. TypeOK /\ Fresh /\ Routed /\ Keyed /\ Entries /\ Alone /\ Buffers /\ Timed /\ Merged /\ Queues
  BY DEF ApplicationInv
<1>2. /\ call' \in [Call -> CallRec]
      /\ \A d \in Call \ {c} : Kept(d) /\ call'[d].at = call[d].at
      /\ call'[c].at = "queued" /\ call'[c].runtime = call[c].runtime
      /\ call'[c].op = call[c].op /\ call'[c].id = call[c].id /\ call'[c].entries = <<c>>
  BY <1>1, IsQueuedEffect
<1>3. UNCHANGED <<buffer, timers>> /\ queue' = Joined(c)
  BY DEF IsQueued
<1>4. Routed' /\ Keyed' /\ Entries' /\ Alone'
  BY <1>1, QueuedKeys
<1>5. Buffers'
  BY <1>1, <1>2, <1>3, BuffersStay DEF Kept, Static
<1>6. Timed'
  BY <1>1, <1>3, TimedStay
<1>7. Merged'
  <2>1. \A d \in Call \ {c} : EntriesOf(d)' = EntriesOf(d)
    BY <1>2 DEF Kept, Static, EntriesOf
  <2>2. EntriesOf(c) = {}
    BY <1>1 DEF Entries, Waiting
  <2> QED BY <1>1, <1>2, <2>1, <2>2, MergedStay DEF Ended
<1>8. Queues' /\ queue' \in [Runtime -> Seq(Call)]
  <2>1. OthersHold(c) /\ ~Holds(c)
    BY <1>2 DEF OthersHold, Holds, InSection, Kept, Static
  <2> QED BY <1>1, <1>2, <1>3, <2>1, QueueJoins
<1>9. KeysStay
  <2>1. call[c].key = NoKey
    BY <1>1 DEF Keyed, Early
  <2> QED BY <1>2, <2>1 DEF KeysStay, Kept, Static
<1>10. \A d \in Call : Calm(d)
  BY <1>2 DEF Calm, Kept, Static, InSection
<1>11. StoreStays /\ TypeOK'
  BY <1>1, <1>2, <1>3, <1>8, StoreUntouched, TypesThen
<1>12. Sections' /\ Numbered' /\ CurrentExists'
  BY <1>1, <1>9, <1>10, <1>11, CalmStore DEF ApplicationInv
<1>13. Fresh'
  <2>1. EntriesOf(c)' = {c} /\ \A d \in Call \ {c} : EntriesOf(d)' = EntriesOf(d)
    BY <1>2 DEF Kept, Static, EntriesOf, Range
  <2>2. ASSUME NEW d \in Call
        PROVE  /\ call'[d].op = call[d].op /\ call'[d].id = call[d].id
               /\ call'[d].at \in Early \cup {"queued"} => call[d].at \in Early \cup {"queued"}
    BY <1>2 DEF Kept, Static, Early
  <2> QED BY <1>1, <2>1, <2>2 DEF Fresh
<1> QED BY <1>4, <1>5, <1>6, <1>7, <1>8, <1>11, <1>12, <1>13 DEF ApplicationInv

LEMMA CollectKeeps ==
  ASSUME ApplicationInv, NEW c \in Call, NEW yes \in BOOLEAN, Collect(c, yes)
  PROVE  ApplicationInv'
<1>1. /\ call[c].at = "inbound" /\ UNCHANGED <<file, rows, current, byHand, bounds>>
      /\ Ignores(c) \/ IsBuffered(c) \/ IsQueued(c)
  BY CollectCases DEF ApplicationInv
<1> QED BY <1>1, IgnoresKeeps, IsBufferedKeeps, IsQueuedKeeps

LEMMA TimersLess ==
  ASSUME TypeOK, NEW g \in Runtime, NEW n \in DOMAIN timers[g], timers' = [timers EXCEPT ![g] = RemoveAt(@, n)]
  PROVE  /\ timers' \in [Runtime -> Seq(TimerRec)]
         /\ \A h \in Runtime : \A m \in DOMAIN timers[h] :
              h # g \/ m # n => \E k \in DOMAIN timers'[h] : timers'[h][k] = timers[h][m]
<1>1. timers \in [Runtime -> Seq(TimerRec)] /\ timers[g] \in Seq(TimerRec)
  BY Types
<1>2. timers'[g] = RemoveAt(timers[g], n) /\ \A h \in Runtime \ {g} : timers'[h] = timers[h]
  BY <1>1
<1>3. RemoveAt(timers[g], n) \in Seq(TimerRec)
  BY <1>1, RemoveAtEffect
<1>4. timers' \in [Runtime -> Seq(TimerRec)]
  BY <1>1, <1>3
<1>5. ASSUME NEW m \in DOMAIN timers[g], m # n
      PROVE  \E k \in DOMAIN timers'[g] : timers'[g][k] = timers[g][m]
  BY <1>1, <1>2, <1>5, RemoveAtKeeps
<1> QED BY <1>2, <1>4, <1>5

LEMMA SupersededKeeps ==
  ASSUME ApplicationInv, NEW g \in Runtime, NEW n \in DOMAIN timers[g], Flush(g, n), ~Live(g, n)
  PROVE  ApplicationInv'
<1>1. TypeOK /\ Timed
  BY DEF ApplicationInv
<1>2. /\ timers' = [timers EXCEPT ![g] = RemoveAt(@, n)]
      /\ UNCHANGED <<buffer, call, queue, file, rows, current, byHand, bounds>>
  BY <1>1, FlushCases
<1>3. /\ timers' \in [Runtime -> Seq(TimerRec)]
      /\ \A h \in Runtime : \A m \in DOMAIN timers[h] :
           h # g \/ m # n => \E k \in DOMAIN timers'[h] : timers'[h][k] = timers[h][m]
  BY <1>1, <1>2, TimersLess
<1>4. TypeOK'
  BY <1>1, <1>2, <1>3 DEF TypeOK, TimerRec, byHand, bounds
<1>5. Timed'
  <2>1. ASSUME NEW h \in Runtime, NEW i \in Identity, buffer'[h][i].entries # <<>>
        PROVE  \E k \in DOMAIN timers'[h] : timers'[h][k] = [identity |-> i, version |-> buffer'[h][i].version]
    <3>1. PICK m \in DOMAIN timers[h] : timers[h][m] = [identity |-> i, version |-> buffer[h][i].version]
      BY <1>1, <1>2, <2>1 DEF Timed
    <3>2. h # g \/ m # n
      <4>1. ASSUME h = g, m = n PROVE FALSE
        <5>1. timers[g][n].identity = i /\ timers[g][n].version = buffer[g][i].version
          BY <3>1, <4>1
        <5> QED BY <1>2, <2>1, <4>1, <5>1 DEF Live, Buf
      <4> QED BY <4>1
    <3> QED BY <1>2, <1>3, <3>1, <3>2
  <2> QED BY <2>1 DEF Timed
<1>6. Fresh' /\ Routed' /\ Keyed' /\ Buffers' /\ Entries' /\ Alone' /\ Merged' /\ Queues'
  <2>1. Routed' /\ Keyed'
    BY <1>2 DEF ApplicationInv, Routed, Keyed, TypeOf
  <2>2. Buffers' /\ Merged'
    BY <1>2 DEF ApplicationInv, Buffers, Merged, EntriesOf
  <2>3. Entries' /\ Alone'
    BY <1>2 DEF ApplicationInv, Entries, Alone, EntriesOf
  <2>4. Queues'
    BY <1>2 DEF ApplicationInv, Queues, Holds
  <2>5. Fresh'
    BY <1>2 DEF ApplicationInv, Fresh, EntriesOf
  <2> QED BY <2>1, <2>2, <2>3, <2>4, <2>5
<1>7. Numbered' /\ Sections' /\ CurrentExists'
  <2>1. (\A c \in Call : Calm(c)) /\ KeysStay
    BY <1>2 DEF Calm, KeysStay
  <2>2. StoreStays
    BY <1>1, <1>2, StoreUntouched
  <2> QED BY <2>1, <2>2, CalmStore DEF ApplicationInv
<1> QED BY <1>4, <1>5, <1>6, <1>7 DEF ApplicationInv

LEMMA LiveKeeps ==
  ASSUME ApplicationInv, NEW g \in Runtime, NEW n \in DOMAIN timers[g], Flush(g, n), Live(g, n),
         NEW s, s = Buf(g, n).entries, NEW l, l = Last(s), NEW i, i = timers[g][n].identity
  PROVE  ApplicationInv'
<1>1. TypeOK /\ Fresh /\ Routed /\ Keyed /\ Entries /\ Alone /\ Buffers /\ Timed /\ Merged /\ Queues
  BY DEF ApplicationInv
<1>2. /\ timers' = [timers EXCEPT ![g] = RemoveAt(@, n)] /\ UNCHANGED <<file, rows, current, byHand, bounds>>
      /\ i \in Identity /\ buffer' = Flushed(g, i) /\ queue' = Joined(l)
  BY <1>1, FlushCases
<1>3. /\ timers' \in [Runtime -> Seq(TimerRec)]
      /\ \A h \in Runtime : \A m \in DOMAIN timers[h] :
           h # g \/ m # n => \E k \in DOMAIN timers'[h] : timers'[h][k] = timers[h][m]
  BY <1>1, <1>2, TimersLess
<1>4. /\ call' \in [Call -> CallRec]
      /\ s \in Seq(Call) /\ l \in Call /\ l \in Range(s)
      /\ \A d \in Call : d \in Range(s) => call[d].at = "buffered" /\ call[d].runtime = g /\ call[d].identity = i
      /\ \A d \in Call \ {l} : Kept(d) /\ call'[d].at = IF d \in Range(s) THEN "merged" ELSE call[d].at
      /\ call'[l].op = call[l].op /\ call'[l].identity = call[l].identity /\ call'[l].runtime = call[l].runtime
      /\ call'[l].at = "queued" /\ call'[l].entries = s /\ call'[l].id = call[l].id
  BY <1>1, FlushEffect
<1>5. Routed' /\ Keyed' /\ Entries' /\ Alone'
  BY <1>1, FlushKeys
<1>6. /\ buffer' \in [Runtime -> [Identity -> BufferRec]] /\ buffer'[g][i].entries = <<>>
      /\ \A h \in Runtime, j \in Identity : h # g \/ j # i => buffer'[h][j] = buffer[h][j]
  <2>1. Empty \in BufferRec /\ Empty.entries = <<>>
    BY DEF BufferRec, Empty
  <2>2. buffer' = [buffer EXCEPT ![g][i] = Empty]
    BY <1>2 DEF Flushed
  <2>3. /\ buffer' \in [Runtime -> [Identity -> BufferRec]] /\ buffer'[g][i] = Empty
        /\ \A h \in Runtime, j \in Identity : h # g \/ j # i => buffer'[h][j] = buffer[h][j]
    <3>1. i \in Identity
      BY <1>2
    <3>2. buffer \in [Runtime -> [Identity -> BufferRec]]
      BY <1>1, Types
    <3> QED BY <2>1, <2>2, <3>1, <3>2
  <2> QED BY <2>1, <2>3
<1>7. Buffers'
  <2>0. Range(<<>>) = {}
    BY DEF Range
  <2>1. \A h \in Runtime, j \in Identity : Once(buffer'[h][j].entries)
    <3> TAKE h \in Runtime, j \in Identity
    <3>1. CASE h = g /\ j = i
      BY <1>6, <3>1 DEF Once
    <3>2. CASE h # g \/ j # i
      BY <1>1, <1>6, <3>2 DEF Buffers
    <3> QED BY <3>1, <3>2
  <2>2. ASSUME NEW d \in Call, NEW h \in Runtime, NEW j \in Identity
        PROVE  d \in Range(buffer'[h][j].entries) <=> (call'[d].at = "buffered" /\ call'[d].runtime = h /\ call'[d].identity = j)
    <3>0. buffer[g][i].entries = s
      BY <1>2 DEF Buf
    <3>3. d \in Range(s) <=> (call[d].at = "buffered" /\ call[d].runtime = g /\ call[d].identity = i)
      BY <1>1, <1>2, <3>0 DEF Buffers
    <3>1. CASE h = g /\ j = i
      <4>1. ~(call'[d].at = "buffered" /\ call'[d].runtime = g /\ call'[d].identity = i)
        BY <1>4, <3>3 DEF Kept, Static
      <4> QED BY <1>6, <2>0, <3>1, <4>1
    <3>2. CASE h # g \/ j # i
      <4>1. d \in Range(buffer'[h][j].entries) <=> (call[d].at = "buffered" /\ call[d].runtime = h /\ call[d].identity = j)
        BY <1>1, <1>6, <3>2 DEF Buffers
      <4> QED BY <1>4, <3>2, <4>1 DEF Kept, Static
    <3> QED BY <3>1, <3>2
  <2> QED BY <2>1, <2>2 DEF Buffers
<1>8. Timed'
  <2>1. ASSUME NEW h \in Runtime, NEW j \in Identity, buffer'[h][j].entries # <<>>
        PROVE  \E k \in DOMAIN timers'[h] : timers'[h][k] = [identity |-> j, version |-> buffer'[h][j].version]
    <3>0. h # g \/ j # i
      BY <1>6, <2>1
    <3>1. PICK m \in DOMAIN timers[h] : timers[h][m] = [identity |-> j, version |-> buffer[h][j].version]
      BY <1>1, <1>6, <2>1, <3>0 DEF Timed
    <3>2. h # g \/ m # n
      BY <3>0, <3>1
    <3> QED BY <1>3, <1>6, <3>0, <3>1, <3>2
  <2> QED BY <2>1 DEF Timed
<1>9. Merged'
  <2>1. EntriesOf(l)' = Range(s) /\ \A d \in Call \ {l} : EntriesOf(d)' = EntriesOf(d)
    BY <1>4 DEF Kept, Static, EntriesOf
  <2>2. ASSUME NEW d \in Call, call'[d].at = "merged"
        PROVE  \E e \in Call : d \in EntriesOf(e)' /\ call'[e].at \notin Ended
    <3>1. CASE d \in Range(s)
      BY <1>4, <2>1, <3>1 DEF Ended
    <3>2. CASE d \notin Range(s)
      <4>1. call[d].at = "merged"
        BY <1>4, <2>2, <3>2
      <4>2. PICK e \in Call : d \in EntriesOf(e) /\ call[e].at \notin Ended
        BY <1>1, <4>1 DEF Merged
      <4>3. call[e].at # "buffered"
        BY <1>1, <4>2 DEF Entries, Waiting
      <4>4. e \notin Range(s) /\ e # l
        BY <1>4, <4>3
      <4> QED BY <1>4, <2>1, <4>2, <4>4
    <3> QED BY <3>1, <3>2
  <2> QED BY <2>2 DEF Merged
<1>10. Queues' /\ queue' \in [Runtime -> Seq(Call)]
  <2>1. OthersHold(l) /\ ~Holds(l)
    BY <1>4 DEF OthersHold, Holds, InSection, Kept, Static
  <2> QED BY <1>1, <1>2, <1>4, <2>1, QueueJoins
<1>11. KeysStay
  <2>1. call[l].key = NoKey
    BY <1>1, <1>4 DEF Keyed, Early
  <2> QED BY <1>4, <2>1 DEF KeysStay, Kept, Static
<1>12. \A d \in Call : Calm(d)
  BY <1>4 DEF Calm, Kept, Static, InSection
<1>13. StoreStays
  BY <1>1, <1>2, StoreUntouched
<1>14. TypeOK'
  BY <1>1, <1>2, <1>3, <1>4, <1>6, <1>10 DEF TypeOK, CallRec, BufferRec, TimerRec, byHand, bounds
<1>15. Sections' /\ Numbered' /\ CurrentExists'
  BY <1>1, <1>11, <1>12, <1>13, CalmStore DEF ApplicationInv
<1>16. Fresh'
  <2>1. EntriesOf(l)' = Range(s) /\ \A d \in Call \ {l} : EntriesOf(d)' = EntriesOf(d)
    BY <1>4 DEF Kept, Static, EntriesOf
  <2>2. ASSUME NEW d \in Call
        PROVE  /\ call'[d].op = call[d].op /\ call'[d].id = call[d].id
               /\ call'[d].at \in Early \cup {"queued"} => call[d].at \in Early \cup {"queued"}
    BY <1>4 DEF Kept, Static, Early
  <2>3. \A d \in Call : d \in Range(s) => call[d].id = NoId
    BY <1>1, <1>4 DEF Fresh, Alone, Early
  <2> QED BY <1>1, <2>1, <2>2, <2>3 DEF Fresh
<1> QED BY <1>5, <1>7, <1>8, <1>9, <1>10, <1>14, <1>15, <1>16 DEF ApplicationInv

LEMMA FlushKeeps ==
  ASSUME ApplicationInv, NEW g \in Runtime, NEW n \in DOMAIN timers[g], Flush(g, n)
  PROVE  ApplicationInv'
<1>1. CASE ~Live(g, n)
  BY <1>1, SupersededKeeps
<1>2. CASE Live(g, n)
  <2>1. PICK s, l, i : s = Buf(g, n).entries /\ l = Last(s) /\ i = timers[g][n].identity
    OBVIOUS
  <2> QED BY <1>2, <2>1, LiveKeeps
<1> QED BY <1>1, <1>2

LEMMA ResolveKeeps ==
  ASSUME ApplicationInv, NEW c \in Call, Resolve(c)
  PROVE  ApplicationInv'
<1>1. TypeOK /\ Fresh /\ Routed /\ Keyed /\ Entries /\ Alone /\ Buffers /\ Timed /\ Merged /\ Queues /\ Numbered /\ Sections
  BY DEF ApplicationInv
<1>2. call[c].at = "queued"
  BY DEF Resolve
<1>3. call[c].route \in Route
  BY <1>1, <1>2, CallParts DEF Routed, Ended
<1>4. /\ Behind(c) = {} /\ UNCHANGED <<buffer, timers, file, rows, current, byHand, bounds>>
      /\ call' \in [Call -> CallRec]
      /\ \A d \in Call \ {c} : Kept(d) /\ call'[d].at = call[d].at
      /\ Static(c) /\ call'[c].sent = call[c].sent
      /\ Takes(c) => /\ call'[c].at = IF call[c].op = "message" THEN "handoff" ELSE "prompt"
                     /\ queue' = Left(c)
      /\ ~Takes(c) => /\ call'[c].at = IF call[c].op = "stateless" THEN "record" ELSE "list"
                      /\ call'[c].id = NewId(c) /\ queue' = queue
  BY <1>1, <1>3, ResolveEffect DEF Numbered
<1>5. Quiet /\ SentKept /\ Others(c)
  BY <1>2, <1>4 DEF Quiet, SentKept, Others, Kept, Dispatched, InSection
<1>6. call'[c].at \in {"handoff", "prompt", "record", "list"}
  BY <1>4
<1>7. Merged'
  BY <1>1, <1>2, <1>4, <1>5, <1>6, MergedStay, QuietSame DEF Ended
<1>8. CASE Takes(c)
  <2>1. Holds(c) /\ ~Holds(c)'
    BY <1>2, <1>4, <1>8 DEF Holds, InSection, Static
  <2>2. queue' \in [Runtime -> Seq(Call)] /\ Queues'
    BY <1>1, <1>4, <1>5, <1>8, <2>1, OthersAreHeld, QueueLeaves
  <2>3. call'[c].at \notin {"buffered", "conflict", "queued"} \cup InSection /\ call[c].op # "named"
    BY <1>4, <1>8 DEF InSection, Takes
  <2>4. \A d \in Call \ {c} : call'[d].id = call[d].id /\ (call'[d].at = "conflict" => call[d].at = "conflict")
    BY <1>4 DEF Kept
  <2> QED BY <1>2, <1>4, <1>5, <1>7, <2>2, <2>3, <2>4, OutsideKeeps
<1>9. CASE ~Takes(c)
  <2>0. Identifies(c) /\ \A d \in Call \ {c} : call'[d].id = call[d].id
    <3>1. call[c].op = "named" => NewId(c) = call[c].id
      BY DEF NewId
    <3> QED BY <1>2, <1>4, <1>6, <1>9, <3>1 DEF Identifies, Kept
  <2>1. Fresh' /\ Routed' /\ Keyed' /\ Entries' /\ Alone' /\ Buffers' /\ Timed' /\ KeysStay /\ OthersHold(c)
    BY <1>2, <1>4, <1>5, <1>6, <1>7, <2>0, MoveKeeps
  <2>2. call'[c].at \in {"record", "list"} /\ UNCHANGED queue /\ call'[c].id = NewId(c)
    BY <1>4, <1>9
  <2>3. Queues' /\ queue' \in [Runtime -> Seq(Call)]
    BY <1>1, <1>2, <1>4, <2>1, <2>2, QueueStarts, Types DEF Holds, InSection, Static
  <2>4. StoreStays /\ TypeOK'
    BY <1>1, <1>4, <2>3, StoreUntouched, TypesThen
  <2>5. ASSUME NEW d \in Call \ {c}
        PROVE  (IdentifiedAt(d) /\ FiledAt(d) /\ ContendedAt(d) /\ DividedAt(d) /\ ConflictAt(d))'
    <3>1. Calm(d)
      BY <1>4 DEF Calm, Kept, Static
    <3> QED BY <1>1, <2>1, <2>4, <3>1, CalmSection
  <2>6. IdentifiedAt(c)'
    <3>1. /\ call[c].op # "named" => /\ NewId(c) \in MadeUp /\ NewId(c).prefix = call[c].route.prefix /\ NewId(c).day = day
                                     /\ Reached(NewId(c))
      BY <1>1, <1>3, NewIdType DEF Numbered
    <3>2. day \in Nat /\ day' = day /\ rows' = rows
      BY <1>1, <1>4 DEF TypeOK, Days, bounds
    <3> QED BY <1>4, <2>2, <3>1, <3>2 DEF IdentifiedAt, Static, Reached
  <2>7. FiledAt(c)'
    BY <1>4, <1>9, <2>2 DEF FiledAt, TypeOf, Static
  <2>8. ContendedAt(c)' /\ ConflictAt(c)'
    BY <2>2 DEF ContendedAt, ConflictAt
  <2>9. DividedAt(c)'
    BY <1>4, <1>9 DEF DividedAt, Takes, TypeOf, Static
  <2>10. Sections'
    BY <2>5, <2>6, <2>7, <2>8, <2>9 DEF Sections
  <2>11. Numbered' /\ CurrentExists'
    BY <1>1, <2>1, <2>4, NumbersStay DEF ApplicationInv
  <2> QED BY <1>7, <2>1, <2>3, <2>4, <2>10, <2>11 DEF ApplicationInv
<1> QED BY <1>8, <1>9

(* A step of a call inside its section, whoever else is in one.            *)
LEMMA SectionMove ==
  ASSUME ApplicationInv, NEW c \in Call, call[c].at \in InSection, NEW a \in Dispatched \ {"queued"}, Go(c, a), UNCHANGED <<buffer, timers>>
  PROVE  /\ call' \in [Call -> CallRec] /\ call'[c].at = a /\ SameOf(c) /\ call'[c].id = call[c].id
         /\ \A d \in Call \ {c} : SameOf(d) /\ call'[d].at = call[d].at /\ call'[d].id = call[d].id
         /\ Fresh' /\ Routed' /\ Keyed' /\ Entries' /\ Alone' /\ Buffers' /\ Timed' /\ Merged' /\ KeysStay /\ OthersHold(c)
         /\ call[c].route \in Route /\ TypeOf(c) \in Type /\ call[c].key # NoKey /\ call[c].key.route = call[c].route
         /\ call'[c].runtime = call[c].runtime
<1>1. TypeOK /\ Routed /\ Keyed /\ Entries /\ Merged /\ a \in At
  BY DEF ApplicationInv, Dispatched, InSection, At
<1>2. /\ call' \in [Call -> CallRec]
      /\ \A d \in Call : Kept(d) /\ call'[d].at = IF d = c THEN a ELSE call[d].at
  BY <1>1, GoEffect
<1>3. Quiet /\ SentKept /\ Others(c)
  BY <1>2 DEF Kept, Quiet, SentKept, Others, Dispatched, InSection
<1>4. Merged'
  BY <1>1, <1>2, <1>3, MergedStay, QuietSame DEF Ended, Dispatched, InSection
<1>5. Fresh' /\ Routed' /\ Keyed' /\ Entries' /\ Alone' /\ Buffers' /\ Timed' /\ Merged' /\ KeysStay /\ OthersHold(c)
  BY <1>2, <1>3, <1>4, MoveKeeps DEF Dispatched, InSection, Identifies, Kept
<1>6. call[c].route \in Route /\ TypeOf(c) \in Type
  BY <1>1, CallParts DEF Routed, InSection, Ended
<1>7. call[c].key # NoKey /\ call[c].key.route = call[c].route
  BY <1>1 DEF Keyed, Dispatched, InSection
<1> QED BY <1>2, <1>5, <1>6, <1>7 DEF Kept, Static, SameOf

LEMMA ListKeeps ==
  ASSUME ApplicationInv, NEW c \in Call, List(c)
  PROVE  ApplicationInv'
<1>1. TypeOK /\ Fresh /\ Routed /\ Keyed /\ Queues /\ Numbered /\ Sections
  BY DEF ApplicationInv
<1>2. call[c].at = "list" /\ UNCHANGED <<buffer, timers, queue, file, rows, current, byHand, bounds>>
  BY DEF List
<1>3. PICK a \in {"record", "write"} : Go(c, a) /\ (a = "record" <=> call[c].id \in file[call[c].route.profile])
  BY DEF List, Missing
<1>4. /\ call' \in [Call -> CallRec] /\ call'[c].at = a /\ SameOf(c) /\ call'[c].id = call[c].id
      /\ \A d \in Call \ {c} : SameOf(d) /\ call'[d].at = call[d].at /\ call'[d].id = call[d].id
      /\ Fresh' /\ Routed' /\ Keyed' /\ Entries' /\ Alone' /\ Buffers' /\ Timed' /\ Merged' /\ KeysStay /\ OthersHold(c)
      /\ call[c].route \in Route /\ TypeOf(c) \in Type /\ call'[c].runtime = call[c].runtime
  <2>1. a \in Dispatched \ {"queued"} /\ call[c].at \in InSection
    BY <1>2 DEF Dispatched, InSection
  <2> QED BY <1>2, <1>3, <2>1, SectionMove
<1>5. Queues' /\ queue' \in [Runtime -> Seq(Call)]
  <2>1. Holds(c) /\ Holds(c)'
    BY <1>2, <1>4 DEF Holds, InSection
  <2> QED BY <1>1, <1>2, <1>4, <2>1, QueueStays, Types DEF SameOf
<1>6. StoreStays /\ TypeOK'
  BY <1>1, <1>2, <1>4, <1>5, StoreUntouched, TypesThen
<1>7. ASSUME NEW d \in Call \ {c}
      PROVE  (IdentifiedAt(d) /\ FiledAt(d) /\ ContendedAt(d) /\ DividedAt(d) /\ ConflictAt(d))'
  <2>1. Calm(d)
    BY <1>4 DEF Calm, SameOf
  <2> QED BY <1>1, <1>4, <1>6, <2>1, CalmSection
<1>8. IdentifiedAt(c)' /\ DividedAt(c)'
  <2>1. call[c].at \in InSection
    BY <1>2 DEF InSection
  <2>2. IdentifiedAt(c)'
    BY <1>1, <1>4, <1>6, <2>1, IdentifiedStays DEF Sections, StoreStays, Days
  <2>3. DividedAt(c)'
    BY <1>1, <1>2, <1>4, <2>1, DividedStays DEF Sections
  <2> QED BY <2>2, <2>3
<1>9. FiledAt(c)' /\ ContendedAt(c)' /\ ConflictAt(c)'
  BY <1>2, <1>3, <1>4 DEF FiledAt, ContendedAt, ConflictAt, SameOf
<1>10. Sections'
  BY <1>7, <1>8, <1>9 DEF Sections
<1>11. Numbered' /\ CurrentExists'
  BY <1>1, <1>4, <1>6, NumbersStay DEF ApplicationInv
<1> QED BY <1>4, <1>5, <1>6, <1>10, <1>11 DEF ApplicationInv

(* A conflict ends the leader and what is merged into it alike.            *)
LEMMA ConflictKeeps ==
  ASSUME ApplicationInv, NEW c \in Call, call[c].at \in InSection, Settle(c, "conflict"), queue' = Left(c), ElsewhereKeyed(c),
         UNCHANGED <<buffer, timers, file, rows, current, byHand, bounds>>
  PROVE  ApplicationInv'
<1>1. TypeOK /\ Fresh /\ Routed /\ Keyed /\ Entries /\ Queues /\ Numbered /\ Sections /\ Merged /\ "conflict" \in Ended
  BY DEF ApplicationInv, Ended
<1>2. /\ call' \in [Call -> CallRec] /\ Quiet /\ SentKept /\ Others(c) /\ call'[c].at = "conflict"
      /\ \A d \in Call : call'[d].id = call[d].id
      /\ \A d \in Call : call'[d].at = IF d \in EntriesOf(c) \cup {c} THEN "conflict" ELSE call[d].at
  BY <1>1, SettleKeeps
<1>3. Merged'
  BY <1>1, MergedSettle
<1>4. Fresh' /\ Routed' /\ Keyed' /\ Entries' /\ Alone' /\ Buffers' /\ Timed' /\ KeysStay /\ OthersHold(c)
  BY <1>2, <1>3, MoveKeeps DEF InSection, Identifies
<1>5. Holds(c) /\ ~Holds(c)'
  BY <1>2 DEF Holds, InSection
<1>6. Queues' /\ queue' \in [Runtime -> Seq(Call)]
  BY <1>1, <1>4, <1>5, QueueLeaves
<1>7. StoreStays /\ TypeOK'
  BY <1>1, <1>2, <1>6, StoreUntouched, TypesThen
<1>8. ASSUME NEW d \in Call
      PROVE  (IdentifiedAt(d) /\ FiledAt(d) /\ ContendedAt(d) /\ DividedAt(d) /\ ConflictAt(d))'
  <2>1. CASE d \notin EntriesOf(c) \cup {c}
    <3>1. Calm(d)
      BY <1>2, <2>1 DEF Calm, Quiet, Static
    <3> QED BY <1>1, <1>4, <1>7, <3>1, CalmSection
  <2>2. CASE d \in EntriesOf(c) \cup {c}
    <3>1. call'[d].at = "conflict"
      BY <1>2, <2>2
    <3>2. ConflictAt(d)'
      <4>1. CASE d # c
        <5>1. call'[d].id = NoId
          BY <1>1, <1>2, <2>2, <4>1 DEF Fresh
        <5> QED BY <5>1 DEF ConflictAt
      <4>2. CASE d = c
        <5>1. call[c].id # NoId /\ call[c].route \in Route
          BY <1>1, SectionId
        <5>2. ElsewhereKeyed(c)'
          BY <1>2, <1>4, <1>7, <5>1, ElsewhereStays DEF Quiet, Static, SameOf, StoreStays
        <5>3. call'[c].route # NoId
          BY <1>2, <5>1, ApplicationsAssumption DEF Quiet, Static, ApplicationsAssumption
        <5> QED BY <4>2, <5>2, <5>3 DEF ConflictAt
      <4> QED BY <4>1, <4>2
    <3> QED BY <3>1, <3>2 DEF IdentifiedAt, FiledAt, ContendedAt, DividedAt, InSection
  <2> QED BY <2>1, <2>2
<1>9. Numbered' /\ CurrentExists'
  BY <1>1, <1>4, <1>7, NumbersStay DEF ApplicationInv
<1> QED BY <1>3, <1>4, <1>6, <1>7, <1>8, <1>9 DEF ApplicationInv, Sections

(* The call that writes its file, whether it then goes on or fails.        *)
LEMMA FileWritten ==
  ASSUME ApplicationInv, NEW c \in Call, call[c].at = "write", call'[c].at # "write",
         file' = [file EXCEPT ![call[c].route.profile] = @ \cup {call[c].id}], UNCHANGED <<rows, current, byHand, bounds>>
  PROVE  StoreStays /\ call[c].id \in file'[call[c].route.profile] /\ file' \in [Profile -> SUBSET Id]
<1>1. TypeOK /\ call[c].id \in Id /\ call[c].route \in Route
  BY SectionId DEF ApplicationInv, InSection
<1>2. file \in [Profile -> SUBSET Id] /\ call[c].route.profile \in Profile
  BY <1>1 DEF TypeOK, Route
<1>3. /\ file' \in [Profile -> SUBSET Id] /\ call[c].id \in file'[call[c].route.profile]
      /\ \A p \in Profile : file[p] \subseteq file'[p] /\ \A id \in file'[p] : id \in file[p] \/ id = call[c].id
  BY <1>1, <1>2
<1>4. Writes(call[c].id)
  BY DEF Writes
<1>5. /\ rows' = rows /\ current' = current /\ created' = created /\ deleted' = deleted /\ day' = day
      /\ day \in Days /\ day \in Nat
  BY <1>1 DEF byHand, bounds, TypeOK, Days
<1>6. StoreStays
  BY <1>3, <1>4, <1>5 DEF StoreStays
<1> QED BY <1>3, <1>6

LEMMA WriteKeeps ==
  ASSUME ApplicationInv, NEW c \in Call, Write(c)
  PROVE  ApplicationInv'
<1>1. TypeOK /\ Fresh /\ Routed /\ Keyed /\ Queues /\ Numbered /\ Sections
  BY DEF ApplicationInv
<1>2. call[c].at = "write" /\ UNCHANGED <<buffer, timers, rows, current, byHand, bounds>>
  BY DEF Write
<1>3. CASE call[c].id \in file[call[c].route.profile]
  <2>1. Settle(c, "conflict") /\ queue' = Left(c) /\ file' = file
    BY <1>3 DEF Write
  <2>2. ElsewhereKeyed(c)
    BY <1>1, <1>2, <1>3 DEF Sections, ContendedAt
  <2> QED BY <1>2, <2>1, <2>2, ConflictKeeps DEF InSection
<1>4. CASE call[c].id \notin file[call[c].route.profile]
  <2>1. Go(c, "record") /\ file' = [file EXCEPT ![call[c].route.profile] = @ \cup {call[c].id}] /\ queue' = queue
    BY <1>4 DEF Write
  <2>2. /\ call' \in [Call -> CallRec] /\ call'[c].at = "record" /\ SameOf(c) /\ call'[c].id = call[c].id
        /\ \A d \in Call \ {c} : SameOf(d) /\ call'[d].at = call[d].at /\ call'[d].id = call[d].id
        /\ Fresh' /\ Routed' /\ Keyed' /\ Entries' /\ Alone' /\ Buffers' /\ Timed' /\ Merged' /\ KeysStay /\ OthersHold(c)
        /\ call[c].route \in Route /\ TypeOf(c) \in Type /\ call'[c].runtime = call[c].runtime
    <3>1. "record" \in Dispatched \ {"queued"} /\ call[c].at \in InSection
      BY <1>2 DEF Dispatched, InSection
    <3> QED BY <1>2, <2>1, <3>1, SectionMove
  <2>3. Queues' /\ queue' \in [Runtime -> Seq(Call)]
    <3>1. Holds(c) /\ Holds(c)'
      BY <1>2, <2>2 DEF Holds, InSection
    <3> QED BY <1>1, <1>2, <2>1, <2>2, <3>1, QueueStays, Types DEF SameOf
  <2>4. StoreStays /\ call[c].id \in file'[call[c].route.profile] /\ file' \in [Profile -> SUBSET Id]
    BY <1>2, <2>1, <2>2, FileWritten
  <2>5. TypeOK'
    <3>1. rows' \in SUBSET RowRec /\ current' \in [Route -> [Type -> Id \cup {NoId}]]
      BY <1>1, <1>2, Types DEF TypeOK
    <3> QED BY <1>1, <1>2, <2>2, <2>3, <2>4, <3>1, TypesThen
  <2>6. ASSUME NEW d \in Call \ {c}
        PROVE  (IdentifiedAt(d) /\ FiledAt(d) /\ ContendedAt(d) /\ DividedAt(d) /\ ConflictAt(d))'
    <3>1. Calm(d)
      BY <2>2 DEF Calm, SameOf
    <3> QED BY <1>1, <2>2, <2>4, <3>1, CalmSection
  <2>7. IdentifiedAt(c)' /\ DividedAt(c)'
    <3>1. call[c].at \in InSection
      BY <1>2 DEF InSection
    <3>2. IdentifiedAt(c)'
      BY <1>1, <2>2, <2>4, <3>1, IdentifiedStays DEF Sections, StoreStays, Days
    <3>3. DividedAt(c)'
      BY <1>1, <1>2, <2>2, <3>1, DividedStays DEF Sections
    <3> QED BY <3>2, <3>3
  <2>8. FiledAt(c)' /\ ContendedAt(c)' /\ ConflictAt(c)'
    BY <2>2, <2>4 DEF FiledAt, ContendedAt, ConflictAt, SameOf
  <2>9. Sections'
    BY <2>6, <2>7, <2>8 DEF Sections
  <2>10. Numbered' /\ CurrentExists'
    BY <1>1, <2>2, <2>4, NumbersStay DEF ApplicationInv
  <2> QED BY <2>2, <2>3, <2>5, <2>9, <2>10 DEF ApplicationInv
<1> QED BY <1>3, <1>4

LEMMA ResolutionFailsKeeps ==
  ASSUME ApplicationInv, NEW c \in Call, ResolutionFails(c)
  PROVE  ApplicationInv'
<1>1. /\ Settle(c, "failed") /\ queue' = Left(c) /\ UNCHANGED <<buffer, timers, rows, current, byHand, bounds>>
      /\ call[c].at \in InSection \/ (call[c].at = "handoff" /\ call[c].op = "rollover")
      /\ "failed" \in Ended /\ TypeOK /\ Queues
  BY DEF ResolutionFails, InSection, Ended, ApplicationInv
<1>2. /\ call' \in [Call -> CallRec] /\ Quiet /\ SentKept /\ Others(c) /\ call'[c].at = "failed"
      /\ \A d \in Call : call'[d].id = call[d].id
      /\ \A d \in Call : call'[d].at = IF d \in EntriesOf(c) \cup {c} THEN "failed" ELSE call[d].at
  BY <1>1, SettleKeeps DEF ApplicationInv
<1>3. Merged'
  BY <1>1, MergedSettle DEF ApplicationInv
<1>4. Holds(c) /\ ~Holds(c)'
  BY <1>1, <1>2 DEF Holds, InSection
<1>5. Queues' /\ queue' \in [Runtime -> Seq(Call)]
  BY <1>1, <1>2, <1>4, QueueLeaves, OthersAreHeld
<1>6. StoreStays /\ file' \in [Profile -> SUBSET Id]
  <2>1. CASE file' = file
    BY <1>1, <2>1, StoreUntouched
  <2>2. CASE call[c].at = "write" /\ file' = [file EXCEPT ![call[c].route.profile] = @ \cup {call[c].id}]
    BY <1>1, <1>2, <2>2, FileWritten
  <2> QED BY <2>1, <2>2 DEF ResolutionFails
<1>7. TypeOK'
  <2>1. rows' \in SUBSET RowRec /\ current' \in [Route -> [Type -> Id \cup {NoId}]]
    BY <1>1, Types DEF TypeOK
  <2> QED BY <1>1, <1>2, <1>5, <1>6, <2>1, TypesThen
<1> QED BY <1>1, <1>2, <1>3, <1>5, <1>6, <1>7, OutsideStore DEF InSection

(* An id that another route or type has came from another queue.           *)
LEMMA AssociatedElsewhere ==
  ASSUME TypeOK, Routed, Keyed, Numbered, NEW c \in Call, call[c].at = "record",
         Associated(call[c].id, call[c].route, TypeOf(c))
  PROVE  ElsewhereKeyed(c)
<1>1. PICK x \in rows : x.id = call[c].id /\ (x.route # call[c].route \/ x.type # TypeOf(c))
  BY DEF Associated
<1>2. PICK d \in Call : call[d].key # NoKey /\ call[d].key.route = x.route /\ TypeOf(d) = x.type /\ call[d].id = x.id
  BY <1>1 DEF Numbered, RowAt
<1>3. /\ call[c].key # NoKey /\ call[c].key.route = call[c].route /\ (call[c].key.of[1] = "stateless" <=> TypeOf(c) = "stateless")
      /\ call[d].key.route = call[d].route /\ (call[d].key.of[1] = "stateless" <=> TypeOf(d) = "stateless")
  BY <1>2 DEF Keyed, Dispatched, InSection
<1>4. TypeOf(c) \in {"stateful", "stateless"} /\ TypeOf(d) \in {"stateful", "stateless"}
  BY DEF TypeOf
<1>5. call[d].key # call[c].key
  BY <1>1, <1>2, <1>3, <1>4
<1> QED BY <1>1, <1>2, <1>3, <1>5 DEF ElsewhereKeyed

LEMMA NewRow ==
  ASSUME TypeOK, Routed, Keyed, Fresh, Numbered, Sections, NEW c \in Call, call[c].at = "record",
         KeysStay, day' = day, NEW x,
         x = [id |-> call[c].id, route |-> call[c].route, type |-> TypeOf(c), day |-> day, seq |-> Sequence(call[c].route, day)]
  PROVE  x \in RowRec /\ RowAt(x)'
<1>1. /\ call[c].route \in Route /\ TypeOf(c) \in Type /\ day \in Days /\ day \in Nat
      /\ call[c].id \in Id /\ call[c].id # NoId
  <2>1. day \in Days
    BY DEF TypeOK
  <2> QED BY <2>1, SectionId DEF InSection, Days
<1>2. /\ call[c].op # "named" => /\ call[c].id \in MadeUp /\ call[c].id.prefix = call[c].route.prefix
                                 /\ call[c].id.day <= day /\ Reached(call[c].id)
  BY DEF Sections, IdentifiedAt, InSection
<1> DEFINE q == Sequence(call[c].route, day)
<1>3. q \in Nat \ {0} /\ \A y \in rows : y.route.prefix = call[c].route.prefix /\ y.day = day => y.seq < q
  BY <1>1, SequenceBounds DEF Numbered
<1> HIDE DEF q
<1>4. x = [id |-> call[c].id, route |-> call[c].route, type |-> TypeOf(c), day |-> day, seq |-> q]
  BY DEF q
<1>6. x \in RowRec
  BY <1>1, <1>3, <1>4 DEF RowRec
<1>7. x.id = call[c].id /\ x.route = call[c].route /\ x.type = TypeOf(c) /\ x.day = day /\ x.seq = q
  BY <1>4
<1>8. x.day <= day'
  BY <1>1, <1>7
<1>9. ASSUME call[c].op # "named"
      PROVE  Numbers(x)
  <2>2. x.id.prefix = x.route.prefix /\ x.id.day <= x.day /\ Reached(x.id) /\ x.id \in MadeUp
    BY <1>2, <1>7, <1>9
  <2>3. ASSUME x.id.day = x.day PROVE x.id.seq <= x.seq
    <3>1. x.id.seq \in Nat
      BY <2>2, IdKinds
    <3>2. CASE x.id.seq = 1
      BY <1>3, <1>7, <3>2
    <3>3. CASE \E y \in rows : y.route.prefix = x.id.prefix /\ y.day = x.id.day /\ y.seq >= x.id.seq - 1
      <4>1. PICK y \in rows : y.route.prefix = x.id.prefix /\ y.day = x.id.day /\ y.seq >= x.id.seq - 1
        BY <3>3
      <4>2. y.seq < q /\ y.seq \in Nat
        BY <1>3, <1>7, <2>2, <2>3, <4>1, Types DEF RowRec
      <4> QED BY <1>3, <1>7, <3>1, <4>1, <4>2
    <3> QED BY <2>2, <3>2, <3>3 DEF Reached
  <2> QED BY <2>2, <2>3 DEF Numbers
<1>11. /\ call'[c].key # NoKey /\ call'[c].key.route = x.route /\ TypeOf(c)' = x.type
       /\ call'[c].id = x.id /\ call'[c].op = call[c].op
  <2>1. call[c].key # NoKey /\ call[c].key.route = call[c].route
    BY DEF Keyed, Dispatched, InSection
  <2>2. call'[c].key = call[c].key /\ TypeOf(c)' = TypeOf(c) /\ call'[c].id = call[c].id /\ call'[c].op = call[c].op
    BY <1>1, <2>1 DEF KeysStay, TypeOf
  <2> QED BY <1>7, <2>1, <2>2
<1> QED BY <1>6, <1>8, <1>9, <1>11 DEF RowAt, Numbers

LEMMA RecordKeeps ==
  ASSUME ApplicationInv, NEW c \in Call, Record(c)
  PROVE  ApplicationInv'
<1>1. TypeOK /\ Fresh /\ Routed /\ Keyed /\ Queues /\ Numbered /\ Sections
  BY DEF ApplicationInv
<1>2. call[c].at = "record" /\ UNCHANGED <<buffer, timers, file, byHand, bounds>>
  BY DEF Record
<1> DEFINE r == call[c].route
<1> DEFINE t == TypeOf(c)
<1>3. CASE Associated(call[c].id, call[c].route, TypeOf(c))
  <2>1. Settle(c, "conflict") /\ queue' = Left(c) /\ UNCHANGED <<rows, current>>
    BY <1>3 DEF Record
  <2>2. ElsewhereKeyed(c)
    BY <1>1, <1>2, <1>3, AssociatedElsewhere
  <2> QED BY <1>2, <2>1, <2>2, ConflictKeeps DEF InSection
<1>4. CASE ~Associated(call[c].id, call[c].route, TypeOf(c))
  <2>1. /\ rows' = Recorded(call[c].id, r, t) /\ current' = CurrentSet(r, t, call[c].id)
        /\ Go(c, IF call[c].op \in {"message", "rollover"} THEN "handoff" ELSE "prompt")
        /\ queue' = IF call[c].op = "rollover" THEN queue ELSE Left(c)
    BY <1>4 DEF Record
  <2>2. PICK a \in {"handoff", "prompt"} : Go(c, a) /\ (a = "handoff" <=> call[c].op \in {"message", "rollover"})
    BY <2>1
  <2>3. /\ call' \in [Call -> CallRec] /\ call'[c].at = a /\ SameOf(c) /\ call'[c].id = call[c].id
        /\ \A d \in Call \ {c} : SameOf(d) /\ call'[d].at = call[d].at /\ call'[d].id = call[d].id
        /\ Fresh' /\ Routed' /\ Keyed' /\ Entries' /\ Alone' /\ Buffers' /\ Timed' /\ Merged' /\ KeysStay /\ OthersHold(c)
        /\ r \in Route /\ t \in Type /\ call[c].key # NoKey /\ call[c].key.route = r
        /\ call'[c].runtime = call[c].runtime
    <3>1. a \in Dispatched \ {"queued"} /\ call[c].at \in InSection
      BY <1>2 DEF Dispatched, InSection
    <3> QED BY <1>2, <2>2, <3>1, SectionMove
  <2>4. Queues' /\ queue' \in [Runtime -> Seq(Call)]
    <3>1. CASE call[c].op = "rollover"
      <4>1. Holds(c) /\ Holds(c)'
        BY <1>2, <2>2, <2>3, <3>1 DEF Holds, InSection, SameOf
      <4> QED BY <1>1, <1>2, <2>1, <2>3, <3>1, <4>1, QueueStays, Types DEF SameOf
    <3>2. CASE call[c].op # "rollover"
      <4>1. Holds(c) /\ ~Holds(c)'
        BY <1>2, <2>3, <3>2 DEF Holds, InSection, SameOf
      <4> QED BY <1>1, <2>1, <2>3, <3>2, <4>1, QueueLeaves
    <3> QED BY <3>1, <3>2
  <2>5. file' = file /\ created' = created /\ deleted' = deleted /\ day' = day /\ day \in Nat /\ day \in Days
    BY <1>1, <1>2 DEF byHand, bounds, TypeOK, Days
  <2>6. PICK x : x = [id |-> call[c].id, route |-> r, type |-> t, day |-> day, seq |-> Sequence(r, day)]
    OBVIOUS
  <2>7. x \in RowRec /\ RowAt(x)'
    BY <1>1, <1>2, <2>3, <2>5, <2>6, NewRow
  <2>8. rows \subseteq rows' /\ rows' \subseteq rows \cup {x} /\ \E y \in rows' : y.id = call[c].id /\ y.route = r /\ y.type = t
    <3>1. CASE \E y \in rows : y.id = call[c].id
      <4>1. rows' = rows
        BY <2>1, <3>1 DEF Recorded
      <4> QED BY <1>4, <3>1, <4>1 DEF Associated
    <3>2. CASE ~\E y \in rows : y.id = call[c].id
      <4>1. rows' = rows \cup {x}
        BY <2>1, <2>6, <3>2 DEF Recorded
      <4> QED BY <2>6, <4>1
    <3> QED BY <3>1, <3>2
  <2>9. Numbered'
    <3>1. IsFiniteSet(rows')
      <4>1. IsFiniteSet(rows \cup {x})
        BY <1>1, FS_AddElement DEF Numbered
      <4> QED BY <2>8, <4>1, FS_Subset
    <3>2. \A y \in rows : RowAt(y)'
      BY <1>1, <2>3, <2>5, RowStays DEF Numbered
    <3> QED BY <2>7, <2>8, <3>1, <3>2 DEF Numbered
  <2>10. /\ current' \in [Route -> [Type -> Id \cup {NoId}]] /\ current'[r][t] = call[c].id
         /\ \A s \in Route, u \in Type : s # r \/ u # t => current'[s][u] = current[s][u]
    <3>1. current \in [Route -> [Type -> Id \cup {NoId}]] /\ call[c].id \in Id \cup {NoId}
      BY <1>1, CallParts DEF TypeOK
    <3>2. current' = [current EXCEPT ![r][t] = call[c].id]
      BY <2>1 DEF CurrentSet
    <3> HIDE DEF r, t
    <3> QED BY <2>3, <3>1, <3>2
  <2>11. TypeOK'
    <3>1. rows' \in SUBSET RowRec
      BY <1>1, <2>7, <2>8, Types
    <3>2. file' \in [Profile -> SUBSET Id]
      BY <1>1, <2>5 DEF TypeOK
    <3> QED BY <1>1, <1>2, <2>3, <2>4, <2>10, <3>1, <3>2, TypesThen
  <2>12. CurrentExists'
    <3>1. TypeOf(c) = "stateful" => call[c].id \in file[r.profile] \cup deleted[r.profile]
      BY <1>1, <1>2 DEF Sections, FiledAt
    <3>2. ASSUME NEW s \in Route, NEW u \in Type, current'[s][u] # NoId
          PROVE  /\ \E y \in rows' : y.id = current'[s][u] /\ y.route = s /\ y.type = u
                 /\ u = "stateful" => current'[s][u] \in file'[s.profile] \cup deleted'[s.profile]
      <4>1. CASE s = r /\ u = t
        BY <2>5, <2>8, <2>10, <3>1, <4>1
      <4>2. CASE s # r \/ u # t
        BY <2>5, <2>8, <2>10, <3>2, <4>2 DEF ApplicationInv, CurrentExists
      <4> QED BY <4>1, <4>2
    <3> QED BY <3>2 DEF CurrentExists
  <2>13. ASSUME NEW d \in Call \ {c}
         PROVE  (IdentifiedAt(d) /\ FiledAt(d) /\ ContendedAt(d) /\ DividedAt(d) /\ ConflictAt(d))'
    <3>1. SameOf(d) /\ call'[d].at = call[d].at /\ call'[d].id = call[d].id
      BY <2>3
    <3>2. CASE call[d].at \notin InSection \cup {"conflict"}
      BY <3>1, <3>2 DEF IdentifiedAt, FiledAt, ContendedAt, DividedAt, ConflictAt, InSection
    <3>3. CASE call[d].at = "conflict"
      <4>1. ConflictAt(d)'
        BY <1>1, <2>3, <2>5, <3>1, <3>3, ConflictStays DEF Sections
      <4> QED BY <3>1, <3>3, <4>1 DEF IdentifiedAt, FiledAt, ContendedAt, DividedAt, InSection
    <3>4. CASE call[d].at \in InSection
      <4>1. call[d].route \in Route /\ TypeOf(d) \in Type /\ call[d].id # NoId
        BY <1>1, <3>4, SectionId
      <4>2. IdentifiedAt(d)'
        BY <1>1, <2>5, <2>8, <3>1, <3>4, IdentifiedStays DEF Sections
      <4>3. FiledAt(d)'
        <5>1. CASE call[d].at = "record"
          BY <1>1, <2>5, <3>1, <4>1, <5>1, FiledStays DEF Sections
        <5>2. CASE call[d].at # "record"
          BY <3>1, <5>2 DEF FiledAt
        <5> QED BY <5>1, <5>2
      <4>4. ContendedAt(d)'
        <5>1. CASE call[d].at = "write"
          BY <1>1, <2>3, <2>5, <3>1, <4>1, <5>1, ContendedStays DEF Sections
        <5>2. CASE call[d].at # "write"
          BY <3>1, <5>2 DEF ContendedAt
        <5> QED BY <5>1, <5>2
      <4>5. DividedAt(d)'
        <5>1. CASE call[d].route # r \/ TypeOf(d) # t
          <6>1. current'[call[d].route][TypeOf(d)] = current[call[d].route][TypeOf(d)]
            BY <2>10, <4>1, <5>1
          <6> QED BY <1>1, <2>3, <3>1, <3>4, <6>1, DividedStays DEF Sections
        <5>2. CASE call[d].route = r /\ TypeOf(d) = t
          <6>1. call[d].key # call[c].key
            BY <1>1, <1>2, <3>4, Exclusion DEF Holds, InSection
          <6>2. Overtaken(d)
            BY <2>3, <5>2, <6>1 DEF Overtaken
          <6>3. Overtaken(d)'
            BY <2>3, <3>1, <6>2, OvertakenStays
          <6> QED BY <6>3 DEF DividedAt
        <5> QED BY <5>1, <5>2
      <4>6. ConflictAt(d)'
        BY <3>1, <3>4 DEF ConflictAt, InSection
      <4> QED BY <4>2, <4>3, <4>4, <4>5, <4>6
    <3> QED BY <3>2, <3>3, <3>4
  <2>14. (IdentifiedAt(c) /\ FiledAt(c) /\ ContendedAt(c) /\ DividedAt(c) /\ ConflictAt(c))'
    BY <2>3 DEF IdentifiedAt, FiledAt, ContendedAt, DividedAt, ConflictAt, InSection
  <2>15. Sections'
    BY <2>13, <2>14 DEF Sections
  <2> QED BY <2>3, <2>4, <2>9, <2>11, <2>12, <2>15 DEF ApplicationInv
<1> QED BY <1>3, <1>4


-----------------------------------------------------------------------------
(* The events: what ends many calls at once, and what leaves them alone.   *)
LEMMA EventBounds ==
  ASSUME TypeOK, Eventful
  PROVE  /\ day \in Nat /\ day + 1 \in Days /\ reloads + 1 \in Runtime /\ reloads \in Runtime
         /\ crashes + 1 \in 0..MaxEvents /\ edits + 1 \in 0..MaxEvents
BY ApplicationsAssumption DEF TypeOK, Eventful, Days, Runtime

(* A reload ends the calls that its runtime buffered, as their buffers.    *)
LEMMA ReloadCalls ==
  ASSUME TypeOK, Reload
  PROVE  /\ call' \in [Call -> CallRec]
         /\ \A d \in Call : /\ Kept(d)
                            /\ call'[d].at = IF call[d].at = "buffered" /\ call[d].runtime = reloads THEN "interrupted" ELSE call[d].at
<1>1. call \in [Call -> CallRec] /\ "interrupted" \in At
  BY Types DEF At, Ended
<1>2. call' = [c \in Call |-> IF call[c].at = "buffered" /\ call[c].runtime = reloads
                              THEN [call[c] EXCEPT !.at = "interrupted"] ELSE call[c]]
  BY DEF Reload, Disposed
<1>3. ASSUME NEW d \in Call
      PROVE  /\ call'[d] \in CallRec /\ Kept(d)
             /\ call'[d].at = IF call[d].at = "buffered" /\ call[d].runtime = reloads THEN "interrupted" ELSE call[d].at
  BY <1>1, <1>2 DEF CallRec, Kept, Static
<1> QED BY <1>2, <1>3

LEMMA ReloadKeeps ==
  ASSUME ApplicationInv, Reload
  PROVE  ApplicationInv'
<1>1. TypeOK /\ Fresh /\ Routed /\ Keyed /\ Buffers /\ Timed /\ Entries /\ Alone /\ Merged /\ Queues /\ Numbered /\ Sections
  BY DEF ApplicationInv
<1>2. /\ call' \in [Call -> CallRec]
      /\ \A d \in Call : /\ Kept(d)
                         /\ call'[d].at = IF call[d].at = "buffered" /\ call[d].runtime = reloads THEN "interrupted" ELSE call[d].at
  BY <1>1, ReloadCalls
<1>3. /\ buffer' = [buffer EXCEPT ![reloads] = [i \in Identity |-> Empty]] /\ timers' = [timers EXCEPT ![reloads] = <<>>]
      /\ reloads' = reloads + 1 /\ UNCHANGED <<queue, file, rows, current, byHand, day, crashes, edits>>
      /\ reloads \in Runtime /\ reloads + 1 \in Runtime /\ day \in Nat /\ day \in Days
  BY <1>1, EventBounds DEF Reload, Disposed, TypeOK
<1>4. Quiet /\ SentKept
  BY <1>2 DEF Quiet, SentKept, Kept, Ended
<1>5. /\ buffer' \in [Runtime -> [Identity -> BufferRec]] /\ timers' \in [Runtime -> Seq(TimerRec)]
      /\ \A g \in Runtime : g # reloads => buffer'[g] = buffer[g] /\ timers'[g] = timers[g]
      /\ \A i \in Identity : buffer'[reloads][i].entries = <<>>
  <2>1. [i \in Identity |-> Empty] \in [Identity -> BufferRec] /\ <<>> \in Seq(TimerRec)
    BY DEF Empty, BufferRec
  <2>2. buffer \in [Runtime -> [Identity -> BufferRec]] /\ timers \in [Runtime -> Seq(TimerRec)]
    BY <1>1, Types
  <2>3. \A i \in Identity : buffer'[reloads][i] = Empty
    BY <1>3, <2>2
  <2> QED BY <1>3, <2>1, <2>2, <2>3 DEF Empty
<1>6. TypeOK'
  BY <1>1, <1>2, <1>3, <1>5 DEF TypeOK, CallRec, BufferRec, TimerRec, byHand
<1>7. Routed' /\ Keyed' /\ Entries' /\ Alone'
  BY <1>1, <1>4, QuietKeys, QuietEntries, QuietAlone
<1>8. Buffers'
  <2>1. \A g \in Runtime, i \in Identity : Once(buffer'[g][i].entries)
    BY <1>1, <1>5 DEF Buffers, Once
  <2>2. ASSUME NEW c \in Call, NEW g \in Runtime, NEW i \in Identity
        PROVE  c \in Range(buffer'[g][i].entries) <=> (call'[c].at = "buffered" /\ call'[c].runtime = g /\ call'[c].identity = i)
    <3>1. CASE g = reloads
      <4>1. Range(buffer'[g][i].entries) = {}
        BY <1>5, <3>1 DEF Range
      <4> QED BY <1>2, <3>1, <4>1 DEF Kept, Static
    <3>2. CASE g # reloads
      <4>1. c \in Range(buffer'[g][i].entries) <=> (call[c].at = "buffered" /\ call[c].runtime = g /\ call[c].identity = i)
        BY <1>1, <1>5, <3>2 DEF Buffers
      <4>2. call'[c].runtime = call[c].runtime /\ call'[c].identity = call[c].identity
        BY <1>2 DEF Kept, Static
      <4>3. call[c].runtime = g => call'[c].at = call[c].at
        BY <1>2, <3>2
      <4> QED BY <4>1, <4>2, <4>3
    <3> QED BY <3>1, <3>2
  <2> QED BY <2>1, <2>2 DEF Buffers
<1>9. Timed'
  <2>1. ASSUME NEW g \in Runtime, NEW i \in Identity, buffer'[g][i].entries # <<>>
        PROVE  \E n \in DOMAIN timers'[g] : timers'[g][n] = [identity |-> i, version |-> buffer'[g][i].version]
    <3>1. buffer'[g] = buffer[g] /\ timers'[g] = timers[g]
      BY <1>5, <2>1
    <3> QED BY <1>1, <2>1, <3>1 DEF Timed
  <2> QED BY <2>1 DEF Timed
<1>10. Merged'
  BY <1>1, <1>2, <1>4, MergedStay, QuietSame DEF Entries, Waiting
<1>11. Queues'
  <2>1. \A d \in Call : /\ Holds(d)' <=> Holds(d)
                        /\ call'[d].runtime = call[d].runtime /\ call'[d].key = call[d].key
                        /\ call'[d].at # "queued" => call[d].at # "queued"
    BY <1>2 DEF Holds, InSection, Kept, Static
  <2>2. \A g \in Runtime : \A n \in DOMAIN queue[g] : queue[g][n] \in Call
    BY <1>1, InQueue
  <2> QED BY <1>1, <1>3, <2>1, <2>2 DEF Queues
<1>12. (\A c \in Call : Calm(c)) /\ KeysStay
  BY <1>2 DEF Calm, KeysStay, Kept, Static, InSection
<1>13. StoreStays
  BY <1>3 DEF StoreStays, byHand
<1>14. Numbered' /\ Sections' /\ CurrentExists'
  BY <1>1, <1>12, <1>13, CalmStore DEF ApplicationInv
<1>15. Fresh'
  BY <1>1, <1>2 DEF Fresh, Kept, Static, EntriesOf, Early, Ended
<1> QED BY <1>6, <1>7, <1>8, <1>9, <1>10, <1>11, <1>14, <1>15 DEF ApplicationInv

(* A crash ends every call that is not over, with the buffers and queues.  *)
LEMMA CrashCalls ==
  ASSUME TypeOK, Crash
  PROVE  /\ call' \in [Call -> CallRec]
         /\ \A d \in Call : Kept(d) /\ call'[d].at = IF call[d].at \in Ended \cup {"new"} THEN call[d].at ELSE "lost"
<1>1. call \in [Call -> CallRec] /\ "lost" \in At
  BY Types DEF At, Ended
<1>2. call' = [c \in Call |-> IF call[c].at \in Ended \cup {"new"} THEN call[c] ELSE [call[c] EXCEPT !.at = "lost"]]
  BY DEF Crash
<1>3. ASSUME NEW d \in Call
      PROVE  /\ call'[d] \in CallRec /\ Kept(d)
             /\ call'[d].at = IF call[d].at \in Ended \cup {"new"} THEN call[d].at ELSE "lost"
  BY <1>1, <1>2 DEF CallRec, Kept, Static
<1> QED BY <1>2, <1>3

LEMMA CrashKeeps ==
  ASSUME ApplicationInv, Crash
  PROVE  ApplicationInv'
<1>1. TypeOK /\ Fresh /\ Routed /\ Keyed /\ Buffers /\ Timed /\ Entries /\ Alone /\ Merged /\ Queues /\ Numbered /\ Sections
  BY DEF ApplicationInv
<1>2. /\ call' \in [Call -> CallRec]
      /\ \A d \in Call : Kept(d) /\ call'[d].at = IF call[d].at \in Ended \cup {"new"} THEN call[d].at ELSE "lost"
  BY <1>1, CrashCalls
<1>3. /\ buffer' = [g \in Runtime |-> [i \in Identity |-> Empty]]
      /\ timers' = [g \in Runtime |-> <<>>] /\ queue' = [g \in Runtime |-> <<>>]
      /\ crashes' = crashes + 1 /\ UNCHANGED <<file, rows, current, byHand, day, reloads, edits>>
      /\ crashes + 1 \in 0..MaxEvents /\ day \in Nat /\ day \in Days
  BY <1>1, EventBounds DEF Crash, TypeOK
<1>4. Quiet /\ SentKept
  BY <1>2 DEF Quiet, SentKept, Kept, Ended
<1>5. \A c \in Call : call'[c].at \in Ended \cup {"new"}
  BY <1>2 DEF Ended
<1>6. TypeOK'
  <2>1. [i \in Identity |-> Empty] \in [Identity -> BufferRec] /\ <<>> \in Seq(TimerRec) /\ <<>> \in Seq(Call)
    BY DEF Empty, BufferRec
  <2>2. buffer' \in [Runtime -> [Identity -> BufferRec]] /\ timers' \in [Runtime -> Seq(TimerRec)] /\ queue' \in [Runtime -> Seq(Call)]
    BY <1>3, <2>1
  <2> QED BY <1>1, <1>2, <1>3, <2>2 DEF TypeOK, CallRec, BufferRec, TimerRec, byHand
<1>7. Routed' /\ Keyed' /\ Entries' /\ Alone'
  BY <1>1, <1>4, QuietKeys, QuietEntries, QuietAlone
<1>8. \A g \in Runtime, i \in Identity : buffer'[g][i].entries = <<>>
  BY <1>3 DEF Empty
<1>9. Buffers'
  <2>1. \A g \in Runtime, i \in Identity : Once(buffer'[g][i].entries) /\ Range(buffer'[g][i].entries) = {}
    BY <1>8 DEF Once, Range
  <2>2. \A c \in Call : call'[c].at # "buffered"
    BY <1>5 DEF Ended
  <2> QED BY <2>1, <2>2 DEF Buffers
<1>10. Timed'
  BY <1>8 DEF Timed
<1>11. Merged'
  BY <1>5 DEF Merged, Ended
<1>12. Queues'
  <2>1. \A c \in Call : ~Holds(c)'
    BY <1>5 DEF Holds, InSection, Ended
  <2>2. \A g \in Runtime : queue'[g] = <<>> /\ Range(queue'[g]) = {}
    BY <1>3 DEF Range
  <2> QED BY <2>1, <2>2 DEF Queues, Once
<1>13. (\A c \in Call : Calm(c)) /\ KeysStay
  <2>1. ASSUME NEW c \in Call, call'[c].at \in InSection \cup {"conflict"} PROVE call'[c].at = call[c].at
    BY <1>2, <2>1 DEF InSection
  <2> QED BY <1>2, <2>1 DEF Calm, KeysStay, Kept, Static
<1>14. StoreStays
  BY <1>3 DEF StoreStays, byHand
<1>15. Numbered' /\ Sections' /\ CurrentExists'
  BY <1>1, <1>13, <1>14, CalmStore DEF ApplicationInv
<1>16. Fresh'
  BY <1>1, <1>2 DEF Fresh, Kept, Static, EntriesOf, Early, Ended
<1> QED BY <1>6, <1>7, <1>9, <1>10, <1>11, <1>12, <1>15, <1>16 DEF ApplicationInv

(* Midnight and the removal of a session leave the calls as they are.      *)
LEMMA CallsUntouched ==
  ASSUME ApplicationInv, UNCHANGED <<call, buffer, timers, queue>>, StoreStays, TypeOK'
  PROVE  ApplicationInv'
<1>1. Routed' /\ Keyed'
  BY DEF ApplicationInv, Routed, Keyed, TypeOf
<1>2. Buffers' /\ Merged' /\ Timed'
  BY DEF ApplicationInv, Buffers, Merged, Timed, EntriesOf
<1>3. Entries' /\ Alone'
  BY DEF ApplicationInv, Entries, Alone, EntriesOf
<1>4. Queues'
  BY DEF ApplicationInv, Queues, Holds
<1>5. (\A c \in Call : Calm(c)) /\ KeysStay
  BY DEF Calm, KeysStay
<1>6. Numbered' /\ Sections' /\ CurrentExists'
  BY <1>5, CalmStore DEF ApplicationInv
<1>7. Fresh'
  BY DEF ApplicationInv, Fresh, EntriesOf
<1> QED BY <1>1, <1>2, <1>3, <1>4, <1>6, <1>7 DEF ApplicationInv

LEMMA MidnightKeeps ==
  ASSUME ApplicationInv, Midnight
  PROVE  ApplicationInv'
<1>1. TypeOK
  BY DEF ApplicationInv
<1>2. UNCHANGED <<call, buffer, timers, queue, file, rows, current, byHand, reloads, crashes, edits>> /\ day' = day + 1
      /\ day \in Nat /\ day + 1 \in Days
  BY <1>1, EventBounds DEF Midnight
<1>3. TypeOK'
  BY <1>1, <1>2 DEF TypeOK, byHand
<1> QED BY <1>2, <1>3, CallsUntouched DEF StoreStays, byHand

LEMMA RemoveActiveKeeps ==
  ASSUME ApplicationInv, NEW r \in Route, NEW t \in Type, RemoveActive(r, t)
  PROVE  ApplicationInv'
<1>1. TypeOK
  BY DEF ApplicationInv
<1>2. UNCHANGED <<call, buffer, timers, queue, file, rows, byHand, day, reloads, crashes>> /\ edits' = edits + 1
      /\ day \in Nat /\ day \in Days /\ edits + 1 \in 0..MaxEvents
  BY <1>1, EventBounds DEF RemoveActive, TypeOK
<1>3. /\ current' \in [Route -> [Type -> Id \cup {NoId}]]
      /\ \A s \in Route, u \in Type : current'[s][u] \in {current[s][u], NoId}
  <2>1. current \in [Route -> [Type -> Id \cup {NoId}]]
    BY <1>1 DEF TypeOK
  <2> DEFINE f == [u \in Type |-> IF current[r][u] = current[r][t] THEN NoId ELSE current[r][u]]
  <2>2. current' = [current EXCEPT ![r] = f]
    BY <2>1 DEF RemoveActive
  <2>3. f \in [Type -> Id \cup {NoId}] /\ \A u \in Type : f[u] \in {current[r][u], NoId}
    BY <2>1
  <2> HIDE DEF f
  <2> QED BY <2>1, <2>2, <2>3
<1>4. TypeOK'
  BY <1>1, <1>2, <1>3 DEF TypeOK, byHand
<1> QED BY <1>2, <1>3, <1>4, CallsUntouched DEF StoreStays, byHand

LEMMA CreateKeeps ==
  ASSUME ApplicationInv, NEW p \in Profile, NEW id \in Names, Create(p, id)
  PROVE  ApplicationInv'
<1>1. TypeOK /\ id \in Id
  BY ApplicationsAssumption DEF ApplicationInv, ApplicationsAssumption
<1>2. UNCHANGED <<call, buffer, timers, queue, rows, current, deleted, day, reloads, crashes>> /\ edits' = edits + 1
      /\ day \in Nat /\ day \in Days /\ edits + 1 \in 0..MaxEvents
      /\ file' = [file EXCEPT ![p] = @ \cup {id}] /\ created' = [created EXCEPT ![p] = @ \cup {id}]
  BY <1>1, EventBounds DEF Create, TypeOK
<1>3. /\ file' \in [Profile -> SUBSET Id] /\ created' \in [Profile -> SUBSET Id]
      /\ \A q \in Profile : /\ file[q] \subseteq file'[q] /\ created[q] \subseteq created'[q]
                           /\ file'[q] \subseteq file[q] \cup created'[q]
  <2>1. file \in [Profile -> SUBSET Id] /\ created \in [Profile -> SUBSET Id]
    BY <1>1 DEF TypeOK
  <2> QED BY <1>1, <1>2, <2>1
<1>4. TypeOK'
  BY <1>1, <1>2, <1>3 DEF TypeOK
<1>5. StoreStays
  BY <1>2, <1>3 DEF StoreStays
<1> QED BY <1>2, <1>4, <1>5, CallsUntouched

LEMMA DeleteKeeps ==
  ASSUME ApplicationInv, NEW p \in Profile, NEW id \in file[p], Delete(p, id)
  PROVE  ApplicationInv'
<1>1. TypeOK /\ id \in Id
  BY DEF ApplicationInv, TypeOK
<1>2. UNCHANGED <<call, buffer, timers, queue, rows, current, created, day, reloads, crashes>> /\ edits' = edits + 1
      /\ day \in Nat /\ day \in Days /\ edits + 1 \in 0..MaxEvents
      /\ file' = [file EXCEPT ![p] = @ \ {id}] /\ deleted' = [deleted EXCEPT ![p] = @ \cup {id}]
  BY <1>1, EventBounds DEF Delete, TypeOK
<1>3. /\ file' \in [Profile -> SUBSET Id] /\ deleted' \in [Profile -> SUBSET Id]
      /\ \A q \in Profile : file[q] \cup deleted[q] \subseteq file'[q] \cup deleted'[q] /\ file'[q] \subseteq file[q]
  <2>1. file \in [Profile -> SUBSET Id] /\ deleted \in [Profile -> SUBSET Id]
    BY <1>1 DEF TypeOK
  <2> QED BY <1>1, <1>2, <2>1
<1>4. TypeOK'
  BY <1>1, <1>2, <1>3 DEF TypeOK
<1>5. StoreStays
  BY <1>2, <1>3 DEF StoreStays
<1> QED BY <1>2, <1>4, <1>5, CallsUntouched


-----------------------------------------------------------------------------
(* The invariant, and the theorems.                                        *)
LEMMA InitialTypes == Init => TypeOK
<1> SUFFICES ASSUME Init PROVE TypeOK
  OBVIOUS
<1> DEFINE i0 == CHOOSE i \in Identity : TRUE
<1>1. i0 \in Identity
  BY ApplicationsAssumption
<1> HIDE DEF i0
<1> DEFINE r0 == [op |-> "message", identity |-> i0, runtime |-> 0, route |-> NoId, at |-> "new", key |-> NoKey,
                  id |-> NoId, entries |-> <<>>, sent |-> 0]
<1>2. call = [c \in Call |-> r0]
  BY DEF Init, i0
<1>3. 0 \in Runtime /\ 0 \in 0..MaxEvents /\ 1 \in Days
  BY ApplicationsAssumption DEF Runtime, Days
<1>4. r0 \in CallRec
  <2>1. "message" \in Op /\ "new" \in At /\ <<>> \in Seq(Call)
    BY DEF Op, At
  <2> QED BY <1>1, <1>3, <2>1 DEF CallRec
<1> HIDE DEF r0
<1>5. call \in [Call -> CallRec]
  BY <1>2, <1>4
<1>6. /\ buffer \in [Runtime -> [Identity -> BufferRec]] /\ timers \in [Runtime -> Seq(TimerRec)] /\ queue \in [Runtime -> Seq(Call)]
  <2>1. [i \in Identity |-> Empty] \in [Identity -> BufferRec] /\ <<>> \in Seq(TimerRec) /\ <<>> \in Seq(Call)
    BY DEF Empty, BufferRec
  <2> QED BY <2>1 DEF Init
<1>7. file \in [Profile -> SUBSET Id] /\ created \in [Profile -> SUBSET Id] /\ deleted \in [Profile -> SUBSET Id] /\ rows \in SUBSET RowRec /\ current \in [Route -> [Type -> Id \cup {NoId}]]
  BY DEF Init
<1>8. day \in Days /\ reloads \in Runtime /\ crashes \in 0..MaxEvents /\ edits \in 0..MaxEvents
  BY <1>3 DEF Init
<1> QED BY <1>5, <1>6, <1>7, <1>8 DEF TypeOK, CallRec, BufferRec, TimerRec, RowRec

LEMMA Starts == Init => ApplicationInv
<1> SUFFICES ASSUME Init PROVE ApplicationInv
  OBVIOUS
<1>1. TypeOK
  BY InitialTypes
<1>2. ASSUME NEW c \in Call
      PROVE  /\ call[c].id = NoId /\ call[c].at = "new" /\ call[c].route = NoId /\ call[c].key = NoKey /\ call[c].sent = 0
             /\ call[c].op = "message" /\ EntriesOf(c) = {}
  <2>1. call[c].entries = <<>>
    BY DEF Init
  <2>2. EntriesOf(c) = {}
    BY <2>1 DEF EntriesOf, Range
  <2> QED BY <2>2 DEF Init
<1>3. \A g \in Runtime : queue[g] = <<>> /\ Range(queue[g]) = {} /\ timers[g] = <<>>
  BY DEF Init, Range
<1>4. \A g \in Runtime, i \in Identity : buffer[g][i].entries = <<>> /\ Range(buffer[g][i].entries) = {}
  BY DEF Init, Empty, Range
<1>5. Routed /\ Keyed
  BY <1>2 DEF Routed, Keyed, Dispatched, InSection, Ended
<1>6. Buffers /\ Timed
  <2>1. \A g \in Runtime, i \in Identity : Once(buffer[g][i].entries)
    BY <1>4 DEF Once
  <2>2. \A c \in Call : call[c].at # "buffered"
    BY <1>2
  <2>3. Buffers
    BY <1>4, <2>1, <2>2 DEF Buffers
  <2> QED BY <1>4, <2>3 DEF Timed
<1>7. Entries /\ Alone /\ Merged
  BY <1>2 DEF Entries, Alone, Merged, Dispatched, InSection
<1>8. Queues
  BY <1>2, <1>3 DEF Queues, Once, Holds, InSection
<1>9. Numbered
  BY FS_EmptySet DEF Init, Numbered
<1>10. Sections
  BY <1>2 DEF Sections, IdentifiedAt, FiledAt, ContendedAt, DividedAt, ConflictAt, InSection
<1>11. CurrentExists
  BY DEF Init, CurrentExists
<1>12. Fresh
  BY <1>2 DEF Fresh
<1> QED BY <1>1, <1>5, <1>6, <1>7, <1>8, <1>9, <1>10, <1>11, <1>12 DEF ApplicationInv

LEMMA StutterKeeps ==
  ASSUME ApplicationInv, UNCHANGED vars
  PROVE  ApplicationInv'
<1>1. UNCHANGED <<call, buffer, timers, queue, file, rows, current, byHand, bounds>> /\ TypeOK
  BY DEF vars, byHand, bounds, ApplicationInv
<1>2. StoreStays
  BY <1>1, StoreUntouched
<1>3. TypeOK'
  BY <1>1 DEF TypeOK, byHand, bounds
<1> QED BY <1>1, <1>2, <1>3, CallsUntouched

LEMMA StepKeeps ==
  ASSUME ApplicationInv, [Next]_vars
  PROVE  ApplicationInv'
<1>1. ASSUME NEW c \in Call, NEW op \in Op, NEW i \in Identity, NEW id \in Names \cup {NoId}, Receive(c, op, i, id) PROVE ApplicationInv'
  <2>1. id \in Id \cup {NoId}
    BY ApplicationsAssumption DEF ApplicationsAssumption
  <2> QED BY <1>1, <2>1, ReceiveKeeps
<1>2. ASSUME NEW c \in Call, Step(c) PROVE ApplicationInv'
  <2>1. CASE InboundFails(c)
    BY <2>1, InboundFailsKeeps
  <2>2. CASE Resolve(c)
    BY <2>2, ResolveKeeps
  <2>3. CASE List(c)
    BY <2>3, ListKeeps
  <2>4. CASE Write(c)
    BY <2>4, WriteKeeps
  <2>5. CASE Record(c)
    BY <2>5, RecordKeeps
  <2>6. CASE Handoff(c)
    BY <2>6, HandoffKeeps
  <2>7. ASSUME NEW yes \in BOOLEAN, Collect(c, yes) PROVE ApplicationInv'
    BY <2>7, CollectKeeps
  <2>8. ASSUME NEW yes \in BOOLEAN, Prompt(c, yes) PROVE ApplicationInv'
    BY <2>8, PromptKeeps
  <2>9. ASSUME NEW yes \in BOOLEAN, Prompted(c, yes) PROVE ApplicationInv'
    BY <2>9, PromptedKeeps
  <2>10. CASE ResolutionFails(c)
    BY <2>10, ResolutionFailsKeeps
  <2> QED BY <1>2, <2>1, <2>2, <2>3, <2>4, <2>5, <2>6, <2>7, <2>8, <2>9, <2>10 DEF Step
<1>3. ASSUME NEW g \in Runtime, NEW n \in DOMAIN timers[g], Flush(g, n) PROVE ApplicationInv'
  BY <1>3, FlushKeeps
<1>4. ASSUME NEW r \in Route, NEW t \in Type, RemoveActive(r, t) PROVE ApplicationInv'
  BY <1>4, RemoveActiveKeeps
<1>5. ASSUME NEW p \in Profile, NEW id \in Names, Create(p, id) PROVE ApplicationInv'
  BY <1>5, CreateKeeps
<1>6. ASSUME NEW p \in Profile, NEW id \in file[p], Delete(p, id) PROVE ApplicationInv'
  BY <1>6, DeleteKeeps
<1> QED BY <1>1, <1>2, <1>3, <1>4, <1>5, <1>6, ReloadKeeps, CrashKeeps, MidnightKeeps, StutterKeeps DEF Next, Fire

THEOREM ApplicationInvariant == Spec => []ApplicationInv
<1>1. Init => ApplicationInv
  BY Starts
<1>2. ApplicationInv /\ [Next]_vars => ApplicationInv'
  BY StepKeeps
<1> QED BY <1>1, <1>2, PTL DEF Spec

(* The next id of a route has a number above every row of its prefix and   *)
(* day, and a row whose call did not bring its id has a number no lower.   *)
LEMMA NextIsFree ==
  ASSUME ApplicationInv
  PROVE  NextIdIsFree
<1>1. TypeOK /\ Keyed /\ Numbered
  BY DEF ApplicationInv
<1>2. SUFFICES ASSUME NEW r \in Route, NEW x \in rows, x.id = NextSessionId(r)
               PROVE  \E c \in Call : call[c].op = "named" /\ call[c].id = x.id /\ call[c].route = x.route
  BY DEF NextIdIsFree
<1>3. day \in Days /\ x \in RowRec
  BY <1>1, Types DEF TypeOK
<1> DEFINE q == Sequence(r, day)
<1>4. q \in Nat \ {0} /\ \A y \in rows : y.route.prefix = r.prefix /\ y.day = day => y.seq < q
  BY <1>1, <1>3, SequenceBounds DEF Numbered
<1>5. x.id = [prefix |-> r.prefix, day |-> day, seq |-> q]
  BY <1>2 DEF NextSessionId
<1> HIDE DEF q
<1>6. x.id \in MadeUp
  BY <1>3, <1>4, <1>5 DEF MadeUp, Route
<1>7. PICK c \in Call : /\ call[c].key # NoKey /\ call[c].key.route = x.route
                        /\ call[c].id = x.id /\ (call[c].op = "named" \/ Numbers(x))
  BY <1>1 DEF Numbered, RowAt
<1>8. call[c].route = x.route
  BY <1>1, <1>7 DEF Keyed
<1>9. SUFFICES ASSUME Numbers(x) PROVE FALSE
  BY <1>7, <1>8
<1>10. /\ x.day <= day /\ x.id.prefix = x.route.prefix /\ x.id.day <= x.day
       /\ x.id.day = x.day => x.id.seq <= x.seq
  BY <1>1, <1>9 DEF Numbered, RowAt, Numbers
<1>11. x.day = day /\ x.route.prefix = r.prefix /\ q <= x.seq
  <2>1. x.id.prefix = r.prefix /\ x.id.day = day /\ x.id.seq = q
    BY <1>5
  <2>2. x.day \in Nat /\ day \in Nat
    BY <1>3 DEF RowRec, Days
  <2>3. x.day = day
    BY <1>10, <2>1, <2>2
  <2> QED BY <1>10, <2>1, <2>3
<1> QED BY <1>3, <1>4, <1>11 DEF RowRec

(* The types hold, the day's sequence can go on unless a client named its  *)
(* next id, the active sessions exist unless somebody deleted their files, *)
(* no message reaches the agent twice, and a conflict comes from another   *)
(* queue or from a file made by hand: whatever crashes, reloads, midnights *)
(* and failures fall between the steps of the calls.                       *)
THEOREM InvHolds == Spec => []Inv
<1>1. ApplicationInv => Inv
  <2> SUFFICES ASSUME ApplicationInv PROVE Inv
    OBVIOUS
  <2>1. TypeOK /\ CurrentExists
    BY DEF ApplicationInv
  <2>2. NextIdIsFree
    BY NextIsFree
  <2>3. SentOnce
    BY DEF ApplicationInv, Entries, SentOnce
  <2>4. ConflictsComeFromOtherQueues
    BY DEF ApplicationInv, Sections, ConflictAt, ElsewhereKeyed, ConflictsComeFromOtherQueues
  <2> QED BY <2>1, <2>2, <2>3, <2>4 DEF Inv
<1> QED BY <1>1, ApplicationInvariant, PTL

(* A message that waits in a buffer is in the buffer of its runtime, whose *)
(* timer of the current version is set; a merged one has a leader that is  *)
(* under way.                                                              *)
THEOREM BufferedWillFlushHolds == Spec => []BufferedWillFlush
<1>1. ApplicationInv => BufferedWillFlush
  <2> SUFFICES ASSUME ApplicationInv PROVE BufferedWillFlush
    OBVIOUS
  <2>1. \A c \in Call : call[c].at = "buffered" => c \in Range(buffer[call[c].runtime][call[c].identity].entries)
    BY CallParts DEF ApplicationInv, Buffers
  <2> QED BY <2>1 DEF ApplicationInv, Timed, Merged, BufferedWillFlush
<1> QED BY <1>1, ApplicationInvariant, PTL

(* Where one queue served all the calls of a route, a step that gives the  *)
(* route another session is the record of a roll-over or a named session:  *)
(* an undivided queue never cuts a conversation.                           *)
LEMMA OnlyRecordMovesOn ==
  ASSUME ApplicationInv, [Next]_vars, NEW r \in Route, NEW t \in Type,
         current[r][t] # NoId, current'[r][t] \notin {NoId, current[r][t]}
  PROVE  \E c \in Call : /\ call[c].at = "record" /\ ~Associated(call[c].id, call[c].route, TypeOf(c))
                         /\ call[c].route = r /\ TypeOf(c) = t
<1>1. TypeOK /\ Routed /\ current \in [Route -> [Type -> Id \cup {NoId}]]
  BY DEF ApplicationInv, TypeOK
<1>2. current' # current
  OBVIOUS
<1>3. ASSUME NEW c \in Call, Record(c)
      PROVE  \E d \in Call : /\ call[d].at = "record" /\ ~Associated(call[d].id, call[d].route, TypeOf(d))
                             /\ call[d].route = r /\ TypeOf(d) = t
  <2>1. call[c].at = "record" /\ ~Associated(call[c].id, call[c].route, TypeOf(c))
        /\ current' = CurrentSet(call[c].route, TypeOf(c), call[c].id)
    BY <1>2, <1>3 DEF Record
  <2>2. call[c].route \in Route /\ TypeOf(c) \in Type
    BY <1>1, <2>1, CallParts DEF Routed, Ended
  <2>3. ASSUME call[c].route # r \/ TypeOf(c) # t PROVE FALSE
    <3> DEFINE s == call[c].route
    <3> DEFINE u == TypeOf(c)
    <3>1. current' = [current EXCEPT ![s][u] = call[c].id] /\ s \in Route /\ u \in Type /\ (s # r \/ u # t)
      BY <2>1, <2>2, <2>3 DEF CurrentSet
    <3> HIDE DEF s, u
    <3>2. current'[r][t] = current[r][t]
      BY <1>1, <3>1
    <3> QED BY <3>2
  <2> QED BY <2>1, <2>3
<1>4. ASSUME NEW s \in Route, NEW u \in Type, RemoveActive(s, u) PROVE FALSE
  <2> DEFINE f == [v \in Type |-> IF current[s][v] = current[s][u] THEN NoId ELSE current[s][v]]
  <2>1. current' = [current EXCEPT ![s] = f]
    BY <1>1, <1>4 DEF RemoveActive
  <2>2. \A v \in Type : f[v] \in {current[s][v], NoId}
    OBVIOUS
  <2> HIDE DEF f
  <2> QED BY <1>1, <2>1, <2>2
<1>5. ASSUME NEW c \in Call, Step(c), ~Record(c) PROVE FALSE
  <2>1. InboundFails(c) \/ Resolve(c) \/ List(c) \/ Write(c) \/ Handoff(c) \/ ResolutionFails(c) => current' = current
    BY DEF InboundFails, Resolve, List, Write, Handoff, ResolutionFails
  <2>2. \A yes \in BOOLEAN : Collect(c, yes) \/ Prompt(c, yes) \/ Prompted(c, yes) => current' = current
    BY DEF Collect, Prompt, Prompted
  <2> QED BY <1>2, <1>5, <2>1, <2>2 DEF Step
<1>6. ASSUME NEW c \in Call, NEW op \in Op, NEW i \in Identity, NEW id \in Names \cup {NoId}, Receive(c, op, i, id) PROVE FALSE
  BY <1>2, <1>6 DEF Receive
<1>7. ASSUME Fire \/ Reload \/ Crash \/ Midnight \/ UNCHANGED vars PROVE FALSE
  <2>1. \A g \in Runtime : \A n \in DOMAIN timers[g] : Flush(g, n) => current' = current
    BY DEF Flush
  <2>2. Reload \/ Crash \/ Midnight \/ UNCHANGED vars => current' = current
    BY DEF Reload, Crash, Midnight, vars
  <2> QED BY <1>2, <1>7, <2>1, <2>2 DEF Fire
<1>8. ASSUME NEW p \in Profile, NEW id, Create(p, id) \/ Delete(p, id) PROVE FALSE
  BY <1>2, <1>8 DEF Create, Delete
<1> QED BY <1>3, <1>4, <1>5, <1>6, <1>7, <1>8 DEF Next

THEOREM ConversationContinuesHolds == Spec => ConversationContinues
<1>1. ASSUME ApplicationInv, [Next]_vars, NEW r \in Route, NEW t \in Type,
             Undivided(r, t), current[r][t] # NoId, current'[r][t] \notin {NoId, current[r][t]}
      PROVE  \E c \in Call : call[c].at = "record" /\ TypeOf(c) = t /\ call[c].op \in {"rollover", "named"}
  <2>1. PICK c \in Call : call[c].at = "record" /\ call[c].route = r /\ TypeOf(c) = t
    BY <1>1, OnlyRecordMovesOn
  <2>2. call[c].op \in {"rollover", "named"}
    <3>1. ASSUME call[c].op \notin {"rollover", "named"} PROVE FALSE
      <4>1. call[c].op \in {"message", "direct", "stateless"} /\ call[c].key # NoKey /\ call[c].key.route = r
        BY <1>1, <2>1, <3>1, CallParts DEF ApplicationInv, Op, Keyed, Dispatched, InSection
      <4>2. Overtaken(c)
        BY <1>1, <2>1, <4>1 DEF ApplicationInv, Sections, DividedAt, InSection
      <4>3. PICK d \in Call : call[d].key # NoKey /\ call[d].key.route = r /\ TypeOf(d) = t /\ call[d].key # call[c].key
        BY <2>1, <4>2 DEF Overtaken
      <4>4. {TypeOf(c), TypeOf(d)} = {t}
        BY <2>1, <4>3
      <4> QED BY <1>1, <4>1, <4>3, <4>4 DEF Undivided
    <3> QED BY <3>1
  <2> QED BY <2>1, <2>2
<1>2. ApplicationInv /\ [Next]_vars =>
        [\A r \in Route, t \in Type :
           (Undivided(r, t) /\ current[r][t] # NoId /\ current'[r][t] \notin {NoId, current[r][t]})
             => \E c \in Call : call[c].at = "record" /\ TypeOf(c) = t /\ call[c].op \in {"rollover", "named"}]_vars
  BY <1>1
<1> QED BY <1>2, ApplicationInvariant, PTL DEF Spec, ConversationContinues
=============================================================================
