-------------------------- MODULE ConsumerLoopProofs --------------------------
(***************************************************************************)
(* Lemmas about the shared loop, for whatever messages a topic carries and  *)
(* whatever steps a service's body has: the pieces an action of a service   *)
(* is put together from keep every worker where Positions says it is.       *)
(***************************************************************************)
EXTENDS ConsumerLoop, FiniteSetTheorems, TLAPS

\* The types of the loop's variables; M: the messages, S: the steps.
LoopTypeOK(M, S) ==
    /\ input \in [Partitions -> Seq(M)]
    /\ committed \in [Partitions -> Nat]
    /\ owner \in [Partitions -> Workers]
    /\ pc \in [Workers -> S]
    /\ part \in [Workers -> Partitions]
    /\ offset \in [Workers -> Nat]
    /\ attempts \in [Workers -> Nat]
    /\ leased \in [Workers -> BOOLEAN]

Outside == {"idle", "down", "halted"}

\* w stays with its message, with or without an offset taken.
Keeps(w, step) ==
    /\ Busy(w)
    /\ CommitUnknown(w)
    /\ pc' = [pc EXCEPT ![w] = step]
    /\ UNCHANGED <<input, owner, part, offset, leased>>

\* w lets go of its message, with or without an offset taken.
Drops(w, step) ==
    /\ \/ Busy(w) /\ CommitUnknown(w)
       \/ UNCHANGED committed
    /\ Release(w, step)
    /\ UNCHANGED <<input, owner>>

\* The partitions are assigned anew; a worker v may come back.
Regroups ==
    /\ leased' = [w \in Workers |-> FALSE]
    /\ \/ UNCHANGED pc
       \/ \E v \in Workers : pc[v] = "down" /\ pc' = [pc EXCEPT ![v] = "idle"]
    /\ UNCHANGED <<input, committed, part, offset>>

-----------------------------------------------------------------------------
\* There is a partition to park an idle worker at.
LEMMA AnyPartitionType == AnyPartition \in Partitions
BY ConsumerLoopAssumption DEF AnyPartition

\* A busy worker is one whose step is not outside the loop body.
LEMMA BusyPc ==
    ASSUME NEW w \in Workers
    PROVE  Busy(w) <=> pc[w] \notin Outside
BY DEF Busy, Live, Outside

\* ... and after a step.
LEMMA BusyPcNext ==
    ASSUME NEW w \in Workers
    PROVE  Busy(w)' <=> pc'[w] \notin Outside
BY DEF Busy, Live, Outside

\* What Positions says of a busy worker, in arithmetic.
LEMMA HoldsFacts ==
    ASSUME NEW M, NEW S, LoopTypeOK(M, S), Positions, NEW w \in Workers, Busy(w)
    PROVE  /\ part[w] \in Partitions
           /\ offset[w] \in Nat
           /\ committed[part[w]] \in Nat
           /\ 1 <= offset[w]
           /\ offset[w] <= Len(input[part[w]])
           /\ offset[w] <= committed[part[w]] + 1
           /\ leased[w] => offset[w] >= committed[part[w]]
<1>1. /\ part[w] \in Partitions
      /\ offset[w] \in Nat
      /\ committed[part[w]] \in Nat
  BY DEF LoopTypeOK
<1>2. Len(input[part[w]]) \in Nat
  BY <1>1 DEF LoopTypeOK
<1>3. Holds(w)
  BY DEF Positions
<1>4. leased[w] => Covers(w)
  BY DEF Positions
<1>5. QED  BY <1>1, <1>2, <1>3, <1>4 DEF Holds, Covers

\* A commit moves at most w's own partition, and only to its next offset.
LEMMA CommitFacts ==
    ASSUME NEW M, NEW S, LoopTypeOK(M, S), Positions, NEW w \in Workers,
           Busy(w), CommitUnknown(w)
    PROVE  /\ committed' \in [Partitions -> Nat]
           /\ \A p \in Partitions :
                /\ committed'[p] >= committed[p]
                /\ committed'[p] # committed[p] =>
                      /\ leased[w] /\ p = part[w] /\ owner[p] = w
                      /\ committed'[p] = offset[w]
                      /\ offset[w] = committed[p] + 1
<1>1. CASE UNCHANGED committed
  BY <1>1 DEF LoopTypeOK
<1>2. CASE committed' = [committed EXCEPT ![part[w]] = offset[w]] /\ leased[w]
  <2>1. /\ part[w] \in Partitions
        /\ offset[w] \in Nat
        /\ committed[part[w]] \in Nat
        /\ offset[w] <= committed[part[w]] + 1
        /\ offset[w] >= committed[part[w]]
    BY <1>2, HoldsFacts
  <2>2. owner[part[w]] = w
    BY <1>2 DEF Positions, Covers
  <2>3. committed' \in [Partitions -> Nat]
    BY <1>2, <2>1 DEF LoopTypeOK
  <2>4. ASSUME NEW p \in Partitions
        PROVE  /\ committed'[p] >= committed[p]
               /\ committed'[p] # committed[p] =>
                     /\ leased[w] /\ p = part[w] /\ owner[p] = w
                     /\ committed'[p] = offset[w]
                     /\ offset[w] = committed[p] + 1
    <3>1. committed[p] \in Nat
      BY DEF LoopTypeOK
    <3>2. committed'[p] = IF p = part[w] THEN offset[w] ELSE committed[p]
      BY <1>2 DEF LoopTypeOK
    <3>3. QED  BY <1>2, <2>1, <2>2, <3>1, <3>2
  <2>5. QED  BY <2>3, <2>4
<1>3. QED  BY <1>1, <1>2 DEF CommitUnknown, AdvanceOffset

-----------------------------------------------------------------------------
(* Each kind of step keeps Positions.                                       *)

\* A message that arrives from upstream disturbs nobody.
LEMMA ArrivalKeepsPositions ==
    ASSUME NEW M, NEW S, LoopTypeOK(M, S), Positions,
           NEW q \in Partitions, NEW m \in M,
           input' = [input EXCEPT ![q] = Append(@, m)],
           UNCHANGED <<committed, owner, leased, pc, part, offset>>
    PROVE  Positions'
<1>1. ASSUME NEW p \in Partitions
      PROVE  /\ Len(input[p]) \in Nat
             /\ Len(input'[p]) \in Nat
             /\ Len(input[p]) <= Len(input'[p])
  <2>1. input[p] \in Seq(M)
    BY DEF LoopTypeOK
  <2>2. input'[p] = IF p = q THEN Append(input[p], m) ELSE input[p]
    BY DEF LoopTypeOK
  <2>3. Len(Append(input[p], m)) = Len(input[p]) + 1
    BY <2>1
  <2>4. QED  BY <2>1, <2>2, <2>3
<1>2. CommittedInLog'
  <2>1. ASSUME NEW p \in Partitions
        PROVE  committed[p] <= Len(input'[p])
    <3>1. committed[p] \in Nat /\ committed[p] <= Len(input[p])
      BY DEF LoopTypeOK, Positions, CommittedInLog
    <3>2. QED  BY <1>1, <3>1
  <2>2. QED  BY <2>1 DEF CommittedInLog
<1>3. ASSUME NEW w \in Workers, Busy(w)'
      PROVE  Holds(w)'
  <2>1. Busy(w)
    BY <1>3, BusyPc DEF Busy, Live
  <2>2. QED  BY <1>1, <2>1, HoldsFacts DEF Holds
<1>4. ASSUME NEW w \in Workers, leased'[w]
      PROVE  Covers(w)'
  BY <1>4 DEF Positions, Covers, Busy, Live
<1>5. QED  BY <1>2, <1>3, <1>4 DEF Positions

\* Taking the next message of an owned partition: the worker holds and covers it.
LEMMA BeginKeepsPositions ==
    ASSUME NEW M, NEW S, LoopTypeOK(M, S), Positions, NEW w \in Workers,
           NEW q \in Partitions, NEW first, first \notin Outside,
           Begin(w, q, first)
    PROVE  Positions'
<1>1. /\ committed[q] \in Nat
      /\ Len(input[q]) \in Nat
      /\ committed[q] < Len(input[q])
      /\ owner[q] = w
      /\ pc[w] = "idle"
  BY DEF Begin, LoopTypeOK
<1>2. /\ UNCHANGED <<input, committed, owner>>
      /\ pc' = [pc EXCEPT ![w] = first]
      /\ part' = [part EXCEPT ![w] = q]
      /\ offset' = [offset EXCEPT ![w] = committed[q] + 1]
      /\ leased' = [leased EXCEPT ![w] = TRUE]
  BY DEF Begin
<1>3. ASSUME NEW v \in Workers, v # w
      PROVE  /\ pc'[v] = pc[v] /\ part'[v] = part[v]
             /\ offset'[v] = offset[v] /\ leased'[v] = leased[v]
  BY <1>2, <1>3 DEF LoopTypeOK
<1>4. /\ pc'[w] = first /\ part'[w] = q
      /\ offset'[w] = committed[q] + 1
  BY <1>2 DEF LoopTypeOK
<1>5. CommittedInLog'
  BY <1>2 DEF Positions, CommittedInLog
<1>6. ASSUME NEW v \in Workers, Busy(v)'
      PROVE  Holds(v)'
  <2>1. CASE v = w
    BY <1>1, <1>2, <1>4, <2>1 DEF Holds
  <2>2. CASE v # w
    <3>1. Busy(v)
      BY <1>3, <1>6, <2>2 DEF Busy, Live
    <3>2. Holds(v)
      BY <3>1 DEF Positions
    <3>3. QED  BY <1>2, <1>3, <2>2, <3>2 DEF Holds
  <2>3. QED  BY <2>1, <2>2
<1>7. ASSUME NEW v \in Workers, leased'[v]
      PROVE  Covers(v)'
  <2>1. CASE v = w
    <3>1. Busy(w)'
      BY <1>4 DEF Busy, Live, Outside
    <3>2. QED  BY <1>1, <1>2, <1>4, <2>1, <3>1 DEF Covers
  <2>2. CASE v # w
    <3>1. Covers(v)
      BY <1>3, <1>7, <2>2 DEF Positions
    <3>2. QED  BY <1>2, <1>3, <2>2, <3>1 DEF Covers, Busy, Live
  <2>3. QED  BY <2>1, <2>2
<1>8. QED  BY <1>5, <1>6, <1>7 DEF Positions

\* A worker that did not move still stands right after another one's commit.
LEMMA OthersKeepPositions ==
    ASSUME NEW M, NEW S, LoopTypeOK(M, S), Positions, NEW w \in Workers,
           (Busy(w) /\ CommitUnknown(w)) \/ UNCHANGED committed,
           NEW v \in Workers, v # w, Busy(v),
           UNCHANGED <<input, owner>>,
           pc'[v] = pc[v], part'[v] = part[v],
           offset'[v] = offset[v], leased'[v] = leased[v]
    PROVE  /\ Holds(v)'
           /\ leased'[v] => Covers(v)'
<1>1. /\ part[v] \in Partitions
      /\ offset[v] \in Nat
      /\ committed[part[v]] \in Nat
  BY DEF LoopTypeOK
<1>2. Holds(v) /\ (leased[v] => Covers(v))
  BY DEF Positions
<1>3. /\ committed'[part[v]] \in Nat
      /\ committed'[part[v]] >= committed[part[v]]
      /\ owner[part[v]] = v => committed'[part[v]] = committed[part[v]]
  BY <1>1, CommitFacts
<1>4. Holds(v)'
  BY <1>1, <1>2, <1>3 DEF Holds
<1>5. leased'[v] => Covers(v)'
  BY <1>2, <1>3 DEF Covers, Busy, Live
<1>6. QED  BY <1>4, <1>5

\* The next uncommitted offset stays within the log.
LEMMA CommitStaysInLog ==
    ASSUME NEW M, NEW S, LoopTypeOK(M, S), Positions, NEW w \in Workers,
           (Busy(w) /\ CommitUnknown(w)) \/ UNCHANGED committed,
           UNCHANGED input
    PROVE  CommittedInLog'
<1>1. ASSUME NEW p \in Partitions
      PROVE  committed'[p] <= Len(input[p])
  <2>1. committed[p] <= Len(input[p])
    BY DEF Positions, CommittedInLog
  <2>2. CASE committed'[p] = committed[p]
    BY <2>1, <2>2
  <2>3. CASE committed'[p] # committed[p]
    <3>1. Busy(w) /\ CommitUnknown(w)
      BY <2>3
    <3>2. committed'[p] = offset[w] /\ p = part[w]
      BY <2>3, <3>1, CommitFacts
    <3>3. QED  BY <3>1, <3>2, HoldsFacts
  <2>4. QED  BY <2>2, <2>3
<1>2. QED  BY <1>1 DEF CommittedInLog

\* A step inside the body, or a commit() that raised, leaves the worker in place.
LEMMA KeepsKeepsPositions ==
    ASSUME NEW M, NEW S, LoopTypeOK(M, S), Positions, NEW w \in Workers,
           NEW step, step \notin Outside, Keeps(w, step)
    PROVE  Positions'
<1>1. CommittedInLog'
  BY CommitStaysInLog DEF Keeps
<1>2. Holds(w)' /\ (leased'[w] => Covers(w)')
  <2>1. /\ part[w] \in Partitions
        /\ offset[w] \in Nat
        /\ 1 <= offset[w]
        /\ offset[w] <= Len(input[part[w]])
        /\ committed[part[w]] \in Nat
        /\ offset[w] <= committed[part[w]] + 1
        /\ leased[w] => offset[w] >= committed[part[w]]
    BY HoldsFacts DEF Keeps
  <2>2. /\ committed'[part[w]] \in Nat
        /\ committed'[part[w]] >= committed[part[w]]
        /\ committed'[part[w]] # committed[part[w]] =>
              committed'[part[w]] = offset[w]
    BY <2>1, CommitFacts DEF Keeps
  <2>3. Len(input[part[w]]) \in Nat
    BY <2>1 DEF LoopTypeOK
  <2>4. Busy(w)'
    BY DEF Keeps, LoopTypeOK, Busy, Live, Outside
  <2>5. leased[w] => owner[part[w]] = w
    BY DEF Positions, Covers
  <2>6. Holds(w)'
    BY <2>1, <2>2, <2>3 DEF Keeps, Holds
  <2>7. leased[w] => Covers(w)'
    BY <2>1, <2>2, <2>4, <2>5 DEF Keeps, Covers
  <2>8. QED  BY <2>6, <2>7 DEF Keeps
<1>3. ASSUME NEW v \in Workers, v # w, Busy(v)
      PROVE  Holds(v)' /\ (leased'[v] => Covers(v)')
  <2>1. pc'[v] = pc[v]
    BY <1>3 DEF Keeps, LoopTypeOK
  <2>2. QED  BY <1>3, <2>1, OthersKeepPositions DEF Keeps
<1>4. ASSUME NEW v \in Workers, Busy(v)'
      PROVE  Holds(v)'
  <2>1. v # w => Busy(v)
    BY <1>4 DEF Keeps, LoopTypeOK, Busy, Live
  <2>2. QED  BY <1>2, <1>3, <2>1
<1>5. ASSUME NEW v \in Workers, leased'[v]
      PROVE  Covers(v)'
  <2>1. Busy(v)
    BY <1>5 DEF Keeps, Positions, Covers
  <2>2. QED  BY <1>2, <1>3, <1>5, <2>1
<1>6. QED  BY <1>1, <1>4, <1>5 DEF Positions

\* A worker that commits and goes on, crashes, or ends, leaves the others in place.
LEMMA DropsKeepsPositions ==
    ASSUME NEW M, NEW S, LoopTypeOK(M, S), Positions, NEW w \in Workers,
           NEW step \in Outside, Drops(w, step)
    PROVE  Positions'
<1>1. CommittedInLog'
  BY CommitStaysInLog DEF Drops
<1>2. pc'[w] \in Outside /\ ~leased'[w]
  BY DEF Drops, Release, LoopTypeOK
<1>3. ASSUME NEW v \in Workers, v # w
      PROVE  /\ pc'[v] = pc[v] /\ part'[v] = part[v]
             /\ offset'[v] = offset[v] /\ leased'[v] = leased[v]
  BY <1>3 DEF Drops, Release, LoopTypeOK
<1>4. ASSUME NEW v \in Workers, v # w, Busy(v)
      PROVE  Holds(v)' /\ (leased'[v] => Covers(v)')
  BY <1>3, <1>4, OthersKeepPositions DEF Drops
<1>5. ASSUME NEW v \in Workers, Busy(v)'
      PROVE  Holds(v)'
  <2>1. v # w
    BY <1>2, <1>5 DEF Busy, Live, Outside
  <2>2. Busy(v)
    BY <1>3, <1>5, <2>1 DEF Busy, Live
  <2>3. QED  BY <1>4, <2>1, <2>2
<1>6. ASSUME NEW v \in Workers, leased'[v]
      PROVE  Covers(v)'
  <2>1. v # w
    BY <1>2, <1>6
  <2>2. Busy(v)
    BY <1>3, <1>6, <2>1 DEF Positions, Covers
  <2>3. QED  BY <1>4, <1>6, <2>1, <2>2
<1>7. QED  BY <1>1, <1>5, <1>6 DEF Positions

\* After a reassignment no commit() covers anything until the next fetch.
LEMMA RegroupsKeepsPositions ==
    ASSUME NEW M, NEW S, LoopTypeOK(M, S), Positions, Regroups
    PROVE  Positions'
<1>1. CommittedInLog'
  BY DEF Positions, CommittedInLog, Regroups
<1>2. ASSUME NEW v \in Workers, Busy(v)'
      PROVE  Holds(v)'
  <2>1. Busy(v)
    BY <1>2 DEF Regroups, LoopTypeOK, Busy, Live
  <2>2. QED  BY <2>1 DEF Positions, Holds, Regroups
<1>3. ASSUME NEW v \in Workers
      PROVE  ~leased'[v]
  BY DEF Regroups
<1>4. QED  BY <1>1, <1>2, <1>3 DEF Positions

-----------------------------------------------------------------------------
(* What a log holds stays there.                                            *)

\* Appending to a sequence leaves what was there.
LEMMA AppendKeeps ==
    ASSUME NEW D, NEW s \in Seq(D), NEW x \in D
    PROVE  /\ Append(s, x) \in Seq(D)
           /\ Len(Append(s, x)) = Len(s) + 1
           /\ Len(s) \in Nat
           /\ \A i \in 1..Len(s) : Append(s, x)[i] = s[i]
           /\ Append(s, x)[Len(s) + 1] = x
OBVIOUS

\* f[p] is a prefix of g[p], for every partition.
Grows(f, g) ==
    \A p \in Partitions :
        /\ Len(f[p]) \in Nat /\ Len(g[p]) \in Nat
        /\ Len(f[p]) <= Len(g[p])
        /\ \A i \in 1..Len(f[p]) : g[p][i] = f[p][i]

\* Appending to one partition keeps what the topic holds.
LEMMA OneAppendGrows ==
    ASSUME NEW D, NEW f \in [Partitions -> Seq(D)], NEW q \in Partitions,
           NEW x \in D
    PROVE  Grows(f, [f EXCEPT ![q] = Append(@, x)])
<1>1. ASSUME NEW p \in Partitions
      PROVE  LET g == [f EXCEPT ![q] = Append(@, x)] IN
             /\ Len(f[p]) \in Nat /\ Len(g[p]) \in Nat
             /\ Len(f[p]) <= Len(g[p])
             /\ \A i \in 1..Len(f[p]) : g[p][i] = f[p][i]
  <2>1. CASE p = q
    BY <2>1, AppendKeeps
  <2>2. CASE p # q
    BY <2>2
  <2>3. QED  BY <2>1, <2>2
<1>2. QED  BY <1>1 DEF Grows

\* A topic nobody wrote to keeps what it holds.
LEMMA UnchangedGrows ==
    ASSUME NEW D, NEW f \in [Partitions -> Seq(D)], NEW g, g = f
    PROVE  Grows(f, g)
BY DEF Grows

\* The topic f with g applied to every message.
Image(f, g) ==
    [p \in Partitions |-> [i \in 1..Len(f[p]) |-> g[f[p][i]]]]

\* f is a topic of messages D.
IsTopic(f, D) == f \in [Partitions -> Seq(D)]

\* f2 is the topic f with x written to partition q.
Appends(f, f2, q, x) == f2 = [f EXCEPT ![q] = Append(@, x)]

\* A message appended to the topic is appended to its image.
LEMMA ImageOfAppend ==
    ASSUME NEW D, NEW f, IsTopic(f, D), NEW g, NEW q \in Partitions,
           NEW x \in D, NEW f2, Appends(f, f2, q, x)
    PROVE  Appends(Image(f, g), Image(f2, g), q, g[x])
<1> DEFINE n  == Len(f[q])
           s  == Append(Image(f, g)[q], g[x])
<1>0. PICK E : \A d \in D : g[d] \in E
  <2>1. \A d \in D : g[d] \in {g[c] : c \in D}
    OBVIOUS
  <2>2. QED  BY <2>1
<1>1. /\ f2 \in [Partitions -> Seq(D)] /\ f2[q] = Append(f[q], x)
      /\ \A p \in Partitions : p # q => f2[p] = f[p]
      /\ f[q] \in Seq(D) /\ \A d \in D : g[d] \in E
  BY <1>0 DEF IsTopic, Appends
<1>2. /\ n \in Nat /\ Len(f2[q]) = n + 1 /\ f2[q][n + 1] = x
      /\ \A i \in 1..n : f2[q][i] = f[q][i]
  BY <1>1, AppendKeeps
<1>3. /\ Image(f, g)[q] \in Seq(E) /\ Len(Image(f, g)[q]) = n
      /\ \A i \in 1..n : Image(f, g)[q][i] = g[f[q][i]]
  <2>1. Len(f[q]) \in Nat /\ \A i \in 1..Len(f[q]) : g[f[q][i]] \in E
    BY <1>1
  <2>2. Image(f, g)[q] = [i \in 1..Len(f[q]) |-> g[f[q][i]]]
    BY DEF Image
  <2>3. QED  BY <2>1, <2>2
<1>4. /\ s \in Seq(E) /\ Len(s) = n + 1 /\ s[n + 1] = g[x]
      /\ \A i \in 1..n : s[i] = g[f[q][i]]
  BY <1>1, <1>3, AppendKeeps
<1> HIDE DEF n, s
<1>5. /\ Image(f2, g)[q] \in Seq(E) /\ Len(Image(f2, g)[q]) = n + 1
      /\ \A i \in 1..(n + 1) : Image(f2, g)[q][i] = g[f2[q][i]]
  <2>1. n + 1 \in Nat /\ \A i \in 1..(n + 1) : g[f2[q][i]] \in E
    <3>1. f2[q] \in Seq(D) /\ n + 1 \in Nat
      BY <1>1, <1>2
    <3>2. \A i \in 1..(n + 1) : f2[q][i] \in D
      BY <1>2, <3>1
    <3>3. QED  BY <1>1, <3>1, <3>2
  <2>2. Image(f2, g)[q] = [i \in 1..(n + 1) |-> g[f2[q][i]]]
    BY <1>2 DEF Image
  <2>3. QED  BY <2>1, <2>2
<1>6. ASSUME NEW i \in 1..(n + 1)
      PROVE  Image(f2, g)[q][i] = s[i]
  <2>1. CASE i \in 1..n
    <3>1. Image(f2, g)[q][i] = g[f2[q][i]]
      BY <1>5
    <3>2. f2[q][i] = f[q][i] /\ s[i] = g[f[q][i]]
      BY <1>2, <1>4, <2>1
    <3>3. QED  BY <3>1, <3>2
  <2>2. CASE i = n + 1
    BY <1>2, <1>4, <1>5, <2>2
  <2>3. QED  BY <1>2, <2>1, <2>2
<1>7. Image(f2, g)[q] = s
  BY <1>2, <1>4, <1>5, <1>6
<1>8. \A p \in Partitions : p # q => Image(f2, g)[p] = Image(f, g)[p]
  BY <1>1 DEF Image
<1>9. Image(f2, g) = [Image(f, g) EXCEPT ![q] = s]
  BY <1>7, <1>8 DEF Image
<1>10. QED  BY <1>9 DEF s, Appends

-----------------------------------------------------------------------------
(* A step of a service, as far as the loop is concerned.                    *)

Arrives(M) ==
    /\ \E q \in Partitions, m \in M : input' = [input EXCEPT ![q] = Append(@, m)]
    /\ UNCHANGED <<groupVars, workerVars>>

LoopStep(M, S) ==
    \/ Arrives(M)
    \/ \E w \in Workers, q \in Partitions, first \in S \ Outside :
          Begin(w, q, first)
    \/ \E w \in Workers, step \in S \ Outside :
          Keeps(w, step) /\ attempts' \in [Workers -> Nat]
    \/ \E w \in Workers, step \in S \cap Outside : Drops(w, step)
    \/ Regroups /\ owner' \in [Partitions -> Workers] /\ UNCHANGED attempts
    \/ UNCHANGED <<input, groupVars, workerVars>>

\* Moving on within the body.
LEMMA GotoStep ==
    ASSUME NEW M, NEW S, LoopTypeOK(M, S), NEW w \in Workers, Busy(w),
           NEW step \in S \ Outside, Goto(w, step),
           UNCHANGED <<input, committed, owner>>
    PROVE  LoopStep(M, S)
<1>1. Keeps(w, step) /\ attempts' \in [Workers -> Nat]
  BY DEF Goto, Keeps, CommitUnknown, LoopTypeOK
<1>2. QED  BY <1>1 DEF LoopStep

\* A failed attempt, whatever became of the offset.
LEMMA RetryStep ==
    ASSUME NEW M, NEW S, LoopTypeOK(M, S), NEW w \in Workers, Busy(w),
           NEW first \in S \ Outside, "dead_letter" \in S,
           RetryOrGiveUp(w, first), CommitUnknown(w),
           UNCHANGED <<input, owner>>
    PROVE  LoopStep(M, S)
<1>1. attempts' \in [Workers -> Nat]
  <2>1. attempts[w] + 1 \in Nat
    BY DEF LoopTypeOK
  <2>2. QED  BY <2>1 DEF RetryOrGiveUp, LoopTypeOK
<1>2. Keeps(w, first) \/ Keeps(w, "dead_letter")
  BY DEF RetryOrGiveUp, Keeps
<1>3. "dead_letter" \in S \ Outside
  BY DEF Outside
<1>4. QED  BY <1>1, <1>2, <1>3 DEF LoopStep

\* A worker that lets go of its message without a commit.
LEMMA ReleaseStep ==
    ASSUME NEW M, NEW S, NEW w \in Workers, NEW step \in S \cap Outside,
           Release(w, step), UNCHANGED <<input, committed, owner>>
    PROVE  LoopStep(M, S)
<1>1. Drops(w, step)
  BY DEF Drops
<1>2. QED  BY <1>1 DEF LoopStep

\* commit() answered, or raised where nobody catches it.
LEMMA CommitStep ==
    ASSUME NEW M, NEW S, NEW w \in Workers, NEW at \in S \ Outside,
           NEW step \in S \cap Outside,
           \/ CommitAt(w, at) /\ step = "idle"
           \/ CommitKillsAt(w, at, step)
    PROVE  LoopStep(M, S)
<1>1. pc[w] = at /\ Busy(w)
  BY DEF CommitAt, CommitKillsAt, Busy, Live, Outside
<1>2. Drops(w, step)
  BY <1>1 DEF Drops, CommitAt, CommitKillsAt, CommitUnknown
<1>3. QED  BY <1>2 DEF LoopStep

\* A crash, a restart, a reassignment.
LEMMA GroupStep ==
    ASSUME NEW M, NEW S, LoopTypeOK(M, S), "down" \in S,
           \/ \E w \in Workers : Crash(w) \/ Restart(w)
           \/ Rebalance \/ Takeover
    PROVE  LoopStep(M, S)
<1>1. ASSUME NEW w \in Workers, Crash(w)
      PROVE  LoopStep(M, S)
  <2>1. "down" \in S \cap Outside
    BY DEF Outside
  <2>2. QED  BY <1>1, <2>1, ReleaseStep DEF Crash
<1>2. ASSUME \/ Rebalance \/ Takeover \/ \E w \in Workers : Restart(w)
      PROVE  LoopStep(M, S)
  <2>1. Regroups /\ UNCHANGED attempts
    BY <1>2 DEF Rebalance, Takeover, Restart, Regroups, Assign, workerVars
  <2>2. Live \subseteq Workers /\ \A w \in Workers : {w} \subseteq Workers
    BY DEF Live
  <2>3. owner' \in [Partitions -> Workers]
    BY <1>2, <2>2 DEF Rebalance, Takeover, Restart, Assign
  <2>4. QED  BY <2>1, <2>3 DEF LoopStep
<1>3. QED  BY <1>1, <1>2

\* Every step of a service keeps the types of the loop.
LEMMA LoopStepKeepsTypes ==
    ASSUME NEW M, NEW S, LoopTypeOK(M, S), "idle" \in S, LoopStep(M, S)
    PROVE  LoopTypeOK(M, S)'
<1>1. CASE Arrives(M)
  <2>1. PICK q \in Partitions, m \in M :
            input' = [input EXCEPT ![q] = Append(@, m)]
    BY <1>1 DEF Arrives
  <2>2. Append(input[q], m) \in Seq(M)
    BY DEF LoopTypeOK
  <2>3. input' \in [Partitions -> Seq(M)]
    BY <2>1, <2>2 DEF LoopTypeOK
  <2>4. QED
    BY <1>1, <2>3 DEF Arrives, groupVars, workerVars, LoopTypeOK
<1>2. ASSUME NEW w \in Workers, NEW q \in Partitions, NEW first \in S,
             Begin(w, q, first)
      PROVE  LoopTypeOK(M, S)'
  <2>1. committed[q] \in Nat
    BY DEF LoopTypeOK
  <2>2. committed[q] + 1 \in Nat
    BY <2>1
  <2>3. QED  BY <1>2, <2>2 DEF Begin, LoopTypeOK
<1>3. ASSUME NEW w \in Workers, CommitUnknown(w)
      PROVE  committed' \in [Partitions -> Nat]
  BY <1>3 DEF CommitUnknown, AdvanceOffset, LoopTypeOK
<1>4. ASSUME NEW w \in Workers, NEW step \in S, Keeps(w, step),
             attempts' \in [Workers -> Nat]
      PROVE  LoopTypeOK(M, S)'
  BY <1>3, <1>4 DEF Keeps, LoopTypeOK
<1>5. ASSUME NEW w \in Workers, NEW step \in S, Drops(w, step)
      PROVE  LoopTypeOK(M, S)'
  <2>1. committed' \in [Partitions -> Nat]
    BY <1>3, <1>5 DEF Drops, LoopTypeOK
  <2>2. QED  BY <1>5, <2>1, AnyPartitionType DEF Drops, Release, LoopTypeOK
<1>6. CASE /\ Regroups /\ owner' \in [Partitions -> Workers]
           /\ UNCHANGED attempts
  BY <1>6 DEF Regroups, LoopTypeOK
<1>7. CASE UNCHANGED <<input, groupVars, workerVars>>
  BY <1>7 DEF groupVars, workerVars, LoopTypeOK
<1>8. QED  BY <1>1, <1>2, <1>4, <1>5, <1>6, <1>7 DEF LoopStep

\* ... and every worker in its place.
LEMMA LoopStepKeepsPositions ==
    ASSUME NEW M, NEW S, LoopTypeOK(M, S), Positions, LoopStep(M, S)
    PROVE  Positions'
<1>1. CASE Arrives(M)
  BY <1>1, ArrivalKeepsPositions DEF Arrives, groupVars, workerVars
<1>2. CASE UNCHANGED <<input, groupVars, workerVars>>
  BY <1>2
     DEF groupVars, workerVars, Positions, CommittedInLog, Holds, Covers,
         Busy, Live
<1>3. QED
  BY <1>1, <1>2, BeginKeepsPositions, KeepsKeepsPositions,
     DropsKeepsPositions, RegroupsKeepsPositions
     DEF LoopStep

\* ... and what the input topic holds.
LEMMA LoopStepGrows ==
    ASSUME NEW M, NEW S, LoopTypeOK(M, S), LoopStep(M, S)
    PROVE  Grows(input, input')
<1>1. input \in [Partitions -> Seq(M)]
  BY DEF LoopTypeOK
<1>2. CASE Arrives(M)
  <2>1. PICK q \in Partitions, m \in M :
            input' = [input EXCEPT ![q] = Append(@, m)]
    BY <1>2 DEF Arrives
  <2>2. QED  BY <1>1, <2>1, OneAppendGrows
<1>3. CASE UNCHANGED input
  BY <1>1, <1>3, UnchangedGrows
<1>4. QED
  BY <1>2, <1>3 DEF LoopStep, Begin, Keeps, Drops, Regroups

\* v keeps the message it had.
Stays(v) ==
    /\ Busy(v)
    /\ part'[v] = part[v] /\ offset'[v] = offset[v]
    /\ Message(v)' = Message(v)

\* A worker with a message after a step had the same one before, or took it.
LEMMA BusyStaysOrBegins ==
    ASSUME NEW M, NEW S, LoopTypeOK(M, S), Positions, LoopStep(M, S),
           NEW v \in Workers, Busy(v)'
    PROVE  Stays(v) \/ \E q \in Partitions : Begin(v, q, pc'[v])
<1>1. ASSUME Busy(v), part'[v] = part[v], offset'[v] = offset[v]
      PROVE  Stays(v)
  <2>1. Grows(input, input')
    BY LoopStepGrows
  <2>2. part[v] \in Partitions /\ offset[v] \in 1..Len(input[part[v]])
    BY <1>1 DEF LoopTypeOK, Positions, Holds
  <2>3. QED  BY <1>1, <2>1, <2>2 DEF Grows, Stays, Message
<1>2. CASE Arrives(M) \/ UNCHANGED <<input, groupVars, workerVars>>
  BY <1>1, <1>2 DEF Arrives, groupVars, workerVars, Busy, Live
<1>3. ASSUME NEW w \in Workers, NEW q \in Partitions, NEW first,
             Begin(w, q, first)
      PROVE  Stays(v) \/ \E r \in Partitions : Begin(v, r, pc'[v])
  <2>1. CASE v = w
    BY <1>3, <2>1 DEF Begin, LoopTypeOK
  <2>2. CASE v # w
    BY <1>1, <1>3, <2>2 DEF Begin, LoopTypeOK, Busy, Live
  <2>3. QED  BY <2>1, <2>2
<1>4. ASSUME NEW w \in Workers, NEW step, Keeps(w, step)
      PROVE  Stays(v)
  BY <1>1, <1>4 DEF Keeps, LoopTypeOK, Busy, Live
<1>5. ASSUME NEW w \in Workers, NEW step \in Outside, Drops(w, step)
      PROVE  Stays(v)
  <2>1. v # w
    BY <1>5 DEF Drops, Release, LoopTypeOK, Busy, Live, Outside
  <2>2. QED
    BY <1>1, <1>5, <2>1 DEF Drops, Release, LoopTypeOK, Busy, Live
<1>6. CASE Regroups
  BY <1>1, <1>6 DEF Regroups, LoopTypeOK, Busy, Live
<1>7. QED  BY <1>2, <1>3, <1>4, <1>5, <1>6 DEF LoopStep

\* An offset that moves, moves by one, to the message of the worker that
\* commits.
LEMMA CommitAdvances ==
    ASSUME NEW M, NEW S, LoopTypeOK(M, S), Positions, NEW w \in Workers,
           Busy(w), CommitUnknown(w), committed' # committed
    PROVE  /\ part[w] \in Partitions
           /\ committed[part[w]] \in Nat
           /\ offset[w] = committed[part[w]] + 1
           /\ offset[w] <= Len(input[part[w]])
           /\ committed' = [committed EXCEPT ![part[w]] = @ + 1]
<1>1. committed' = [committed EXCEPT ![part[w]] = offset[w]]
  BY DEF CommitUnknown, AdvanceOffset
<1>2. /\ part[w] \in Partitions
      /\ committed[part[w]] \in Nat
      /\ offset[w] <= Len(input[part[w]])
  BY HoldsFacts
<1>3. committed'[part[w]] = offset[w] /\ committed[part[w]] # offset[w]
  BY <1>1, <1>2 DEF LoopTypeOK
<1>4. offset[w] = committed[part[w]] + 1
  BY <1>2, <1>3, CommitFacts
<1>5. QED  BY <1>1, <1>2, <1>4

-----------------------------------------------------------------------------
(* Counting workers.                                                        *)

\* Any set of workers is finite, and no larger than all of them.
LEMMA SomeWorkers ==
    ASSUME NEW A \in SUBSET Workers
    PROVE  /\ IsFiniteSet(A)
           /\ Cardinality(A) \in Nat
           /\ Cardinality(Workers) \in Nat
           /\ Cardinality(A) <= Cardinality(Workers)
           /\ Cardinality(Workers) >= 1
BY ConsumerLoopAssumption, FS_CardinalityType, FS_Subset, FS_EmptySet

\* One worker more, one worker less.
LEMMA OneWorkerMore ==
    ASSUME NEW A \in SUBSET Workers, NEW w \in Workers
    PROVE  /\ w \notin A => Cardinality(A \cup {w}) = Cardinality(A) + 1
           /\ w \in A => Cardinality(A \ {w}) = Cardinality(A) - 1
BY SomeWorkers, FS_AddElement, FS_RemoveElement

\* ... and at most one more, whether it was counted before or not.
LEMMA AtMostOneMore ==
    ASSUME NEW A \in SUBSET Workers, NEW w \in Workers
    PROVE  Cardinality(A \cup {w}) <= Cardinality(A) + 1
<1>1. Cardinality(A) \in Nat
  BY SomeWorkers
<1>2. CASE w \in A
  <2>1. A \cup {w} = A
    BY <1>2
  <2>2. Cardinality(A \cup {w}) = Cardinality(A)
    BY <2>1, Zenon
  <2>3. QED  BY <1>1, <2>2
<1>3. CASE w \notin A
  BY <1>1, <1>3, OneWorkerMore
<1>4. QED  BY <1>2, <1>3

\* A smaller set of workers has fewer of them.
LEMMA FewerWorkers ==
    ASSUME NEW A \in SUBSET Workers, NEW B \in SUBSET A
    PROVE  Cardinality(B) <= Cardinality(A)
BY SomeWorkers, FS_Subset

\* One element more adds one, or none.
LEMMA OneElementMore ==
    ASSUME NEW A, IsFiniteSet(A), NEW B, NEW x, B \subseteq A \cup {x}
    PROVE  /\ Cardinality(A) \in Nat /\ Cardinality(B) \in Nat
           /\ Cardinality(B) <= Cardinality(A) + 1
           /\ B \subseteq A => Cardinality(B) <= Cardinality(A)
<1>1. /\ IsFiniteSet(A \cup {x})
      /\ Cardinality(A \cup {x}) =
            IF x \in A THEN Cardinality(A) ELSE Cardinality(A) + 1
  BY FS_AddElement
<1>2. Cardinality(A) \in Nat
  BY FS_CardinalityType
<1>3. IsFiniteSet(B) /\ Cardinality(B) <= Cardinality(A \cup {x})
  BY <1>1, FS_Subset
<1>4. B \subseteq A => Cardinality(B) <= Cardinality(A)
  BY FS_Subset
<1>5. Cardinality(B) \in Nat
  BY <1>3, FS_CardinalityType
<1>6. QED  BY <1>1, <1>2, <1>3, <1>4, <1>5

-----------------------------------------------------------------------------
(* What the reassignments cost.                                             *)

Absent == Workers \ Live

\* A reassignment is due that takes p away from a live owner.
Looming(p) ==
    IF owner[p] \in Live /\ \E q \in Partitions : owner[q] \notin Live
    THEN 1 ELSE 0

\* The reassignments of p which failures have caused and which are still to
\* come: one when the group notices an absence, one for each worker that
\* comes back.
Debt(p) == Cardinality(Absent) + Looming(p)

\* w holds a message of p, and its commit() covers it.
Leases(w, p) == leased[w] /\ part[w] = p

Loses(p) == \E w \in Workers : Leases(w, p) /\ ~Leases(w, p)'

\* A lease that ends is paid for by the debt, and the debt by failures: two of
\* them for each.
Pays(p) ==
    /\ Debt(p) \in Nat /\ Debt(p)' \in Nat
    /\ faults \in Nat /\ faults' \in Nat /\ faults <= faults'
    /\ Debt(p)' <= Debt(p) + 2 * (faults' - faults)
    /\ Loses(p) => Debt(p)' + 1 <= Debt(p) + 2 * (faults' - faults)

\* Both are numbers.
LEMMA DebtType ==
    ASSUME NEW p
    PROVE  /\ Cardinality(Absent) \in Nat /\ Cardinality(Absent') \in Nat
           /\ Looming(p) \in {0, 1} /\ Looming(p)' \in {0, 1}
           /\ Debt(p) \in Nat /\ Debt(p)' \in Nat
<1>1. Absent \in SUBSET Workers /\ Absent' \in SUBSET Workers
  BY DEF Absent
<1>2. Cardinality(Absent) \in Nat /\ Cardinality(Absent') \in Nat
  BY <1>1, SomeWorkers
<1>3. Looming(p) \in {0, 1} /\ Looming(p)' \in {0, 1}
  BY DEF Looming
<1>4. QED  BY <1>2, <1>3 DEF Debt

\* The leases on a partition are its owner's, and so there is one at most.
LEMMA LeasesAreTheOwners ==
    ASSUME Positions, NEW w \in Workers, NEW p, Leases(w, p)
    PROVE  owner[p] = w /\ Busy(w) /\ w \in Live
BY DEF Positions, Covers, Leases, Busy

\* A step that moves no worker in or out and ends no lease.
LEMMA QuietPays ==
    ASSUME NEW p, faults \in Nat, faults' \in Nat, faults <= faults',
           Live' = Live, UNCHANGED owner,
           \A w \in Workers : leased[w] => leased'[w] /\ part'[w] = part[w]
    PROVE  Pays(p) /\ ~Loses(p)
<1>1. ~Loses(p)
  BY DEF Loses, Leases
<1>2. Absent' = Absent /\ Looming(p)' = Looming(p)
  BY DEF Absent, Looming
<1>3. Debt(p)' = Debt(p) /\ Debt(p) \in Nat
  BY <1>2, DebtType DEF Debt
<1>4. QED  BY <1>1, <1>3 DEF Pays

\* A worker that goes down is one absence and at most one loss.
LEMMA LeavingPays ==
    ASSUME Positions, NEW p, faults \in Nat, faults' = faults + 1,
           NEW w \in Workers, Live' = Live \ {w}, UNCHANGED owner,
           \A v \in Workers \ {w} : leased'[v] = leased[v] /\ part'[v] = part[v]
    PROVE  Pays(p)
<1>1. Absent' = Absent \cup {w}
  BY DEF Absent, Live
<1>2. Cardinality(Absent') <= Cardinality(Absent) + 1
  <2>1. Absent \in SUBSET Workers
    BY DEF Absent
  <2>2. QED  BY <1>1, <2>1, AtMostOneMore
<1>3. CASE Loses(p)
  <2>1. Leases(w, p)
    BY <1>3 DEF Loses, Leases
  <2>2. owner'[p] \notin Live'
    BY <2>1, LeasesAreTheOwners
  <2>3. Looming(p)' = 0
    BY <2>2 DEF Looming
  <2>4. QED  BY <1>2, <2>3, DebtType DEF Debt, Pays
<1>4. CASE ~Loses(p)
  BY <1>2, <1>4, DebtType DEF Debt, Pays
<1>5. QED  BY <1>3, <1>4

\* A reassignment pays with what was due, or is a failure itself.
LEMMA ReassigningPays ==
    ASSUME Positions, NEW p \in Partitions, faults \in Nat, faults' \in Nat,
           owner' \in [Partitions -> Live'],
           \/ /\ faults' = faults /\ \E w \in Absent : Live' = Live \cup {w}
           \/ /\ faults' = faults /\ Live' = Live
              /\ \E q \in Partitions : owner[q] \notin Live
           \/ faults' = faults + 1 /\ Live' = Live
    PROVE  Pays(p)
<1>1. Looming(p)' = 0
  BY DEF Looming
<1>2. Absent \in SUBSET Workers
  BY DEF Absent
<1>3. CASE faults' = faults /\ \E w \in Absent : Live' = Live \cup {w}
  <2>1. PICK w \in Absent : Live' = Live \cup {w}
    BY <1>3
  <2>2. Absent' = Absent \ {w} /\ w \in Workers
    BY <2>1 DEF Absent
  <2>3. Cardinality(Absent') = Cardinality(Absent) - 1
    BY <1>2, <2>1, <2>2, OneWorkerMore
  <2>4. QED  BY <1>1, <1>3, <2>3, DebtType DEF Debt, Pays
<1>4. CASE /\ faults' = faults /\ Live' = Live
           /\ \E q \in Partitions : owner[q] \notin Live
  <2>1. Absent' = Absent
    BY <1>4 DEF Absent
  <2>2. Loses(p) => Looming(p) = 1
    BY <1>4, LeasesAreTheOwners DEF Loses, Looming
  <2>3. QED  BY <1>1, <1>4, <2>1, <2>2, DebtType DEF Debt, Pays
<1>5. CASE faults' = faults + 1 /\ Live' = Live
  <2>1. Absent' = Absent
    BY <1>5 DEF Absent
  <2>2. QED  BY <1>1, <1>5, <2>1, DebtType DEF Debt, Pays
<1>6. QED  BY <1>3, <1>4, <1>5

\* Whoever stays inside the loop leaves the group as it is.
LEMMA StayingPays ==
    ASSUME NEW M, NEW S, LoopTypeOK(M, S), NEW w \in Workers, Busy(w),
           NEW step, step \notin Outside, pc' = [pc EXCEPT ![w] = step],
           UNCHANGED <<owner, leased, part>>,
           faults \in Nat, faults' \in Nat, faults <= faults', NEW p
    PROVE  Pays(p) /\ ~Loses(p)
<1>1. Live' = Live
  BY DEF LoopTypeOK, Busy, Live, Outside
<1>2. QED  BY <1>1, QuietPays

\* A fetch begins a lease and ends none.
LEMMA BeginPays ==
    ASSUME NEW M, NEW S, LoopTypeOK(M, S), Positions, NEW w \in Workers,
           NEW q \in Partitions, NEW first, first \notin Outside,
           Begin(w, q, first), faults \in Nat, NEW p
    PROVE  Pays(p) /\ ~Loses(p)
<1>1. Live' = Live
  BY DEF LoopTypeOK, Begin, Live, Outside
<1>2. ~leased[w]
  BY DEF Begin, Positions, Covers, Busy
<1>3. \A v \in Workers : leased[v] => leased'[v] /\ part'[v] = part[v]
  BY <1>2 DEF LoopTypeOK, Begin
<1>4. UNCHANGED <<owner, faults>>
  BY DEF Begin
<1>5. QED  BY <1>1, <1>3, <1>4, QuietPays

\* The end of a process is a failure.
LEMMA EndingPays ==
    ASSUME NEW M, NEW S, LoopTypeOK(M, S), Positions, NEW w \in Workers,
           Release(w, "down"), Fault, UNCHANGED owner, faults \in Nat, NEW p
    PROVE  Pays(p)
<1>1. Live' = Live \ {w}
  BY DEF LoopTypeOK, Release, Live
<1>2. \A v \in Workers \ {w} : leased'[v] = leased[v] /\ part'[v] = part[v]
  BY DEF LoopTypeOK, Release
<1>3. faults' = faults + 1
  BY DEF Fault
<1>4. QED  BY <1>1, <1>2, <1>3, LeavingPays

\* What the group does.
LEMMA GroupPays ==
    ASSUME NEW M, NEW S, LoopTypeOK(M, S), Positions, faults \in Nat,
           NEW p \in Partitions,
           Rebalance \/ Takeover \/ \E w \in Workers : Restart(w)
    PROVE  Pays(p)
<1>1. CASE Rebalance
  <2>1. Live' = Live /\ owner' \in [Partitions -> Live'] /\ faults' = faults + 1
    BY <1>1 DEF Rebalance, Assign, workerVars, Fault, Live
  <2>2. QED  BY <2>1, ReassigningPays
<1>2. CASE Takeover
  <2>1. Live' = Live /\ owner' \in [Partitions -> Live'] /\ faults' = faults
    BY <1>2 DEF Takeover, Assign, workerVars, Live
  <2>2. \E q \in Partitions : owner[q] \notin Live
    BY <1>2 DEF Takeover
  <2>3. QED  BY <2>1, <2>2, ReassigningPays
<1>3. ASSUME NEW w \in Workers, Restart(w)
      PROVE  Pays(p)
  <2>1. Live' = Live \cup {w} /\ w \in Absent
    <3>1. /\ pc[w] = "down" /\ pc'[w] = "idle"
          /\ \A v \in Workers \ {w} : pc'[v] = pc[v]
      BY <1>3 DEF LoopTypeOK, Restart
    <3>2. QED  BY <3>1 DEF Live, Absent
  <2>2. owner' \in [Partitions -> Live'] /\ faults' = faults
    BY <1>3, <2>1 DEF Restart, Assign
  <2>3. QED  BY <2>1, <2>2, ReassigningPays
<1>4. QED  BY <1>1, <1>2, <1>3

\* A commit that answered costs nothing: the lease is no longer needed.
LEMMA CommittingIsFree ==
    ASSUME NEW M, NEW S, LoopTypeOK(M, S), NEW w \in Workers, NEW step,
           step \notin Outside, CommitAt(w, step), NEW p
    PROVE  Debt(p)' = Debt(p) /\ faults' = faults
<1>1. Live' = Live
  BY DEF LoopTypeOK, CommitAt, Release, Live, Outside
<1>2. Absent' = Absent /\ Looming(p)' = Looming(p)
  BY <1>1 DEF CommitAt, Absent, Looming
<1>3. QED  BY <1>2 DEF CommitAt, Debt

-----------------------------------------------------------------------------
(* The messages of a partition that were handed out.                        *)

\* The messages of p that are committed, or leased to a worker.
Taken(p) ==
    {i \in 1..Len(input[p]) :
        i <= committed[p] \/ \E w \in Workers : Leases(w, p) /\ offset[w] = i}

\* Offsets do not go back.
LEMMA OffsetsGrow ==
    ASSUME NEW M, NEW S, LoopTypeOK(M, S), Positions, LoopStep(M, S),
           NEW p \in Partitions
    PROVE  /\ committed[p] \in Nat /\ committed'[p] \in Nat
           /\ committed[p] <= committed'[p]
<1>1. committed[p] \in Nat
  BY DEF LoopTypeOK
<1>2. CASE UNCHANGED committed
  BY <1>1, <1>2
<1>3. ASSUME NEW w \in Workers, Busy(w), CommitUnknown(w)
      PROVE  committed'[p] \in Nat /\ committed[p] <= committed'[p]
  BY <1>1, <1>3, CommitFacts
<1>4. QED
  BY <1>1, <1>2, <1>3
     DEF LoopStep, Arrives, groupVars, Begin, Keeps, Drops, Regroups

\* A lease that goes on is on the same message.
LEMMA LeaseStays ==
    ASSUME NEW M, NEW S, LoopTypeOK(M, S), Positions, LoopStep(M, S),
           NEW p \in Partitions, NEW w \in Workers, Leases(w, p), Leases(w, p)'
    PROVE  offset'[w] = offset[w]
<1>1. Busy(w)
  BY LeasesAreTheOwners
<1>2. Busy(w)'
  BY LoopStepKeepsPositions DEF Positions, Covers, Leases
<1>3. pc[w] # "idle"
  BY <1>1 DEF Busy
<1>4. QED  BY <1>2, <1>3, BusyStaysOrBegins DEF Stays, Begin

\* A message handed out stays so, unless it was the one of a lost lease.
LEMMA TakenStays ==
    ASSUME NEW M, NEW S, LoopTypeOK(M, S), Positions, LoopStep(M, S),
           NEW p \in Partitions
    PROVE  /\ ~Loses(p) => Taken(p) \subseteq Taken(p)'
           /\ \E x : Taken(p) \subseteq Taken(p)' \cup {x}
<1>0. /\ Grows(input, input')
      /\ committed[p] \in Nat /\ committed'[p] \in Nat
      /\ committed[p] <= committed'[p]
  BY LoopStepGrows, OffsetsGrow
<1>1. ASSUME NEW i \in Taken(p), i \notin Taken(p)'
      PROVE  \E w \in Workers : /\ Leases(w, p) /\ ~Leases(w, p)'
                                /\ offset[w] = i
  <2>1. i \in 1..Len(input[p]) /\ i \in 1..Len(input'[p])
    BY <1>0, <1>1 DEF Taken, Grows
  <2>2. ~(i <= committed[p])
    BY <1>0, <1>1, <2>1 DEF Taken
  <2>3. PICK w \in Workers : Leases(w, p) /\ offset[w] = i
    BY <1>1, <2>2 DEF Taken
  <2>4. CASE Leases(w, p)'
    <3>1. offset'[w] = i
      BY <2>3, <2>4, LeaseStays
    <3>2. QED  BY <1>1, <2>1, <2>4, <3>1 DEF Taken
  <2>5. QED  BY <2>3, <2>4
<1>2. CASE Loses(p)
  <2>1. PICK w \in Workers : Leases(w, p) /\ ~Leases(w, p)'
    BY <1>2 DEF Loses
  <2>2. \A v \in Workers : Leases(v, p) => v = w
    BY <2>1, LeasesAreTheOwners
  <2>3. Taken(p) \subseteq Taken(p)' \cup {offset[w]}
    BY <1>1, <2>2
  <2>4. QED  BY <1>2, <2>3
<1>3. CASE ~Loses(p)
  <2>1. Taken(p) \subseteq Taken(p)'
    BY <1>1, <1>3 DEF Loses
  <2>2. QED  BY <2>1
<1>4. QED  BY <1>2, <1>3

\* A commit that answered has passed the message of its lease.
LEMMA TakenStaysAtCommit ==
    ASSUME NEW M, NEW S, LoopTypeOK(M, S), Positions, NEW w \in Workers,
           NEW step, step \notin Outside, CommitAt(w, step),
           NEW p \in Partitions
    PROVE  Taken(p) \subseteq Taken(p)'
<1>1. Busy(w) /\ CommitUnknown(w)
  BY DEF CommitAt, CommitUnknown, Busy, Live, Outside
<1>2. committed[p] \in Nat /\ committed'[p] \in Nat /\ committed[p] <= committed'[p]
  BY <1>1, CommitFacts DEF LoopTypeOK
<1>3. \A v \in Workers \ {w} : /\ leased'[v] = leased[v] /\ part'[v] = part[v]
                               /\ offset'[v] = offset[v]
  BY DEF CommitAt, Release, LoopTypeOK
<1>4. Leases(w, p) => committed'[p] = offset[w]
  BY DEF CommitAt, AdvanceOffset, Leases, LoopTypeOK
<1>5. ASSUME NEW i \in Taken(p)
      PROVE  i \in Taken(p)'
  <2>1. i \in 1..Len(input[p]) /\ UNCHANGED input
    BY DEF Taken, CommitAt
  <2>2. CASE i <= committed[p]
    BY <1>2, <2>1, <2>2 DEF Taken
  <2>3. ASSUME NEW v \in Workers, Leases(v, p), offset[v] = i
        PROVE  i \in Taken(p)'
    <3>1. CASE v = w
      BY <1>2, <1>4, <2>1, <2>3, <3>1 DEF Taken
    <3>2. CASE v # w
      <4>1. Leases(v, p)' /\ offset'[v] = i
        BY <1>3, <2>3, <3>2 DEF Leases
      <4>2. QED  BY <2>1, <4>1 DEF Taken
    <3>3. QED  BY <3>1, <3>2
  <2>4. QED  BY <2>2, <2>3 DEF Taken
<1>6. QED  BY <1>5

\* A fetch hands out a message that was not.
LEMMA BeginTakes ==
    ASSUME NEW M, NEW S, LoopTypeOK(M, S), Positions, NEW w \in Workers,
           NEW p \in Partitions, NEW first, Begin(w, p, first)
    PROVE  /\ committed[p] + 1 \notin Taken(p)
           /\ committed[p] + 1 \in Taken(p)'
<1>1. committed[p] \in Nat /\ Len(input[p]) \in Nat /\ committed[p] < Len(input[p])
  BY DEF Begin, LoopTypeOK
<1>2. \A v \in Workers : ~Leases(v, p)
  BY LeasesAreTheOwners DEF Begin, Busy
<1>3. committed[p] + 1 \notin Taken(p)
  BY <1>1, <1>2 DEF Taken
<1>4. Leases(w, p)' /\ offset'[w] = committed[p] + 1
  BY DEF Begin, Leases, LoopTypeOK
<1>5. committed[p] + 1 \in 1..Len(input'[p])
  BY <1>1 DEF Begin
<1>6. QED  BY <1>3, <1>4, <1>5 DEF Taken

=============================================================================
