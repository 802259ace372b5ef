-------------------------- MODULE RedisQueue_proofs --------------------------
(***************************************************************************)
(* Proofs about RedisQueue for every set of jobs, processes and            *)
(* goroutines, every number of retries, with or without a dead letter.     *)
(***************************************************************************)
EXTENDS RedisQueue, SequenceTheorems, TLAPS

-----------------------------------------------------------------------------
(* The two ends of a Redis list *)

\* RPUSH of a payload the list does not hold.
LEMMA PushElements ==
    ASSUME NEW S, NEW s \in Seq(S), NEW e \in S, IsInjective(s), e \notin ToSet(s)
    PROVE  /\ Append(s, e) \in Seq(S)
           /\ IsInjective(Append(s, e))
           /\ ToSet(Append(s, e)) = ToSet(s) \cup {e}
<1> DEFINE t == Append(s, e)
<1>1. /\ t \in Seq(S) /\ Len(t) = Len(s) + 1 /\ t[Len(s) + 1] = e
      /\ \A i \in 1..Len(s) : t[i] = s[i]
  BY AppendProperties
<1>2. DOMAIN s = 1..Len(s) /\ DOMAIN t = 1..(Len(s) + 1) /\ Len(s) \in Nat
  BY <1>1, LenProperties
<1> HIDE DEF t
<1>3. IsInjective(t)
  <2> SUFFICES ASSUME NEW i \in DOMAIN t, NEW j \in DOMAIN t, t[i] = t[j]
               PROVE  i = j
    BY DEF IsInjective
  <2>1. \A k \in DOMAIN t : (k \in DOMAIN s /\ t[k] = s[k]) \/ (k = Len(s) + 1 /\ t[k] = e)
    BY <1>1, <1>2
  <2>2. \A k \in DOMAIN s : s[k] # e
    BY DEF ToSet
  <2>3. CASE i \in DOMAIN s /\ t[i] = s[i] /\ j \in DOMAIN s /\ t[j] = s[j]
    BY <2>3 DEF IsInjective
  <2> QED
    BY <2>1, <2>2, <2>3
<1>4. ToSet(t) = ToSet(s) \cup {e}
  <2>1. \A i \in DOMAIN t : i \in DOMAIN s \/ i = Len(s) + 1
    BY <1>2
  <2>2. DOMAIN s \subseteq DOMAIN t /\ Len(s) + 1 \in DOMAIN t
    BY <1>2
  <2>3. \A i \in DOMAIN s : t[i] = s[i]
    BY <1>1, <1>2
  <2> QED
    BY <1>1, <2>1, <2>2, <2>3 DEF ToSet
<1> QED
  BY <1>1, <1>3, <1>4 DEF t

\* BLPOP.
LEMMA PopLeftElements ==
    ASSUME NEW S, NEW s \in Seq(S), IsInjective(s), s # <<>>
    PROVE  /\ Tail(s) \in Seq(S) /\ Head(s) \in ToSet(s) /\ Head(s) \in S
           /\ IsInjective(Tail(s))
           /\ ToSet(Tail(s)) = ToSet(s) \ {Head(s)}
<1> DEFINE t == Tail(s)
<1>1. /\ t \in Seq(S) /\ Head(s) \in S /\ Len(t) = Len(s) - 1
      /\ \A i \in 1..Len(t) : t[i] = s[i + 1]
  BY HeadTailProperties
<1>2. DOMAIN s = 1..Len(s) /\ DOMAIN t = 1..(Len(s) - 1) /\ Len(s) \in Nat \ {0}
  BY <1>1, LenProperties, EmptySeq
<1>3. Head(s) = s[1] /\ 1 \in DOMAIN s
  BY <1>2
<1> HIDE DEF t
<1>4. \A i \in DOMAIN t : i + 1 \in DOMAIN s /\ i + 1 # 1 /\ t[i] = s[i + 1]
  BY <1>1, <1>2
<1>5. IsInjective(t)
  <2> SUFFICES ASSUME NEW i \in DOMAIN t, NEW j \in DOMAIN t, t[i] = t[j]
               PROVE  i = j
    BY DEF IsInjective
  <2>1. i + 1 \in DOMAIN s /\ j + 1 \in DOMAIN s /\ s[i + 1] = s[j + 1]
    BY <1>4
  <2>2. i + 1 = j + 1
    BY <2>1 DEF IsInjective
  <2> QED
    BY <1>2, <2>2
<1>6. \A i \in DOMAIN s : i # 1 => i - 1 \in DOMAIN t /\ t[i - 1] = s[i]
  BY <1>1, <1>2
<1>7. ToSet(t) = ToSet(s) \ {s[1]}
  <2>1. ASSUME NEW x \in ToSet(t) PROVE x \in ToSet(s) \ {s[1]}
    BY <1>3, <1>4 DEF ToSet, IsInjective
  <2>2. ASSUME NEW x \in ToSet(s) \ {s[1]} PROVE x \in ToSet(t)
    BY <1>6 DEF ToSet
  <2> QED
    BY <2>1, <2>2
<1> QED
  BY <1>1, <1>3, <1>5, <1>7 DEF t, ToSet

\* RPOP.
LEMMA PopRightElements ==
    ASSUME NEW S, NEW s \in Seq(S), IsInjective(s), s # <<>>
    PROVE  /\ Front(s) \in Seq(S) /\ Last(s) \in ToSet(s) /\ Last(s) \in S
           /\ IsInjective(Front(s))
           /\ ToSet(Front(s)) = ToSet(s) \ {Last(s)}
<1> DEFINE t == SubSeq(s, 1, Len(s) - 1)
<1>0. /\ s \in [1..Len(s) -> S] /\ DOMAIN s = 1..Len(s) /\ Len(s) \in Nat \ {0}
  BY LenProperties, EmptySeq
<1>1. /\ t \in Seq(S) /\ Len(t) = Len(s) - 1
      /\ \A i \in 1..(Len(s) - 1) : t[i] = s[i]
  <2>1. \A i \in 1..(Len(s) - 1) : s[i] \in S
    BY <1>0
  <2>2. 1 \in Int /\ Len(s) - 1 \in Int
    BY <1>0
  <2>3. /\ t \in Seq(S)
        /\ Len(t) = IF 1 <= Len(s) - 1 THEN (Len(s) - 1) - 1 + 1 ELSE 0
        /\ \A i \in 1..((Len(s) - 1) - 1 + 1) : t[i] = s[1 + i - 1]
    BY <2>1, <2>2, SubSeqProperties
  <2> HIDE DEF t
  <2>4. Len(t) = Len(s) - 1
    <3>1. CASE 1 <= Len(s) - 1
      <4>1. Len(t) = (Len(s) - 1) - 1 + 1
        BY <2>3, <3>1
      <4> QED
        BY <1>0, <4>1
    <3>2. CASE ~(1 <= Len(s) - 1)
      <4>1. Len(t) = 0
        BY <2>3, <3>2
      <4> QED
        BY <1>0, <3>2, <4>1
    <3> QED
      BY <3>1, <3>2
  <2>5. ASSUME NEW i \in 1..(Len(s) - 1) PROVE t[i] = s[i]
    <3>1. i \in 1..((Len(s) - 1) - 1 + 1) /\ 1 + i - 1 = i
      BY <1>0
    <3> QED
      BY <2>3, <3>1
  <2> QED
    BY <2>3, <2>4, <2>5
<1>2. DOMAIN t = 1..(Len(s) - 1)
  BY <1>1, LenProperties
<1> HIDE DEF t
<1>3. IsInjective(t)
  <2> SUFFICES ASSUME NEW i \in DOMAIN t, NEW j \in DOMAIN t, t[i] = t[j]
               PROVE  i = j
    BY DEF IsInjective
  <2>1. i \in DOMAIN s /\ j \in DOMAIN s /\ s[i] = s[j]
    BY <1>0, <1>1, <1>2
  <2> QED
    BY <2>1 DEF IsInjective
<1>4. ToSet(t) = ToSet(s) \ {s[Len(s)]}
  <2>1. ASSUME NEW x \in ToSet(t) PROVE x \in ToSet(s) \ {s[Len(s)]}
    <3>1. PICK i \in DOMAIN t : x = t[i]
      BY DEF ToSet
    <3>2. i \in DOMAIN s /\ i # Len(s) /\ Len(s) \in DOMAIN s /\ x = s[i]
      BY <1>0, <1>1, <1>2, <3>1
    <3> QED
      BY <3>2 DEF ToSet, IsInjective
  <2>2. ASSUME NEW x \in ToSet(s) \ {s[Len(s)]} PROVE x \in ToSet(t)
    <3>1. PICK i \in DOMAIN s : x = s[i] /\ i # Len(s)
      BY DEF ToSet
    <3>2. i \in DOMAIN t /\ t[i] = s[i]
      BY <1>0, <1>1, <1>2, <3>1
    <3> QED
      BY <3>1, <3>2 DEF ToSet
  <2> QED
    BY <2>1, <2>2
<1>5. s[Len(s)] \in ToSet(s) /\ s[Len(s)] \in S
  BY <1>0 DEF ToSet
<1> QED
  BY <1>1, <1>3, <1>4, <1>5 DEF t, Front, Last

LEMMA EmptyElements == ToSet(<<>>) = {} /\ IsInjective(<<>>)
  BY EmptySeq DEF ToSet, IsInjective

-----------------------------------------------------------------------------
(* Types *)

LEMMA TypeInit == Init => TypeOK
BY ConstantsOK, EmptySeq DEF Init, TypeOK, Mode, Phase, Busy

LEMMA TypeStep == TypeOK /\ [Next]_vars => TypeOK'
<1> SUFFICES ASSUME TypeOK, [Next]_vars PROVE TypeOK'
  OBVIOUS
<1> USE ConstantsOK DEF TypeOK, lists, ends, procs, local, retry, Mode, Phase, Busy
<1>a. \A w \in Worker : phase[w] \in Busy => hand[w] \in Job
  OBVIOUS
<1>b. ASSUME NEW w \in Worker, LetGo(w)
      PROVE  /\ phase' \in [Worker -> Phase]
             /\ hand' \in [Worker -> Job \cup {NoJob}]
             /\ attempts' \in [Worker -> Nat]
             /\ \A v \in Worker : phase'[v] \in Busy <=> hand'[v] # NoJob
  <2>1. Rest(w) \in Phase \ Busy
    BY DEF Rest
  <2>2. /\ phase' = [phase EXCEPT ![w] = Rest(w)]
        /\ hand' = [hand EXCEPT ![w] = NoJob]
        /\ attempts' = [attempts EXCEPT ![w] = 0]
    BY <1>b DEF LetGo
  <2>3. ASSUME NEW v \in Worker PROVE phase'[v] \in Busy <=> hand'[v] # NoJob
    <3>1. CASE v = w
      BY <2>1, <2>2, <3>1
    <3>2. CASE v # w
      <4>1. phase'[v] = phase[v] /\ hand'[v] = hand[v]
        BY <2>2, <3>2
      <4> QED
        BY <4>1
    <3> QED
      BY <3>1, <3>2
  <2> QED
    BY <2>1, <2>2, <2>3
<1>1. ASSUME NEW j \in Job, PushPayload(j) PROVE TypeOK'
  BY <1>1, AppendProperties DEF PushPayload
<1>2. ASSUME NEW p \in Proc, Cancel(p) PROVE TypeOK'
  BY <1>2 DEF Cancel
<1>3. ASSUME NEW p \in Proc, End(p) PROVE TypeOK'
  <2>1. lost' \subseteq Job
    BY <1>3 DEF End, Crew
  <2>2. phase' \in [Worker -> Phase] /\ hand' \in [Worker -> Job \cup {NoJob}]
        /\ attempts' \in [Worker -> Nat]
    BY <1>3 DEF End
  <2>3. \A w \in Worker : phase'[w] \in Busy <=> hand'[w] # NoJob
    BY <1>3 DEF End
  <2> QED
    BY <1>3, <2>1, <2>2, <2>3 DEF End
<1>4. ASSUME NEW p \in Proc, NEW m \in Mode, Start(p, m) PROVE TypeOK'
  <2>1. PICK crew \in SUBSET Crew(p) :
          phase' = [w \in Worker |-> IF w \in crew THEN "ready" ELSE phase[w]]
    BY <1>4 DEF Start
  <2>2. \A w \in crew : phase[w] = "off"
    BY <1>4 DEF Start, Up
  <2>3. \A w \in Worker : phase'[w] \in Busy <=> hand'[w] # NoJob
    BY <1>4, <2>1, <2>2 DEF Start
  <2> QED
    BY <1>4, <2>1, <2>3 DEF Start
<1>5. ASSUME NEW w \in Worker, CallPop(w) PROVE TypeOK'
  BY <1>5 DEF CallPop, Unserved
<1>6. ASSUME NEW w \in Worker, PopNothing(w) PROVE TypeOK'
  BY <1>6 DEF PopNothing, Unserved
<1>7. ASSUME NEW w \in Worker, PopJob(w) PROVE TypeOK'
  BY <1>7, HeadTailProperties, SMTT(30) DEF PopJob
<1>8. ASSUME NEW w \in Worker, PopError(w) PROVE TypeOK'
  <2>1. main # <<>> => Tail(main) \in Seq(Job) /\ Head(main) \in Job
    BY HeadTailProperties
  <2>2. main' \in Seq(Job) /\ lost' \subseteq Job
    BY <1>8, <2>1 DEF PopError
  <2>3. phase' \in {phase, [phase EXCEPT ![w] = "failed"]} /\ phase[w] = "blocked"
    BY <1>8 DEF PopError
  <2> QED
    BY <1>8, <2>2, <2>3 DEF PopError
<1>9. ASSUME NEW w \in Worker, HandleOk(w) PROVE TypeOK'
  <2>1. hand[w] \in Job
    BY <1>9, <1>a DEF HandleOk
  <2>2. done' \subseteq Job /\ calls' \in [Job -> Nat]
    BY <1>9, <2>1 DEF HandleOk
  <2> QED
    BY <1>9, <1>b, <2>2 DEF HandleOk
<1>10. ASSUME NEW w \in Worker, HandleErr(w) PROVE TypeOK'
  <2>1. hand[w] \in Job
    BY <1>10, <1>a DEF HandleErr
  <2>2. calls' \in [Job -> Nat]
    BY <1>10, <2>1 DEF HandleErr
  <2>3. /\ phase' \in [Worker -> Phase] /\ attempts' \in [Worker -> Nat]
        /\ \A v \in Worker : phase'[v] \in Busy <=> hand'[v] # NoJob
    <3>1. CASE UNCHANGED phase
      <4>1. attempts' = [attempts EXCEPT ![w] = @ + 1] \/ UNCHANGED attempts
        BY <1>10 DEF HandleErr
      <4>2. UNCHANGED hand
        BY <1>10 DEF HandleErr
      <4>3. attempts' \in [Worker -> Nat]
        <5>1. CASE attempts' = [attempts EXCEPT ![w] = @ + 1]
          BY <5>1
        <5>2. CASE UNCHANGED attempts
          BY <5>2
        <5> QED
          BY <4>1, <5>1, <5>2
      <4>4. phase' = phase /\ hand' = hand
        BY <3>1, <4>2
      <4>5. /\ phase \in [Worker -> Phase]
            /\ \A v \in Worker : phase[v] \in Busy <=> hand[v] # NoJob
        OBVIOUS
      <4> HIDE DEF TypeOK, Phase, Busy
      <4> QED
        BY <4>3, <4>4, <4>5
    <3>2. CASE phase' = [phase EXCEPT ![w] = "giveUp"] /\ UNCHANGED attempts
      BY <1>10, <3>2 DEF HandleErr
    <3> QED
      BY <1>10, <3>1, <3>2 DEF HandleErr
  <2> QED
    BY <1>10, <2>2, <2>3 DEF HandleErr
<1>11. ASSUME NEW w \in Worker, GiveUp(w) PROVE TypeOK'
  <2>1. hand[w] \in Job /\ LetGo(w)
    BY <1>11, <1>a DEF GiveUp
  <2>2. dead' \in Seq(Job)
    <3>1. Append(dead, hand[w]) \in Seq(Job)
      BY <2>1, AppendProperties
    <3> QED
      BY <1>11, <3>1 DEF GiveUp
  <2>3. done' \subseteq Job /\ dropped' \subseteq Job /\ lost' \subseteq Job
    BY <1>11, <2>1 DEF GiveUp
  <2>4. UNCHANGED <<fresh, main, mode, cancelled, calls, op, moving, limit, count>>
    BY <1>11 DEF GiveUp
  <2> QED
    BY <1>b, <2>1, <2>2, <2>3, <2>4
<1>12. ASSUME NEW max \in 0..MaxLimit, StartRetry(max) PROVE TypeOK'
  BY <1>12 DEF StartRetry
<1>13. CASE RetryEnds
  BY <1>13 DEF RetryEnds, Returns
<1>14. ASSUME dead # <<>> PROVE Front(dead) \in Seq(Job) /\ Last(dead) \in Job
  <2>1. Len(dead) \in Nat \ {0} /\ dead \in [1..Len(dead) -> Job]
    BY <1>14, EmptySeq, LenProperties
  <2>2. \A i \in 1..(Len(dead) - 1) : dead[i] \in Job
    BY <2>1
  <2>3. SubSeq(dead, 1, Len(dead) - 1) \in Seq(Job)
    BY <2>1, <2>2, SubSeqProperties
  <2> QED
    BY <2>1, <2>3 DEF Front, Last
<1>15. CASE RetryPop
  BY <1>14, <1>15, SMTT(30) DEF RetryPop, LimitReached
<1>16. CASE RetryPopError
  <2>1. dead' \in Seq(Job) /\ lost' \subseteq Job
    BY <1>14, <1>16 DEF RetryPopError
  <2>2. CASE Returns
    BY <1>16, <2>1, <2>2 DEF RetryPopError, Returns
  <2>3. CASE UNCHANGED retry
    BY <1>16, <2>1, <2>3 DEF RetryPopError
  <2> QED
    BY <1>16, <2>2, <2>3 DEF RetryPopError
<1>17. CASE RetryPush
  BY <1>17, AppendProperties DEF RetryPush, LimitReached
<1>18. CASE RetryAborts
  BY <1>18 DEF RetryAborts, Returns
<1>19. CASE UNCHANGED vars
  BY <1>19 DEF vars
<1>20. ASSUME NEW w \in Worker, GiveUpUnheard(w) PROVE TypeOK'
  <2>1. hand[w] \in Job
    BY <1>20, <1>a DEF GiveUpUnheard
  <2>2. /\ dead' \in Seq(Job) /\ calls' \in [Job -> Nat] /\ fresh' \subseteq Job
    BY <1>20, <2>1, AppendProperties DEF GiveUpUnheard, Copy
  <2> QED
    BY <1>20, <2>2 DEF GiveUpUnheard
<1>21. CASE RetryPushUnheard
  <2>1. main' \in Seq(Job) /\ fresh' \subseteq Job
    BY <1>21, AppendProperties DEF RetryPushUnheard, Copy
  <2> QED
    BY <1>21, <2>1 DEF RetryPushUnheard
<1> HIDE DEF TypeOK, lists, ends, procs, local, retry, Mode, Phase, Busy
<1> QED
  BY <1>1, <1>2, <1>3, <1>4, <1>5, <1>6, <1>7, <1>8, <1>9, <1>10, <1>11, <1>12, <1>13,
     <1>15, <1>16, <1>17, <1>18, <1>19, <1>20, <1>21 DEF Next, Step, Exit, Crash

\* The state of the queue keeps its types; a goroutine holds a payload exactly
\* while it handles it or gives it up.
THEOREM TypeCorrect == Spec => []TypeOK
BY TypeInit, TypeStep, PTL DEF Spec

-----------------------------------------------------------------------------
(* One holder *)

HandsDiffer == \A v, w \in Worker : hand[v] = hand[w] /\ hand[v] # NoJob => v = w

\* A goroutine takes a payload nobody holds.
LEMMA TakeInHand ==
    ASSUME TypeOK, HandsDiffer, NEW w \in Worker, NEW j \in Job,
           hand[w] = NoJob, j \notin Held, hand' = [hand EXCEPT ![w] = j]
    PROVE  Held' = Held \cup {j} /\ HandsDiffer'
<1>1. j # NoJob /\ DOMAIN hand = Worker
  BY ConstantsOK DEF TypeOK
<1>2. hand'[w] = j /\ \A v \in Worker : v # w => hand'[v] = hand[v]
  BY <1>1
<1>3. \A v \in Worker : hand[v] # j
  BY <1>1 DEF Held
<1>4. HandsDiffer'
  BY <1>2, <1>3 DEF HandsDiffer
<1>5. Held' = Held \cup {j}
  BY <1>1, <1>2 DEF Held
<1> QED
  BY <1>4, <1>5

\* A goroutine lets go of the payload it holds.
LEMMA LeaveHand ==
    ASSUME TypeOK, HandsDiffer, NEW w \in Worker,
           hand[w] # NoJob, hand' = [hand EXCEPT ![w] = NoJob]
    PROVE  /\ hand[w] \in Held /\ hand[w] \in Job
           /\ Held' = Held \ {hand[w]} /\ HandsDiffer'
<1>1. hand[w] \in Job /\ hand[w] \in Held /\ DOMAIN hand = Worker
  BY DEF TypeOK, Held
<1>2. hand'[w] = NoJob /\ \A v \in Worker : v # w => hand'[v] = hand[v]
  BY <1>1
<1>3. \A v \in Worker : v # w => hand[v] # hand[w]
  BY DEF HandsDiffer
<1>4. HandsDiffer'
  BY <1>2 DEF HandsDiffer
<1>5. Held' = Held \ {hand[w]}
  BY <1>2, <1>3 DEF Held
<1> QED
  BY <1>1, <1>4, <1>5

\* What each command, and each hand-over, does to the sets of payloads.
LEMMA Transfers ==
    ASSUME TypeOK, OneHolder
    PROVE  /\ HandsDiffer /\ IsInjective(main) /\ IsInjective(dead)
           /\ UNCHANGED main => Queued' = Queued /\ IsInjective(main')
           /\ UNCHANGED dead => Buried' = Buried /\ IsInjective(dead')
           /\ UNCHANGED hand => Held' = Held /\ HandsDiffer'
           /\ UNCHANGED moving => Moving' = Moving
           /\ \A j \in Job \ Queued : main' = Append(main, j) =>
                 Queued' = Queued \cup {j} /\ IsInjective(main')
           /\ main # <<>> /\ main' = Tail(main) =>
                 /\ Head(main) \in Queued /\ Head(main) \in Job
                 /\ Queued' = Queued \ {Head(main)} /\ IsInjective(main')
           /\ \A j \in Job \ Buried : dead' = Append(dead, j) =>
                 Buried' = Buried \cup {j} /\ IsInjective(dead')
           /\ dead # <<>> /\ dead' = Front(dead) =>
                 /\ Last(dead) \in Buried /\ Last(dead) \in Job
                 /\ Buried' = Buried \ {Last(dead)} /\ IsInjective(dead')
           /\ \A w \in Worker : phase[w] \in Busy /\ LetGo(w) =>
                 /\ hand[w] \in Held /\ hand[w] \in Job
                 /\ Held' = Held \ {hand[w]} /\ HandsDiffer'
<1>0. HandsDiffer /\ IsInjective(main) /\ IsInjective(dead)
  BY DEF OneHolder, HandsDiffer
<1>a. /\ UNCHANGED main => Queued' = Queued /\ IsInjective(main')
      /\ UNCHANGED dead => Buried' = Buried /\ IsInjective(dead')
      /\ UNCHANGED hand => Held' = Held /\ HandsDiffer'
      /\ UNCHANGED moving => Moving' = Moving
  BY <1>0 DEF Queued, Buried, Held, Moving, HandsDiffer
<1>b. ASSUME NEW j \in Job \ Queued, main' = Append(main, j)
      PROVE  Queued' = Queued \cup {j} /\ IsInjective(main')
  BY <1>b, <1>0, PushElements DEF TypeOK, Queued
<1>c. ASSUME main # <<>>, main' = Tail(main)
      PROVE  /\ Head(main) \in Queued /\ Head(main) \in Job
             /\ Queued' = Queued \ {Head(main)} /\ IsInjective(main')
  BY <1>c, <1>0, PopLeftElements DEF TypeOK, Queued
<1>d. ASSUME NEW j \in Job \ Buried, dead' = Append(dead, j)
      PROVE  Buried' = Buried \cup {j} /\ IsInjective(dead')
  BY <1>d, <1>0, PushElements DEF TypeOK, Buried
<1>e. ASSUME dead # <<>>, dead' = Front(dead)
      PROVE  /\ Last(dead) \in Buried /\ Last(dead) \in Job
             /\ Buried' = Buried \ {Last(dead)} /\ IsInjective(dead')
  BY <1>e, <1>0, PopRightElements DEF TypeOK, Buried
<1>f. ASSUME NEW w \in Worker, phase[w] \in Busy, LetGo(w)
      PROVE  /\ hand[w] \in Held /\ hand[w] \in Job
             /\ Held' = Held \ {hand[w]} /\ HandsDiffer'
  BY <1>f, <1>0, LeaveHand DEF TypeOK, LetGo
<1> QED
  BY <1>0, <1>a, <1>b, <1>c, <1>d, <1>e, <1>f

\* The end of a process takes what its goroutines hold, and nothing else.
LEMMA EndTakes ==
    ASSUME TypeOK, OneHolder, NEW p \in Proc, End(p)
    PROVE  \E Gone \in SUBSET Held :
              Held' = Held \ Gone /\ lost' = lost \cup Gone /\ HandsDiffer'
<1> DEFINE Gone == {hand[w] : w \in {v \in Crew(p) : phase[v] \in Busy}}
<1>1. /\ hand' = [w \in Worker |-> IF w \in Crew(p) THEN NoJob ELSE hand[w]]
      /\ lost' = lost \cup Gone
  BY DEF End
<1>2. Gone = {hand[w] : w \in Crew(p)} \ {NoJob}
  BY DEF TypeOK, Crew
<1>3. Gone \subseteq Held
  BY <1>2 DEF Held, Crew
<1>4. HandsDiffer'
  BY <1>1, Transfers DEF HandsDiffer
<1>5. Held' = Held \ Gone
  <2>1. ASSUME NEW j \in Held' PROVE j \in Held \ Gone
    <3>1. PICK v \in Worker : j = hand'[v] /\ j # NoJob
      BY DEF Held
    <3>2. v \notin Crew(p) /\ j = hand[v]
      BY <1>1, <3>1
    <3>3. \A w \in Crew(p) : hand[w] # j
      BY Transfers, <3>1, <3>2 DEF HandsDiffer, Crew
    <3> QED
      BY <1>2, <3>1, <3>2, <3>3 DEF Held
  <2>2. ASSUME NEW j \in Held \ Gone PROVE j \in Held'
    <3>1. PICK v \in Worker : j = hand[v] /\ j # NoJob
      BY DEF Held
    <3>2. v \notin Crew(p)
      BY <1>2, <3>1
    <3> QED
      BY <1>1, <3>1, <3>2 DEF Held
  <2> QED
    BY <2>1, <2>2
<1> HIDE DEF Gone
<1> QED
  BY <1>1, <1>3, <1>4, <1>5

LEMMA HolderInit == Init => OneHolder
<1> SUFFICES ASSUME Init PROVE OneHolder
  OBVIOUS
<1>1. Queued = {} /\ Buried = {} /\ Held = {} /\ Moving = {}
  BY EmptyElements DEF Init, Queued, Buried, Held, Moving
<1>2. IsInjective(main) /\ IsInjective(dead)
  BY EmptyElements DEF Init
<1>3. \A v, w \in Worker : hand[v] = hand[w] /\ hand[v] # NoJob => v = w
  BY DEF Init
<1> QED
  BY <1>1, <1>2, <1>3 DEF Init, OneHolder

LEMMA HolderStep == TypeOK /\ OneHolder /\ [Next]_vars => OneHolder'
<1> SUFFICES ASSUME TypeOK, OneHolder, [Next]_vars PROVE OneHolder'
  OBVIOUS
<1> USE DEF lists, ends, procs, local, retry
<1>1. ASSUME NEW j \in Job, PushPayload(j) PROVE OneHolder'
  <2>1. j \in fresh /\ j \notin Queued /\ fresh' = fresh \ {j}
    BY <1>1 DEF PushPayload, OneHolder
  <2>2. Queued' = Queued \cup {j} /\ IsInjective(main')
    BY <1>1, Transfers, <2>1 DEF PushPayload
  <2>3. UNCHANGED <<dead, done, dropped, lost, hand, moving>>
    BY <1>1 DEF PushPayload
  <2> QED
    BY Transfers, <2>1, <2>2, <2>3 DEF OneHolder, HandsDiffer
<1>2. ASSUME UNCHANGED <<fresh, main, dead, done, dropped, lost, hand, moving>>
      PROVE  OneHolder'
  BY <1>2, Transfers DEF OneHolder, HandsDiffer
<1>3. ASSUME NEW p \in Proc, End(p) PROVE OneHolder'
  <2>1. PICK Gone \in SUBSET Held :
            Held' = Held \ Gone /\ lost' = lost \cup Gone /\ HandsDiffer'
    BY <1>3, EndTakes
  <2>2. UNCHANGED <<fresh, main, dead, done, dropped, moving>>
    BY <1>3 DEF End
  <2> QED
    BY Transfers, <2>1, <2>2 DEF OneHolder, HandsDiffer
<1>4. ASSUME NEW w \in Worker, PopJob(w) PROVE OneHolder'
  <2>1. /\ Head(main) \in Queued /\ Head(main) \in Job
        /\ Queued' = Queued \ {Head(main)} /\ IsInjective(main')
    BY <1>4, Transfers DEF PopJob
  <2>2. hand[w] = NoJob
    BY <1>4 DEF PopJob, TypeOK, Busy
  <2>3. Head(main) \notin Held
    BY <2>1 DEF OneHolder
  <2>4. Held' = Held \cup {Head(main)} /\ HandsDiffer'
    BY <1>4, Transfers, <2>1, <2>2, <2>3, TakeInHand DEF PopJob
  <2>5. UNCHANGED <<fresh, dead, done, dropped, lost, moving>>
    BY <1>4 DEF PopJob
  <2> QED
    BY Transfers, <2>1, <2>4, <2>5 DEF OneHolder, HandsDiffer
<1>5. ASSUME NEW w \in Worker, PopError(w) PROVE OneHolder'
  <2>1. UNCHANGED <<fresh, dead, done, dropped, hand, moving>>
    BY <1>5 DEF PopError
  <2>2. CASE UNCHANGED <<main, lost>>
    BY <1>2, <2>1, <2>2
  <2>3. CASE main # <<>> /\ main' = Tail(main) /\ lost' = lost \cup {Head(main)}
    <3>1. /\ Head(main) \in Queued
          /\ Queued' = Queued \ {Head(main)} /\ IsInjective(main')
      BY Transfers, <2>3
    <3> QED
      BY Transfers, <2>1, <2>3, <3>1 DEF OneHolder, HandsDiffer
  <2> QED
    BY <1>5, <2>2, <2>3 DEF PopError
<1>6. ASSUME NEW w \in Worker, HandleOk(w) PROVE OneHolder'
  <2>1. /\ hand[w] \in Held /\ Held' = Held \ {hand[w]} /\ HandsDiffer'
    BY <1>6, Transfers DEF HandleOk, Busy
  <2>2. UNCHANGED <<fresh, main, dead, dropped, lost, moving>> /\ done' = done \cup {hand[w]}
    BY <1>6 DEF HandleOk
  <2> QED
    BY Transfers, <2>1, <2>2 DEF OneHolder, HandsDiffer
<1>7. ASSUME NEW w \in Worker, GiveUp(w) PROVE OneHolder'
  <2>1. /\ hand[w] \in Held /\ hand[w] \in Job
        /\ Held' = Held \ {hand[w]} /\ HandsDiffer'
    BY <1>7, Transfers DEF GiveUp, Busy
  <2>2. UNCHANGED <<fresh, main, moving>>
    BY <1>7 DEF GiveUp
  <2>3. CASE dead' = Append(dead, hand[w]) /\ UNCHANGED ends
    <3>1. hand[w] \notin Buried
      BY <2>1 DEF OneHolder
    <3>2. Buried' = Buried \cup {hand[w]} /\ IsInjective(dead')
      BY Transfers, <2>1, <2>3, <3>1
    <3> QED
      BY Transfers, <2>1, <2>2, <2>3, <3>2 DEF OneHolder, HandsDiffer
  <2>4. CASE lost' = lost \cup {hand[w]} /\ UNCHANGED <<dead, done, dropped>>
    BY Transfers, <2>1, <2>2, <2>4 DEF OneHolder, HandsDiffer
  <2>5. CASE dropped' = dropped \cup {hand[w]} /\ UNCHANGED <<dead, done, lost>>
    BY Transfers, <2>1, <2>2, <2>5 DEF OneHolder, HandsDiffer
  <2> QED
    BY <1>7, <2>3, <2>4, <2>5 DEF GiveUp
<1>8. CASE RetryPop
  <2>1. /\ Last(dead) \in Buried /\ Last(dead) \in Job
        /\ Buried' = Buried \ {Last(dead)} /\ IsInjective(dead')
    BY <1>8, Transfers DEF RetryPop
  <2>2. Moving = {} /\ Moving' = {Last(dead)}
    BY <1>8, <2>1, ConstantsOK DEF RetryPop, Moving, TypeOK
  <2>3. UNCHANGED <<fresh, main, done, dropped, lost, hand>>
    BY <1>8 DEF RetryPop
  <2> QED
    BY Transfers, <2>1, <2>2, <2>3 DEF OneHolder, HandsDiffer
<1>9. CASE RetryPopError
  <2>1. UNCHANGED <<fresh, main, done, dropped, hand>>
    BY <1>9 DEF RetryPopError
  <2>2. Moving' = Moving
    BY <1>9 DEF RetryPopError, Returns, Moving, TypeOK
  <2>3. CASE UNCHANGED <<dead, lost>>
    BY Transfers, <2>1, <2>2, <2>3 DEF OneHolder, HandsDiffer
  <2>4. CASE dead # <<>> /\ dead' = Front(dead) /\ lost' = lost \cup {Last(dead)}
    <3>1. /\ Last(dead) \in Buried
          /\ Buried' = Buried \ {Last(dead)} /\ IsInjective(dead')
      BY Transfers, <2>4
    <3> QED
      BY Transfers, <2>1, <2>2, <2>4, <3>1 DEF OneHolder, HandsDiffer
  <2> QED
    BY <1>9, <2>3, <2>4 DEF RetryPopError
<1>10. ASSUME op = "pushing" PROVE Moving = {moving} /\ moving \in Job
  BY <1>10 DEF Moving, TypeOK
<1>11. CASE RetryPush
  <2>1. Moving = {moving} /\ moving \in Job \ Queued /\ Moving' = {}
    BY <1>10, <1>11 DEF RetryPush, OneHolder, Moving
  <2>2. Queued' = Queued \cup {moving} /\ IsInjective(main')
    BY <1>11, Transfers, <2>1 DEF RetryPush
  <2>3. UNCHANGED <<fresh, dead, done, dropped, lost, hand>>
    BY <1>11 DEF RetryPush
  <2> QED
    BY Transfers, <2>1, <2>2, <2>3 DEF OneHolder, HandsDiffer
<1>12. CASE RetryAborts
  <2>1. Moving = {moving} /\ Moving' = {} /\ lost' = lost \cup {moving}
    BY <1>10, <1>12 DEF RetryAborts, Returns, Moving
  <2>2. UNCHANGED <<fresh, main, dead, done, dropped, hand>>
    BY <1>12 DEF RetryAborts
  <2> QED
    BY Transfers, <2>1, <2>2 DEF OneHolder, HandsDiffer
<1>13. ASSUME \/ \E p \in Proc : Cancel(p) \/ \E m \in Mode : Start(p, m)
              \/ \E w \in Worker : CallPop(w) \/ PopNothing(w) \/ HandleErr(w)
              \/ \E max \in 0..MaxLimit : StartRetry(max)
              \/ UNCHANGED vars
       PROVE  OneHolder'
  BY <1>2, <1>13 DEF Cancel, Start, CallPop, PopNothing, HandleErr, StartRetry, vars
<1>14. CASE RetryEnds
  BY <1>2, <1>14 DEF RetryEnds, Returns, TypeOK
<1>15. ASSUME NEW w \in Worker, GiveUpUnheard(w) PROVE OneHolder'
  <2>1. PICK j \in Job : j \in fresh /\ fresh' = fresh \ {j} /\ dead' = Append(dead, j)
    BY <1>15 DEF GiveUpUnheard, Copy
  <2>2. Buried' = Buried \cup {j} /\ IsInjective(dead')
    BY Transfers, <2>1 DEF OneHolder
  <2>3. UNCHANGED <<main, done, dropped, lost, hand, moving>>
    BY <1>15 DEF GiveUpUnheard
  <2> QED
    BY Transfers, <2>1, <2>2, <2>3 DEF OneHolder, HandsDiffer
<1>16. CASE RetryPushUnheard
  <2>1. PICK j \in Job : j \in fresh /\ fresh' = fresh \ {j} /\ main' = Append(main, j)
    BY <1>16 DEF RetryPushUnheard, Copy
  <2>2. Queued' = Queued \cup {j} /\ IsInjective(main')
    BY Transfers, <2>1 DEF OneHolder
  <2>3. UNCHANGED <<dead, done, dropped, lost, hand, moving>>
    BY <1>16 DEF RetryPushUnheard
  <2> QED
    BY Transfers, <2>1, <2>2, <2>3 DEF OneHolder, HandsDiffer
<1> QED
  BY <1>1, <1>3, <1>4, <1>5, <1>6, <1>7, <1>8, <1>9, <1>11, <1>12, <1>13, <1>14, <1>15, <1>16
  DEF Next, Step, Exit, Crash

\* No copy of a payload is ever in two places or in none: the lists, the
\* goroutines and the operator hand it on from one to the next, and a push that
\* is sent again adds a copy and takes none away.
THEOREM PayloadsConserved == Spec => []OneHolder
BY TypeInit, TypeStep, HolderInit, HolderStep, PTL DEF Spec

-----------------------------------------------------------------------------
(* Attempts *)

LEMMA QuotaType == \A j \in Job : Quota(j) \in Nat
BY ConstantsOK DEF Quota

LEMMA AccountInit == Init => Account
<1> SUFFICES ASSUME Init PROVE Account
  OBVIOUS
<1>1. Buried = {} /\ Moving = {} /\ Queued = {}
  BY EmptyElements DEF Init, Queued, Buried, Moving
<1>2. \A j \in Job : calls[j] = 0
  BY DEF Init
<1>3. \A w \in Worker : phase[w] = "off"
  BY DEF Init
<1>4. \A j \in fresh : j \in Job
  BY DEF Init
<1> QED
  BY <1>1, <1>2, <1>3, <1>4, QuotaType DEF Account, Exhausted

LEMMA AccountStep == TypeOK /\ OneHolder /\ Account /\ [Next]_vars => Account'
<1> SUFFICES ASSUME TypeOK, OneHolder, Account, [Next]_vars PROVE Account'
  OBVIOUS
<1> DEFINE HandOK(w) ==
      /\ phase[w] = "handling" => /\ hand[w] \in Decodable
                                  /\ calls[hand[w]] = attempts[w]
                                  /\ attempts[w] < Quota(hand[w])
      /\ phase[w] = "giveUp" /\ mode[Host[w]] # "jobs" => calls[hand[w]] = Quota(hand[w])
<1>0. /\ \A w \in Worker : HandOK(w)
      /\ \A j \in fresh \cup Queued : calls[j] = 0
      /\ \A j \in Buried \cup Moving : calls[j] = Quota(j)
      /\ \A j \in Job : calls[j] <= Quota(j)
      /\ fresh \cup Queued \cup Buried \cup Moving \subseteq Job
  BY DEF Account, Exhausted, OneHolder
<1>a. ASSUME NEW w \in Worker, phase[w] \in Busy
      PROVE  /\ hand[w] \in Job /\ hand[w] # NoJob
             /\ hand[w] \notin fresh \cup Queued \cup Buried \cup Moving
             /\ \A v \in Worker : phase[v] \in Busy /\ v # w => hand[v] # hand[w]
  <2>1. hand[w] \in Job /\ hand[w] # NoJob /\ hand[w] \in Held
    BY <1>a, ConstantsOK DEF TypeOK, Held
  <2> QED
    BY <1>a, <2>1 DEF OneHolder
<1> USE DEF lists, ends, procs, local, retry
\* Steps that call no handler, queue nothing again and start no hand.
<1>1. ASSUME fresh' \cup Queued' \subseteq fresh \cup Queued,
             Buried' \cup Moving' \subseteq Buried \cup Moving,
             UNCHANGED calls,
             \A w \in Worker : /\ phase'[w] = phase[w] \/ phase'[w] \notin Busy
                               /\ phase'[w] \in Busy => /\ hand'[w] = hand[w]
                                                        /\ attempts'[w] = attempts[w]
                                                        /\ mode'[Host[w]] = mode[Host[w]]
      PROVE  Account'
  <2>1. ASSUME NEW w \in Worker PROVE HandOK(w)'
    BY <1>0, <1>1 DEF Busy
  <2> HIDE DEF HandOK
  <2>2. /\ \A j \in fresh' \cup Queued' : calls'[j] = 0
        /\ \A j \in Buried' \cup Moving' : calls'[j] = Quota(j)
        /\ \A j \in Job : calls'[j] <= Quota(j)
    BY <1>0, <1>1
  <2> QED
    BY <2>1, <2>2 DEF Account, Exhausted, HandOK
<1>2. ASSUME NEW j \in Job, PushPayload(j) PROVE Account'
  <2>1. Queued' = Queued \cup {j} /\ fresh' = fresh \ {j} /\ j \in fresh
    BY <1>2, Transfers DEF PushPayload, OneHolder
  <2> QED
    BY <1>1, <1>2, <2>1, Transfers DEF PushPayload
<1>3. ASSUME NEW p \in Proc, Cancel(p) PROVE Account'
  BY <1>1, <1>3, Transfers DEF Cancel
<1>4. ASSUME NEW p \in Proc, End(p) PROVE Account'
  <2>1. \A w \in Worker : IF w \in Crew(p) THEN phase'[w] = "off"
                          ELSE /\ phase'[w] = phase[w] /\ hand'[w] = hand[w]
                               /\ attempts'[w] = attempts[w]
    BY <1>4 DEF End
  <2> QED
    BY <1>1, <1>4, <2>1, Transfers DEF End, Busy
<1>5. ASSUME NEW p \in Proc, NEW m \in Mode, Start(p, m) PROVE Account'
  <2>1. PICK crew \in SUBSET Crew(p) :
          phase' = [w \in Worker |-> IF w \in crew THEN "ready" ELSE phase[w]]
    BY <1>5 DEF Start
  <2>2. \A w \in Crew(p) : phase[w] = "off"
    BY <1>5 DEF Start, Up
  <2>3. ASSUME NEW w \in Worker, phase'[w] \in Busy
        PROVE  mode'[Host[w]] = mode[Host[w]]
    <3>1. w \notin Crew(p)
      BY <2>1, <2>2, <2>3 DEF Busy
    <3> QED
      BY <1>5, <3>1, ConstantsOK DEF Start, Crew, TypeOK
  <2>4. \A w \in Worker : phase'[w] = phase[w] \/ phase'[w] \notin Busy
    BY <2>1 DEF Busy
  <2> QED
    BY <1>1, <1>5, <2>3, <2>4, Transfers DEF Start
<1>6. ASSUME NEW w \in Worker, CallPop(w) \/ PopNothing(w) PROVE Account'
  <2>1. phase' = [phase EXCEPT ![w] = Unserved(w)] \/ phase' = [phase EXCEPT ![w] = "blocked"]
    BY <1>6 DEF CallPop, PopNothing
  <2>2. \A v \in Worker : phase'[v] = phase[v] \/ phase'[v] \notin Busy
    BY <2>1 DEF TypeOK, Unserved, Busy
  <2>3. UNCHANGED <<lists, ends, procs, hand, attempts, calls, retry>>
    BY <1>6 DEF CallPop, PopNothing
  <2> QED
    BY <1>1, <2>2, <2>3, Transfers
<1>7. ASSUME NEW w \in Worker, PopJob(w) PROVE Account'
  <2>1. Head(main) \in Queued /\ Head(main) \in Job /\ Queued' = Queued \ {Head(main)}
    BY <1>7, Transfers DEF PopJob
  <2>2. calls[Head(main)] = 0
    BY <1>0, <2>1
  <2>3. /\ hand'[w] = Head(main) /\ attempts'[w] = 0
        /\ phase'[w] = IF Head(main) \in Decodable THEN "handling" ELSE "giveUp"
        /\ \A v \in Worker : v # w => /\ phase'[v] = phase[v] /\ hand'[v] = hand[v]
                                      /\ attempts'[v] = attempts[v]
        /\ UNCHANGED <<fresh, dead, mode, calls, moving>>
    BY <1>7 DEF PopJob, TypeOK
  <2>4. HandOK(w)'
    <3>1. CASE Head(main) \in Decodable
      <4>1. 0 < Quota(Head(main))
        BY <2>1, <3>1, ConstantsOK DEF Quota
      <4> QED
        BY <2>2, <2>3, <3>1, <4>1
    <3>2. CASE Head(main) \notin Decodable
      BY <2>2, <2>3, <3>2 DEF Quota
    <3> QED
      BY <3>1, <3>2
  <2>5. ASSUME NEW v \in Worker, v # w PROVE HandOK(v)'
    BY <1>0, <2>3, <2>5
  <2> HIDE DEF HandOK
  <2>6. \A v \in Worker : HandOK(v)'
    BY <2>4, <2>5
  <2> QED
    BY <1>0, <2>1, <2>3, <2>6, Transfers DEF Account, Exhausted, HandOK
<1>8. ASSUME NEW w \in Worker, PopError(w) PROVE Account'
  <2>1. \A v \in Worker : phase'[v] = phase[v] \/ phase'[v] \notin Busy
    BY <1>8 DEF PopError, TypeOK, Busy
  <2>2. Queued' \subseteq Queued
    BY <1>8, Transfers DEF PopError
  <2> QED
    BY <1>1, <1>8, <2>1, <2>2, Transfers DEF PopError
\* A call of the handler of goroutine w.
<1>9. ASSUME NEW w \in Worker, phase[w] = "handling",
             calls' = [calls EXCEPT ![hand[w]] = @ + 1],
             UNCHANGED <<fresh, main, dead, moving, mode>>,
             \A v \in Worker : v # w => /\ phase'[v] = phase[v] /\ hand'[v] = hand[v]
                                        /\ attempts'[v] = attempts[v],
             \/ phase'[w] \notin Busy
             \/ /\ phase'[w] = "handling" /\ hand'[w] = hand[w]
                /\ attempts[w] < Retries[hand[w]] /\ attempts'[w] = attempts[w] + 1
             \/ /\ phase'[w] = "giveUp" /\ hand'[w] = hand[w]
                /\ mode[Host[w]] # "jobs" => ~(attempts[w] < Retries[hand[w]])
      PROVE  Account'
  <2>1. /\ hand[w] \in Job /\ hand[w] \in Decodable /\ calls[hand[w]] = attempts[w]
        /\ attempts[w] < Quota(hand[w]) /\ attempts[w] \in Nat
        /\ hand[w] \notin fresh \cup Queued \cup Buried \cup Moving
        /\ \A v \in Worker : phase[v] \in Busy /\ v # w => hand[v] # hand[w]
    BY <1>0, <1>9, <1>a DEF Busy, TypeOK
  <2>2. /\ calls'[hand[w]] = attempts[w] + 1
        /\ \A j \in Job : j # hand[w] => calls'[j] = calls[j]
    BY <1>9, <2>1 DEF TypeOK
  <2>3. Quota(hand[w]) = IF Retries[hand[w]] > 0 THEN Retries[hand[w]] + 1 ELSE 1
    BY <2>1 DEF Quota
  <2>4. Retries[hand[w]] \in Int
    BY <2>1, ConstantsOK
  <2>5. calls'[hand[w]] <= Quota(hand[w])
    BY <2>1, <2>2, <2>3, <2>4
  <2>6. HandOK(w)'
    <3>1. CASE phase'[w] \notin Busy
      BY <3>1 DEF Busy
    <3>2. CASE phase'[w] = "handling" /\ hand'[w] = hand[w]
               /\ attempts[w] < Retries[hand[w]] /\ attempts'[w] = attempts[w] + 1
      <4>1. attempts[w] + 1 < Quota(hand[w])
        BY <2>1, <2>3, <2>4, <3>2
      <4> QED
        BY <2>1, <2>2, <3>2, <4>1
    <3>3. CASE phase'[w] = "giveUp" /\ hand'[w] = hand[w]
               /\ (mode[Host[w]] # "jobs" => ~(attempts[w] < Retries[hand[w]]))
      <4>1. ~(attempts[w] < Retries[hand[w]]) => attempts[w] + 1 = Quota(hand[w])
        BY <2>1, <2>3, <2>4
      <4> QED
        BY <1>9, <2>2, <3>3, <4>1
    <3> QED
      BY <1>9, <3>1, <3>2, <3>3
  <2>7. ASSUME NEW v \in Worker, v # w PROVE HandOK(v)'
    <3>1. phase[v] \in Busy => hand[v] # hand[w] /\ hand[v] \in Job
      BY <1>a, <2>1, <2>7
    <3> QED
      BY <1>0, <1>9, <2>2, <2>7, <3>1 DEF Busy
  <2> HIDE DEF HandOK
  <2>8. \A v \in Worker : HandOK(v)'
    BY <2>6, <2>7
  <2>9. /\ \A j \in fresh \cup Queued : calls'[j] = 0
        /\ \A j \in Buried \cup Moving : calls'[j] = Quota(j)
        /\ \A j \in Job : calls'[j] <= Quota(j)
    BY <1>0, <2>1, <2>2, <2>5
  <2> QED
    BY <1>9, <2>8, <2>9, Transfers DEF Account, Exhausted, HandOK
<1>10. ASSUME NEW w \in Worker, HandleOk(w) PROVE Account'
  <2>1. \A v \in Worker : v # w => /\ phase'[v] = phase[v] /\ hand'[v] = hand[v]
                                   /\ attempts'[v] = attempts[v]
    BY <1>10 DEF HandleOk, LetGo, TypeOK
  <2>2. phase'[w] \notin Busy
    BY <1>10 DEF HandleOk, LetGo, Rest, TypeOK, Busy
  <2> QED
    BY <1>9, <1>10, <2>1, <2>2 DEF HandleOk
<1>11. ASSUME NEW w \in Worker, HandleErr(w) PROVE Account'
  <2>1. \A v \in Worker : v # w => /\ phase'[v] = phase[v] /\ hand'[v] = hand[v]
                                   /\ attempts'[v] = attempts[v]
    BY <1>11 DEF HandleErr, TypeOK
  <2>2. \/ /\ phase'[w] = "handling" /\ hand'[w] = hand[w]
           /\ attempts[w] < Retries[hand[w]] /\ attempts'[w] = attempts[w] + 1
        \/ /\ phase'[w] = "giveUp" /\ hand'[w] = hand[w]
           /\ mode[Host[w]] # "jobs" => ~(attempts[w] < Retries[hand[w]])
    <3>1. CASE mode[Host[w]] # "jobs" /\ attempts[w] < Retries[hand[w]]
      BY <1>11, <3>1 DEF HandleErr, TypeOK
    <3>2. CASE ~(mode[Host[w]] # "jobs" /\ attempts[w] < Retries[hand[w]])
      BY <1>11, <3>2 DEF HandleErr, TypeOK
    <3> QED
      BY <3>1, <3>2
  <2> QED
    BY <1>9, <1>11, <2>1, <2>2 DEF HandleErr
<1>12. ASSUME NEW w \in Worker, GiveUp(w) PROVE Account'
  <2>1. /\ hand[w] \in Job /\ LetGo(w) /\ UNCHANGED <<fresh, main, mode, calls, moving>>
        /\ phase[w] = "giveUp"
    BY <1>12, <1>a DEF GiveUp, Busy
  <2>2. \A v \in Worker : /\ phase'[v] = phase[v] \/ phase'[v] \notin Busy
                          /\ v # w => hand'[v] = hand[v] /\ attempts'[v] = attempts[v]
    BY <2>1 DEF LetGo, Rest, TypeOK, Busy
  <2>3. phase'[w] \notin Busy
    BY <2>1 DEF LetGo, Rest, TypeOK, Busy
  <2>4. ASSUME NEW v \in Worker PROVE HandOK(v)'
    BY <1>0, <2>1, <2>2, <2>3 DEF Busy
  <2>5. \A j \in Buried' : calls[j] = Quota(j)
    <3>1. CASE UNCHANGED dead
      BY <1>0, <3>1, Transfers
    <3>2. CASE Buries(w) /\ dead' = Append(dead, hand[w])
      <4>1. calls[hand[w]] = Quota(hand[w])
        BY <1>0, <2>1, <3>2 DEF Buries
      <4>2. Buried' = Buried \cup {hand[w]}
        BY <1>a, <2>1, <3>2, Transfers DEF Busy
      <4> QED
        BY <1>0, <4>1, <4>2
    <3> QED
      BY <1>12, <3>1, <3>2 DEF GiveUp
  <2> HIDE DEF HandOK
  <2> QED
    BY <1>0, <2>1, <2>4, <2>5, Transfers DEF Account, Exhausted, HandOK
<1>13. ASSUME NEW max \in 0..MaxLimit, StartRetry(max) PROVE Account'
  BY <1>1, <1>13, Transfers DEF StartRetry
<1>14. CASE RetryEnds
  BY <1>1, <1>14, Transfers DEF RetryEnds, Returns, Moving
<1>15. CASE RetryPop
  <2>1. /\ Last(dead) \in Buried /\ Buried' \subseteq Buried
    BY <1>15, Transfers DEF RetryPop
  <2>2. Moving' \subseteq {Last(dead)}
    BY <1>15 DEF RetryPop, Moving
  <2> QED
    BY <1>1, <1>15, <2>1, <2>2, Transfers DEF RetryPop
<1>16. CASE RetryPopError
  <2>1. Buried' \subseteq Buried /\ Moving' \subseteq Moving
    BY <1>16, Transfers DEF RetryPopError, Returns, Moving, retry
  <2> QED
    BY <1>1, <1>16, <2>1, Transfers DEF RetryPopError
<1>17. CASE RetryPush
  <2>1. moving \in Job /\ moving \in Moving
    BY <1>17 DEF RetryPush, TypeOK, Moving
  <2>2. Queued' = Queued \cup {moving} /\ Moving' = {}
    BY <1>17, <2>1, Transfers DEF RetryPush, OneHolder, Moving
  <2>3. calls'[moving] = 0 /\ \A j \in Job : j # moving => calls'[j] = calls[j]
    BY <1>17, <2>1 DEF RetryPush, TypeOK
  <2>4. moving \notin Buried /\ \A w \in Worker : phase[w] \in Busy => hand[w] # moving
    BY <1>a, <2>1 DEF OneHolder
  <2>5. UNCHANGED <<fresh, dead, phase, hand, attempts, mode>>
    BY <1>17 DEF RetryPush
  <2>6. ASSUME NEW w \in Worker PROVE HandOK(w)'
    <3>1. phase[w] \in Busy => calls'[hand[w]] = calls[hand[w]]
      BY <1>a, <2>3, <2>4
    <3> QED
      BY <1>0, <2>5, <3>1 DEF Busy
  <2> HIDE DEF HandOK
  <2>7. 0 <= Quota(moving)
    BY <2>1, QuotaType
  <2> QED
    BY <1>0, <2>1, <2>2, <2>3, <2>4, <2>5, <2>6, <2>7, Transfers
    DEF Account, Exhausted, HandOK
<1>18. CASE RetryAborts
  BY <1>1, <1>18, Transfers DEF RetryAborts, Returns, Moving
<1>19. CASE UNCHANGED vars
  BY <1>1, <1>19, Transfers DEF vars
<1>20. ASSUME NEW w \in Worker, GiveUpUnheard(w) PROVE Account'
  <2>1. PICK j \in Job : /\ j \in fresh /\ Payload[j] = Payload[hand[w]]
                         /\ fresh' = fresh \ {j} /\ dead' = Append(dead, j)
                         /\ calls' = [calls EXCEPT ![j] = calls[hand[w]]]
    BY <1>20 DEF GiveUpUnheard, Copy
  <2>2. /\ phase[w] = "giveUp" /\ mode[Host[w]] # "jobs" /\ hand[w] \in Job
        /\ UNCHANGED <<main, phase, hand, attempts, mode, moving>>
    BY <1>20, <1>a DEF GiveUpUnheard, Buries, Busy
  <2>3. Quota(j) = Quota(hand[w])
    BY <2>1, <2>2, ConstantsOK DEF Quota
  <2>4. Buried' = Buried \cup {j} /\ j \notin Queued \cup Buried \cup Moving
    BY <2>1, Transfers DEF OneHolder
  <2>5. calls'[j] = Quota(j) /\ \A i \in Job : i # j => calls'[i] = calls[i]
    BY <1>0, <2>1, <2>2, <2>3 DEF TypeOK
  <2>6. ASSUME NEW v \in Worker PROVE HandOK(v)'
    <3>1. phase[v] \in Busy => hand[v] \in Job /\ hand[v] # j
      BY <1>a, <2>1
    <3> QED
      BY <1>0, <2>2, <2>5, <3>1 DEF Busy
  <2>7. Quota(j) <= Quota(j)
    BY QuotaType
  <2> HIDE DEF HandOK
  <2> QED
    BY <1>0, <2>1, <2>2, <2>4, <2>5, <2>6, <2>7, Transfers DEF Account, Exhausted, HandOK
<1>21. CASE RetryPushUnheard
  <2>1. PICK j \in Job : j \in fresh /\ fresh' = fresh \ {j} /\ main' = Append(main, j)
    BY <1>21 DEF RetryPushUnheard, Copy
  <2>2. Queued' = Queued \cup {j}
    BY <2>1, Transfers DEF OneHolder
  <2> QED
    BY <1>1, <1>21, <2>1, <2>2, Transfers DEF RetryPushUnheard
<1> QED
  BY <1>2, <1>3, <1>4, <1>5, <1>6, <1>7, <1>8, <1>10, <1>11, <1>12, <1>13, <1>14,
     <1>15, <1>16, <1>17, <1>18, <1>19, <1>20, <1>21 DEF Next, Step, Exit, Crash

\* A payload in the dead-letter list, or on its way out of it, has had every
\* attempt it is entitled to, and none has had more.
THEOREM BuriedAfterEveryAttempt == Spec => []Exhausted
<1>1. TypeOK /\ OneHolder /\ Account /\ [Next]_vars => (TypeOK /\ OneHolder /\ Account)'
  BY TypeStep, HolderStep, AccountStep
<1>2. Account => Exhausted
  BY DEF Account
<1> QED
  BY <1>1, <1>2, TypeInit, HolderInit, AccountInit, PTL DEF Spec

-----------------------------------------------------------------------------
(* The refinement of JobLedger *)

Statuses == [j \in Job |-> StatusOf(j)]

\* A payload keeps its stage when the places keep their payloads.
LEMMA SameStages ==
    ASSUME UNCHANGED <<fresh, Queued, Buried, Held, Moving, done, dropped>>
    PROVE  UNCHANGED Statuses
<1>1. \A j \in Job : StatusOf(j)' = StatusOf(j)
  BY DEF StatusOf
<1> QED
  BY <1>1 DEF Statuses

\* A step that takes one payload along an edge is a step of the ledger.
LEMMA OneAdvances ==
    ASSUME NEW j \in Job, NEW e \in Ledger!Edge, StatusOf(j) = e[1], StatusOf(j)' = e[2],
           \A i \in Job \ {j} : StatusOf(i)' = StatusOf(i)
    PROVE  Ledger!Next
<1>1. Statuses[j] = e[1] /\ Statuses' = [Statuses EXCEPT ![j] = e[2]]
  BY DEF Statuses
<1>2. Ledger!Advance(j)
  BY <1>1 DEF Ledger!Advance, Statuses
<1> QED
  BY <1>2 DEF Ledger!Next

\* The ways from place to place; whatever leaves one and enters none is lost.
LEMMA PlacesAdvance ==
    ASSUME OneHolder, NEW j \in Job,
           \/ /\ j \in fresh /\ fresh' = fresh \ {j} /\ Queued' = Queued \cup {j}
              /\ UNCHANGED <<Buried, Held, Moving, done, dropped>>
           \/ /\ j \in fresh /\ fresh' = fresh \ {j} /\ Buried' = Buried \cup {j}
              /\ UNCHANGED <<Queued, Held, Moving, done, dropped>>
           \/ /\ j \in Queued /\ Queued' = Queued \ {j} /\ Held' \in {Held, Held \cup {j}}
              /\ UNCHANGED <<fresh, Buried, Moving, done, dropped>>
           \/ /\ j \in Held /\ Held' = Held \ {j}
              /\ \/ Buried' = Buried \cup {j} /\ UNCHANGED <<done, dropped>>
                 \/ done' = done \cup {j} /\ UNCHANGED <<Buried, dropped>>
                 \/ dropped' = dropped \cup {j} /\ UNCHANGED <<Buried, done>>
              /\ UNCHANGED <<fresh, Queued, Moving>>
           \/ /\ j \in Buried /\ Buried' = Buried \ {j} /\ Moving' \in {Moving, Moving \cup {j}}
              /\ UNCHANGED <<fresh, Queued, Held, done, dropped>>
           \/ /\ j \in Moving /\ Moving' = Moving \ {j} /\ Queued' \in {Queued, Queued \cup {j}}
              /\ UNCHANGED <<fresh, Buried, Held, done, dropped>>
    PROVE  Ledger!Next
<1>1. \A i \in Job \ {j} : StatusOf(i)' = StatusOf(i)
  BY DEF StatusOf
<1>2. <<StatusOf(j), StatusOf(j)'>> \in Ledger!Edge
  BY DEF StatusOf, OneHolder, Ledger!Edge
<1> QED
  BY <1>1, <1>2, OneAdvances

\* Payloads that leave the hands of goroutines and go nowhere are abandoned.
LEMMA HandsAbandon ==
    ASSUME OneHolder, NEW Gone \in SUBSET Job, Gone \subseteq Held, Held' = Held \ Gone,
           UNCHANGED <<fresh, Queued, Buried, Moving, done, dropped>>
    PROVE  Ledger!Next
<1>1. \A j \in Gone : StatusOf(j) = "running" /\ StatusOf(j)' = "lost"
  BY DEF StatusOf, OneHolder
<1>2. \A j \in Job \ Gone : StatusOf(j)' = StatusOf(j)
  BY DEF StatusOf
<1>3. /\ \A j \in Gone : Statuses[j] = "running"
      /\ Statuses' = [j \in Job |-> IF j \in Gone THEN "lost" ELSE Statuses[j]]
  BY <1>1, <1>2 DEF Statuses
<1>4. Ledger!Abandon(Gone)
  BY <1>3 DEF Ledger!Abandon, Statuses
<1> QED
  BY <1>4 DEF Ledger!Next

\* A payload that is given up reaches the dead-letter list, is dropped, or is
\* lost with the RPUSH that failed.
LEMMA GiveUpRefines == ASSUME TypeOK, OneHolder, NEW w \in Worker, GiveUp(w) PROVE Ledger!Next
<1>1. PICK j \in Job : j = hand[w] /\ j \in Held /\ Held' = Held \ {j}
  BY Transfers DEF GiveUp, Busy
<1>2. UNCHANGED <<fresh, main, moving>> /\ j \notin Buried
  <2>1. j \notin Buried
    BY <1>1 DEF OneHolder
  <2> QED
    BY <2>1 DEF GiveUp, retry
<1>3. UNCHANGED <<Queued, Moving>>
  BY <1>2, Transfers
<1>4. CASE dead' = Append(dead, j) /\ UNCHANGED <<done, dropped>>
  <2>1. Buried' = Buried \cup {j}
    BY <1>2, <1>4, Transfers
  <2> QED
    BY <1>1, <1>2, <1>3, <1>4, <2>1, PlacesAdvance
<1>5. CASE dropped' = dropped \cup {j} /\ UNCHANGED <<dead, done>>
  <2>1. Buried' = Buried
    BY <1>5, Transfers
  <2> QED
    BY <1>1, <1>2, <1>3, <1>5, <2>1, PlacesAdvance
<1>6. CASE UNCHANGED <<dead, done, dropped>>
  <2>1. Buried' = Buried
    BY <1>6, Transfers
  <2> DEFINE Gone == {j}
  <2>2. Gone \in SUBSET Job /\ Gone \subseteq Held /\ Held' = Held \ Gone
    BY <1>1
  <2>3. UNCHANGED <<fresh, Queued, Buried, Moving, done, dropped>>
    BY <1>2, <1>3, <1>6, <2>1
  <2> HIDE DEF Gone
  <2> QED
    BY <2>2, <2>3, HandsAbandon
<1> QED
  BY <1>1, <1>4, <1>5, <1>6 DEF GiveUp, ends

\* The operator's commands take payloads from the dead-letter list back to the
\* main list, or lose them on the wire.
LEMMA RetryRefines ==
    ASSUME TypeOK, OneHolder, RetryPop \/ RetryPopError \/ RetryPush \/ RetryAborts
    PROVE  Ledger!Next \/ UNCHANGED Statuses
<1> USE DEF ends, local, retry
<1>1. CASE dead # <<>> /\ dead' = Front(dead) /\ (RetryPop \/ RetryPopError)
  <2>1. PICK j \in Job : j = Last(dead) /\ j \in Buried /\ Buried' = Buried \ {j}
    BY <1>1, Transfers
  <2>2. Moving = {} /\ Moving' \in {Moving, Moving \cup {j}}
    BY <1>1, <2>1, ConstantsOK DEF RetryPop, RetryPopError, Returns, Moving, TypeOK
  <2>3. UNCHANGED <<fresh, main, hand, done, dropped>>
    BY <1>1 DEF RetryPop, RetryPopError
  <2>4. UNCHANGED <<Queued, Held>>
    BY <2>3, Transfers
  <2> QED
    BY <2>1, <2>2, <2>3, <2>4, PlacesAdvance
<1>2. CASE UNCHANGED dead /\ RetryPopError
  <2>1. UNCHANGED <<fresh, main, hand, done, dropped>>
    BY <1>2 DEF RetryPopError
  <2>2. Moving' = Moving
    BY <1>2 DEF RetryPopError, Returns, Moving, TypeOK
  <2>3. UNCHANGED <<Queued, Buried, Held>>
    BY <1>2, <2>1, Transfers
  <2> QED
    BY <2>1, <2>2, <2>3, SameStages
<1>3. CASE RetryPush \/ RetryAborts
  <2>1. PICK j \in Job : j = moving /\ j \in Moving /\ Moving' = Moving \ {j}
    BY <1>3 DEF RetryPush, RetryAborts, Returns, Moving, TypeOK
  <2>2. UNCHANGED <<fresh, dead, hand, done, dropped>>
    BY <1>3 DEF RetryPush, RetryAborts, lists
  <2>3. j \notin Queued
    BY <2>1 DEF OneHolder
  <2>4. Queued' \in {Queued, Queued \cup {j}}
    BY <1>3, <2>1, <2>3, Transfers DEF RetryPush, RetryAborts, lists
  <2>5. UNCHANGED <<Buried, Held>>
    BY <2>2, Transfers
  <2> QED
    BY <2>1, <2>2, <2>4, <2>5, PlacesAdvance
<1> QED
  BY <1>1, <1>2, <1>3 DEF RetryPop, RetryPopError

LEMMA StepRefines ==
    ASSUME TypeOK, OneHolder, [Next]_vars
    PROVE  Ledger!Next \/ UNCHANGED Statuses
<1> USE DEF lists, ends, procs, local, retry
<1>1. ASSUME NEW j \in Job, PushPayload(j) PROVE Ledger!Next
  <2>1. j \in fresh /\ j \notin Queued /\ fresh' = fresh \ {j}
    BY <1>1 DEF PushPayload, OneHolder
  <2>2. Queued' = Queued \cup {j}
    BY <1>1, <2>1, Transfers DEF PushPayload
  <2>3. UNCHANGED <<Buried, Held, Moving, done, dropped>>
    BY <1>1, Transfers DEF PushPayload
  <2> QED
    BY <2>1, <2>2, <2>3, PlacesAdvance
<1>2. ASSUME UNCHANGED <<fresh, main, dead, hand, moving, done, dropped>> PROVE UNCHANGED Statuses
  BY <1>2, Transfers, SameStages
<1>3. ASSUME NEW p \in Proc, End(p) PROVE Ledger!Next
  <2>1. PICK Gone \in SUBSET Held : Held' = Held \ Gone
    BY <1>3, EndTakes
  <2>2. Gone \subseteq Job
    BY <2>1 DEF Held, TypeOK
  <2>3. UNCHANGED <<fresh, Queued, Buried, Moving, done, dropped>>
    BY <1>3, Transfers DEF End
  <2> QED
    BY <2>1, <2>2, <2>3, HandsAbandon
<1>4. ASSUME NEW w \in Worker, PopJob(w) PROVE Ledger!Next
  <2>1. PICK j \in Job : j = Head(main) /\ j \in Queued /\ Queued' = Queued \ {j}
    BY <1>4, Transfers DEF PopJob
  <2>2. hand[w] = NoJob /\ j \notin Held
    BY <1>4, <2>1 DEF PopJob, TypeOK, Busy, OneHolder
  <2>3. Held' = Held \cup {j}
    BY <1>4, <2>1, <2>2, Transfers, TakeInHand DEF PopJob
  <2>4. UNCHANGED <<fresh, Buried, Moving, done, dropped>>
    BY <1>4, Transfers DEF PopJob
  <2> QED
    BY <2>1, <2>3, <2>4, PlacesAdvance
<1>5. ASSUME NEW w \in Worker, PopError(w) PROVE Ledger!Next \/ UNCHANGED Statuses
  <2>1. UNCHANGED <<fresh, dead, done, dropped, hand, moving>>
    BY <1>5 DEF PopError
  <2>2. CASE UNCHANGED main
    BY <1>2, <2>1, <2>2
  <2>3. CASE main # <<>> /\ main' = Tail(main)
    <3>1. PICK j \in Job : j \in Queued /\ Queued' = Queued \ {j}
      BY Transfers, <2>3
    <3>2. UNCHANGED <<Buried, Held, Moving>>
      BY <2>1, Transfers
    <3> QED
      BY <2>1, <3>1, <3>2, PlacesAdvance
  <2> QED
    BY <1>5, <2>2, <2>3 DEF PopError
<1>6. ASSUME NEW w \in Worker, HandleOk(w) PROVE Ledger!Next
  <2>1. PICK j \in Job : j = hand[w] /\ j \in Held /\ Held' = Held \ {j}
    BY <1>6, Transfers DEF HandleOk, Busy
  <2>2. done' = done \cup {j} /\ UNCHANGED <<fresh, Queued, Buried, Moving, dropped>>
    BY <1>6, <2>1, Transfers DEF HandleOk
  <2> QED
    BY <2>1, <2>2, PlacesAdvance
<1>7. ASSUME NEW w \in Worker, GiveUp(w) PROVE Ledger!Next
  BY <1>7, GiveUpRefines
<1>8. ASSUME \/ \E p \in Proc : Cancel(p) \/ \E m \in Mode : Start(p, m)
             \/ \E w \in Worker : CallPop(w) \/ PopNothing(w) \/ HandleErr(w)
             \/ \E max \in 0..MaxLimit : StartRetry(max)
             \/ UNCHANGED vars
      PROVE  UNCHANGED Statuses
  BY <1>2, <1>8 DEF Cancel, Start, CallPop, PopNothing, HandleErr, StartRetry, vars
<1>9. CASE RetryEnds
  BY <1>2, <1>9 DEF RetryEnds, Returns, TypeOK
<1>10. CASE RetryPushUnheard \/ \E w \in Worker : GiveUpUnheard(w)
  <2>1. UNCHANGED <<hand, moving, done, dropped>>
    BY <1>10 DEF RetryPushUnheard, GiveUpUnheard
  <2>2. PICK j \in Job : /\ j \in fresh /\ fresh' = fresh \ {j}
                         /\ \/ dead' = Append(dead, j) /\ UNCHANGED main
                            \/ main' = Append(main, j) /\ UNCHANGED dead
    BY <1>10 DEF RetryPushUnheard, GiveUpUnheard, Copy
  <2>3. j \notin Queued \cup Buried
    BY <2>2 DEF OneHolder
  <2>4. \/ Buried' = Buried \cup {j} /\ UNCHANGED Queued
        \/ Queued' = Queued \cup {j} /\ UNCHANGED Buried
    BY <2>2, <2>3, Transfers
  <2> QED
    BY <2>1, <2>2, <2>4, Transfers, PlacesAdvance
<1> QED
  BY <1>1, <1>3, <1>4, <1>5, <1>6, <1>7, <1>8, <1>9, <1>10, RetryRefines DEF Next, Step, Exit, Crash

LEMMA InitRefines == Init => Ledger!Init
  BY DEF Init, StatusOf, Ledger!Init

\* RedisQueue gives every copy of a payload the life JobLedger allows, whatever
\* the goroutines, the operator, the crashes, the lost replies and the commands
\* sent again do: one that was handled is never handled again, only the operator brings back one
\* that was given up, and a fault takes one only from the wire or from a hand.
THEOREM RefinesLedger == Spec => ImplementsLedger
<1>1. TypeOK /\ OneHolder /\ [Next]_vars => [Ledger!Next]_Statuses
  BY StepRefines
<1>2. TypeOK /\ OneHolder /\ [Next]_vars => [Ledger!Next]_[j \in Job |-> StatusOf(j)]
  BY <1>1 DEF Statuses
<1> QED
  BY <1>2, InitRefines, TypeCorrect, PayloadsConserved, PTL DEF Spec, ImplementsLedger, Ledger!Spec
=============================================================================
