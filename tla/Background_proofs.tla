------------------------- MODULE Background_proofs -------------------------
(***************************************************************************)
(* What works in the background of a process.                              *)
(*                                                                         *)
(* MemoryQueue, for every finite set of jobs, every nesting of their       *)
(* pushes, and any number of goroutines in Run and in Close: its state is  *)
(* well typed, the counter of the WaitGroup is exact, Close returns to a   *)
(* drained queue, and every job goes the way of JobLedger.                 *)
(*                                                                         *)
(* Scheduler, for any number of jobs, any periods and any number of        *)
(* goroutines that call RunOnce: its state is well typed, no run is lost,  *)
(* and runs keep their distance while no two RunOnce overlap.              *)
(***************************************************************************)
EXTENDS MemoryQueue, MCScheduler, SequenceTheorems, FiniteSetTheorems, WellFoundedInduction, TLAPS

-----------------------------------------------------------------------------
(* The two ends of the channel *)

\* A job that is not in the channel is sent.
LEMMA SendElements ==
    ASSUME NEW s \in Seq(Job), NEW j \in Job, IsInjective(s), j \notin ToSet(s)
    PROVE  /\ Append(s, j) \in Seq(Job) /\ Len(Append(s, j)) = Len(s) + 1
           /\ IsInjective(Append(s, j))
           /\ ToSet(Append(s, j)) = ToSet(s) \cup {j}
<1> DEFINE t == Append(s, j)
<1>1. /\ t \in Seq(Job) /\ Len(t) = Len(s) + 1 /\ t[Len(s) + 1] = j
      /\ \A i \in 1..Len(s) : t[i] = s[i]
  BY AppendProperties
<1>2. DOMAIN s = 1..Len(s) /\ DOMAIN t = 1..(Len(s) + 1) /\ Len(s) \in Nat
  BY <1>1, LenProperties
<1> HIDE DEF t
<1>3. \A i \in DOMAIN t : (i \in DOMAIN s /\ t[i] = s[i]) \/ (i = Len(s) + 1 /\ t[i] = j)
  BY <1>1, <1>2
<1>4. DOMAIN s \subseteq DOMAIN t /\ Len(s) + 1 \in DOMAIN t
  BY <1>2
<1>5. ToSet(t) = ToSet(s) \cup {j}
  BY <1>1, <1>2, <1>3, <1>4 DEF ToSet
<1>6. IsInjective(t)
  BY <1>3 DEF IsInjective, ToSet
<1> QED
  BY <1>1, <1>5, <1>6 DEF t

\* The first job is received.
LEMMA ReceiveElements ==
    ASSUME NEW s \in Seq(Job), IsInjective(s), s # <<>>
    PROVE  /\ Tail(s) \in Seq(Job) /\ Len(Tail(s)) = Len(s) - 1
           /\ Head(s) \in Job /\ Head(s) \in ToSet(s)
           /\ IsInjective(Tail(s))
           /\ ToSet(Tail(s)) = ToSet(s) \ {Head(s)}
<1> DEFINE t == Tail(s)
<1>1. /\ t \in Seq(Job) /\ Head(s) \in Job /\ Len(t) = Len(s) - 1
      /\ \A i \in 1..Len(t) : t[i] = s[i + 1]
  BY HeadTailProperties
<1>2. DOMAIN s = 1..Len(s) /\ DOMAIN t = 1..(Len(s) - 1) /\ Len(s) \in Nat \ {0}
  BY <1>1, LenProperties, EmptySeq
<1>3. Head(s) = s[1] /\ 1 \in DOMAIN s
  BY <1>2
<1> HIDE DEF t
<1>4. \A i \in DOMAIN t : i + 1 \in DOMAIN s /\ i + 1 # 1 /\ t[i] = s[i + 1]
  BY <1>1, <1>2
<1>5. \A i \in DOMAIN s : i # 1 => i - 1 \in DOMAIN t /\ t[i - 1] = s[i]
  BY <1>1, <1>2
<1>6. IsInjective(t)
  <2> SUFFICES ASSUME NEW i \in DOMAIN t, NEW k \in DOMAIN t, t[i] = t[k] PROVE i = k
    BY DEF IsInjective
  <2>1. i + 1 = k + 1
    BY <1>4 DEF IsInjective
  <2> QED
    BY <1>2, <2>1
<1>7. ToSet(t) = ToSet(s) \ {s[1]}
  <2>1. ASSUME NEW x \in ToSet(t) PROVE x \in ToSet(s) \ {s[1]}
    BY <1>3, <1>4 DEF ToSet, IsInjective
  <2>2. ASSUME NEW x \in ToSet(s) \ {s[1]} PROVE x \in ToSet(t)
    BY <1>5 DEF ToSet
  <2> QED
    BY <2>1, <2>2
<1> QED
  BY <1>1, <1>3, <1>6, <1>7 DEF t, ToSet

-----------------------------------------------------------------------------
(* The inductive invariant *)

\* A job whose Push succeeded is in the channel, in the hand of one goroutine
\* of Run, or has returned: in one of them, and once.
OnePlace ==
    /\ IsInjective(buf)
    /\ \A q, r \in Runner : job[q] = job[r] /\ job[q] # NoJob => q = r
    /\ ToSet(buf) \cap (InHand \cup ran) = {} /\ InHand \cap ran = {}
    /\ {j \in Job : push[j] = "sent"} = ToSet(buf) \cup InHand \cup ran

\* A Close that has begun has closed the queue, and one that has returned has
\* seen the counter at zero, which nothing raises again.
ClosedFor == \A c \in Closer : closing[c] # "no" => closed

IInv == TypeOK /\ OnePlace /\ WgExact /\ ClosedFor /\ CloseDrains

\* The jobs the counter counts are finitely many.
LEMMA OutstandingFinite == IsFiniteSet(Outstanding)
  BY ConstantsOK, FS_Subset DEF Outstanding

LEMMA OutstandingFiniteNext == IsFiniteSet(Outstanding')
  BY ConstantsOK, FS_Subset DEF Outstanding

LEMMA InitInv == Init => IInv
<1> SUFFICES ASSUME Init PROVE IInv
  OBVIOUS
<1>1. buf \in Seq(Job) /\ Len(buf) = 0 /\ DOMAIN buf = {}
  BY DEF Init
<1>2. TypeOK
  <2>1. Len(buf) <= Cap
    BY <1>1, ConstantsOK DEF Cap
  <2>2. \A r \in Runner : run[r] = "running" <=> job[r] # NoJob
    BY DEF Init
  <2> QED
    BY <1>1, <2>1, <2>2 DEF Init, TypeOK
<1>3. InHand = {} /\ ToSet(buf) = {}
  BY <1>1 DEF Init, InHand, ToSet
<1>4. OnePlace
  BY <1>1, <1>3 DEF Init, OnePlace, IsInjective
<1>5. WgExact
  <2>1. Outstanding = {}
    BY DEF Init, Outstanding
  <2> QED
    BY <2>1, FS_EmptySet DEF Init, WgExact
<1> QED
  BY <1>2, <1>4, <1>5 DEF Init, IInv, ClosedFor, CloseDrains

-----------------------------------------------------------------------------
(* Every step preserves it *)

\* Steps that leave the places and the counter as they are.
LEMMA QuietStep ==
    ASSUME IInv, UNCHANGED <<buf, job, ran, wg>>,
           {j \in Job : push[j] = "sent"}' = {j \in Job : push[j] = "sent"},
           Outstanding' = Outstanding
    PROVE  OnePlace' /\ WgExact'
<1>1. InHand' = InHand
  BY DEF InHand
<1> QED
  BY <1>1 DEF IInv, OnePlace, WgExact

LEMMA AcceptInv == ASSUME IInv, NEW j \in Job, Accept(j) PROVE IInv'
<1> USE DEF IInv
<1>1. j \notin ran /\ j \notin Outstanding
  BY DEF OnePlace, Accept, Outstanding, TypeOK
<1>2. CASE closed
  <2>1. push' = [push EXCEPT ![j] = "refused"] /\ UNCHANGED <<wg, buf, closed, run, job, ran, closing, crashed>>
    BY <1>2 DEF Accept
  <2>2. TypeOK'
    BY <2>1 DEF TypeOK
  <2>3. Outstanding' = Outstanding
    BY <1>1, <2>1 DEF Outstanding, TypeOK
  <2>4. {i \in Job : push[i] = "sent"}' = {i \in Job : push[i] = "sent"}
    BY <2>1 DEF Accept, TypeOK
  <2>5. OnePlace' /\ WgExact'
    BY <2>1, <2>3, <2>4, QuietStep
  <2> QED
    BY <2>1, <2>2, <2>3, <2>5 DEF ClosedFor, CloseDrains
<1>3. CASE ~closed
  <2>1. push' = [push EXCEPT ![j] = "sending"] /\ wg' = wg + 1
        /\ UNCHANGED <<buf, closed, run, job, ran, closing, crashed>>
    BY <1>3 DEF Accept
  <2>2. TypeOK'
    BY <2>1 DEF TypeOK
  <2>3. Outstanding' = Outstanding \cup {j}
    BY <1>1, <2>1 DEF Outstanding, TypeOK
  <2>4. {i \in Job : push[i] = "sent"}' = {i \in Job : push[i] = "sent"}
    BY <2>1 DEF Accept, TypeOK
  <2>5. InHand' = InHand
    BY <2>1 DEF InHand
  <2>6. OnePlace'
    BY <2>1, <2>4, <2>5 DEF OnePlace
  <2>7. WgExact'
    BY <1>1, <2>1, <2>3, OutstandingFinite, FS_AddElement DEF WgExact
  <2> QED
    BY <1>3, <2>1, <2>2, <2>6, <2>7 DEF ClosedFor, CloseDrains
<1> QED
  BY <1>2, <1>3

LEMMA SendInv == ASSUME IInv, NEW j \in Job, Send(j) PROVE IInv'
<1> USE DEF IInv
<1>1. j \notin ToSet(buf) /\ j \notin InHand /\ j \notin ran
  BY DEF OnePlace, Send, TypeOK
<1>2. /\ buf' \in Seq(Job) /\ Len(buf') = Len(buf) + 1 /\ IsInjective(buf')
      /\ ToSet(buf') = ToSet(buf) \cup {j}
  BY <1>1, SendElements DEF Send, TypeOK, OnePlace
<1>3. TypeOK'
  <2>1. Len(buf) \in Nat /\ Cap \in Nat
    BY ConstantsOK DEF TypeOK, Cap
  <2>2. Len(buf') <= Cap
    BY <1>2, <2>1 DEF Send
  <2> QED
    BY <1>2, <2>2 DEF Send, TypeOK
<1>4. Outstanding' = Outstanding
  BY <1>1 DEF Send, Outstanding, TypeOK
<1>5. InHand' = InHand
  BY DEF Send, InHand
<1>6. {i \in Job : push[i] = "sent"}' = {i \in Job : push[i] = "sent"} \cup {j}
  BY DEF Send, TypeOK
<1>7. OnePlace'
  BY <1>1, <1>2, <1>5, <1>6 DEF Send, OnePlace
<1> QED
  BY <1>3, <1>4, <1>7 DEF Send, WgExact, ClosedFor, CloseDrains

LEMMA SendPanicsInv == ASSUME IInv, NEW j \in Job, SendPanics(j) PROVE IInv'
<1> USE DEF IInv
<1>1. j \notin ran
  BY DEF OnePlace, SendPanics, TypeOK
<1>2. TypeOK'
  BY DEF SendPanics, TypeOK
<1>3. Outstanding' = Outstanding
  BY <1>1 DEF SendPanics, Outstanding, TypeOK
<1>4. {i \in Job : push[i] = "sent"}' = {i \in Job : push[i] = "sent"}
  BY DEF SendPanics, TypeOK
<1>5. OnePlace' /\ WgExact'
  BY <1>3, <1>4, QuietStep DEF SendPanics
<1> QED
  BY <1>2, <1>3, <1>5 DEF SendPanics, ClosedFor, CloseDrains

LEMMA ReceiveInv == ASSUME IInv, NEW r \in Runner, Receive(r) PROVE IInv'
<1> USE DEF IInv
<1> DEFINE j == Head(buf)
<1>1. /\ buf' \in Seq(Job) /\ Len(buf') = Len(buf) - 1 /\ IsInjective(buf')
      /\ j \in Job /\ j \in ToSet(buf) /\ ToSet(buf') = ToSet(buf) \ {j}
  BY ReceiveElements DEF Receive, TypeOK, OnePlace
<1> HIDE DEF j
<1>2. job' = [job EXCEPT ![r] = j] /\ job[r] = NoJob /\ j # NoJob
  BY <1>1, ConstantsOK DEF Receive, TypeOK, j
<1>3. TypeOK'
  <2>1. Len(buf) \in Nat /\ Cap \in Nat
    BY ConstantsOK DEF TypeOK, Cap
  <2>2. Len(buf') <= Cap
    BY <1>1, <2>1 DEF TypeOK
  <2> QED
    BY <1>1, <1>2, <2>2 DEF Receive, TypeOK
<1>4. Outstanding' = Outstanding
  BY DEF Receive, Outstanding
<1>5. InHand' = InHand \cup {j}
  BY <1>2 DEF InHand, TypeOK
<1>6. j \notin InHand /\ j \notin ran
  BY <1>1 DEF OnePlace
<1>7. \A q \in Runner : job[q] # j
  BY <1>2, <1>6 DEF InHand
<1>8. \A p, q \in Runner : job'[p] = job'[q] /\ job'[p] # NoJob => p = q
  BY <1>2, <1>7 DEF OnePlace, TypeOK
<1>9. OnePlace'
  BY <1>1, <1>5, <1>6, <1>8 DEF Receive, OnePlace
<1> QED
  BY <1>3, <1>4, <1>9 DEF Receive, WgExact, ClosedFor, CloseDrains

LEMMA FinishInv == ASSUME IInv, NEW r \in Runner, Finish(r) PROVE IInv'
<1> USE DEF IInv
<1>1. job[r] \in Job /\ job[r] # NoJob /\ job[r] \in InHand /\ job[r] \notin ran
  BY DEF Finish, TypeOK, OnePlace, InHand
<1>2. job[r] \in Outstanding
  BY <1>1 DEF OnePlace, Outstanding
<1>3. Outstanding' = Outstanding \ {job[r]}
  BY DEF Finish, Outstanding
<1>4. WgExact' /\ wg' \in Nat
  <2>1. Cardinality(Outstanding) \in Nat /\ Cardinality(Outstanding') \in Nat
    BY OutstandingFinite, OutstandingFiniteNext, FS_CardinalityType
  <2>2. Cardinality(Outstanding') = Cardinality(Outstanding) - 1
    BY <1>2, <1>3, OutstandingFinite, FS_RemoveElement
  <2> QED
    BY <2>1, <2>2 DEF Finish, WgExact
<1>5. TypeOK'
  BY <1>1, <1>4, ConstantsOK DEF Finish, TypeOK
<1>6. InHand' = InHand \ {job[r]}
  BY <1>1 DEF Finish, TypeOK, OnePlace, InHand
<1>7. OnePlace'
  BY <1>1, <1>6 DEF Finish, OnePlace, TypeOK
<1> QED
  BY <1>2, <1>3, <1>4, <1>5, <1>7 DEF Finish, ClosedFor, CloseDrains

LEMMA CloseInv == ASSUME IInv, NEW c \in Closer, Close(c) PROVE IInv'
<1> USE DEF IInv
<1>1. TypeOK'
  BY DEF Close, TypeOK
<1>2. Outstanding' = Outstanding
  BY DEF Close, Outstanding
<1>3. OnePlace' /\ WgExact'
  BY <1>2, QuietStep DEF Close
<1> QED
  BY <1>1, <1>2, <1>3 DEF Close, ClosedFor, CloseDrains, TypeOK

LEMMA CloseReturnsInv == ASSUME IInv, NEW c \in Closer, CloseReturns(c) PROVE IInv'
<1> USE DEF IInv
<1>1. TypeOK'
  BY DEF CloseReturns, TypeOK
<1>2. Outstanding' = Outstanding
  BY DEF CloseReturns, Outstanding
<1>3. OnePlace' /\ WgExact'
  BY <1>2, QuietStep DEF CloseReturns
<1>4. Outstanding = {} /\ closed
  <2>1. Cardinality(Outstanding) = 0
    BY DEF CloseReturns, WgExact
  <2> QED
    BY <2>1, OutstandingFinite, FS_EmptySet DEF CloseReturns, ClosedFor
<1> QED
  BY <1>1, <1>2, <1>3, <1>4 DEF CloseReturns, ClosedFor, CloseDrains, TypeOK

\* The steps of Run that touch no job.
LEMMA RunQuietInv ==
    ASSUME IInv, NEW r \in Runner, RunStarts(r) \/ RunReturns(r) \/ JobPanics(r)
    PROVE  IInv'
<1> USE DEF IInv
<1>1. UNCHANGED <<push, buf, closed, wg, job, ran, closing>>
  BY DEF RunStarts, RunReturns, JobPanics
<1>2. TypeOK'
  BY DEF RunStarts, RunReturns, JobPanics, TypeOK
<1>3. Outstanding' = Outstanding
  BY <1>1 DEF Outstanding
<1>4. OnePlace' /\ WgExact'
  BY <1>1, <1>3, QuietStep
<1> QED
  BY <1>1, <1>2, <1>3, <1>4 DEF ClosedFor, CloseDrains

LEMMA StepInv == ASSUME IInv, [Next]_vars PROVE IInv'
<1>1. CASE UNCHANGED vars
  BY <1>1 DEF vars, IInv, TypeOK, OnePlace, WgExact, Outstanding, InHand, ClosedFor, CloseDrains
<1>2. ASSUME NEW j \in Job, Accept(j) \/ PushStep(j) PROVE IInv'
  BY <1>2, AcceptInv, SendInv, SendPanicsInv DEF PushStep
<1>3. ASSUME NEW r \in Runner, RunStep(r) \/ JobPanics(r) PROVE IInv'
  BY <1>3, RunQuietInv, ReceiveInv, FinishInv DEF RunStep
<1>4. ASSUME NEW c \in Closer, Close(c) \/ CloseReturns(c) PROVE IInv'
  BY <1>4, CloseInv, CloseReturnsInv
<1> QED
  BY <1>1, <1>2, <1>3, <1>4 DEF Next

LEMMA Invariance == Spec => []IInv
  BY InitInv, StepInv, PTL DEF Spec

-----------------------------------------------------------------------------
(* Theorems *)

\* The state is well typed; the counter, above all, is never negative, which
\* would make wg.Done panic (memory.go:37).
THEOREM TypeCorrect == Spec => []TypeOK
  BY Invariance, PTL DEF IInv

\* WgExact: the WaitGroup counts the jobs that were accepted and have not
\* returned, whatever the callers, the goroutines of Run and of Close do.
THEOREM CounterExact == Spec => []WgExact
  BY Invariance, PTL DEF IInv

\* CloseDrains: the Close that closed the queue returns only when every job
\* whose Push succeeded has run.
THEOREM ClosingDrains == Spec => []CloseDrains
  BY Invariance, PTL DEF IInv

-----------------------------------------------------------------------------
(* The refinement of JobLedger *)

Statuses == [j \in Job |-> StatusOf(j)]

\* A job of a queue keeps its stage when its place does not change.
LEMMA SameStages ==
    ASSUME UNCHANGED <<job, ran>>,
           \A j \in Job : push'[j] = "sent" <=> push[j] = "sent"
    PROVE  UNCHANGED Statuses
<1>1. InHand' = InHand
  BY DEF InHand
<1>2. \A j \in Job : StatusOf(j)' = StatusOf(j)
  BY <1>1 DEF StatusOf
<1> QED
  BY <1>2 DEF Statuses

\* A step that takes one job along an edge is a step of the ledger.
LEMMA OneAdvances ==
    ASSUME NEW j \in Job, NEW e \in Ledger!Edge, StatusOf(j) = e[1], StatusOf(j)' = e[2],
           \A i \in Job \ {j} : StatusOf(i)' = StatusOf(i)
    PROVE  Ledger!Next
<1>1. Statuses[j] = e[1] /\ Statuses' = [Statuses EXCEPT ![j] = e[2]]
  BY DEF Statuses
<1>2. Ledger!Advance(j)
  BY <1>1 DEF Ledger!Advance, Statuses
<1> QED
  BY <1>2 DEF Ledger!Next

LEMMA SendRefines == ASSUME IInv, NEW j \in Job, Send(j) PROVE Ledger!Next
<1>1. j \notin InHand /\ j \notin ran /\ push[j] = "sending"
  BY DEF IInv, OnePlace, Send, TypeOK
<1>2. InHand' = InHand /\ ran' = ran
  BY DEF Send, InHand
<1>3. StatusOf(j) = "new" /\ StatusOf(j)' = "queued"
  BY <1>1, <1>2 DEF IInv, TypeOK, Send, StatusOf
<1>4. \A i \in Job \ {j} : StatusOf(i)' = StatusOf(i)
  BY <1>2 DEF IInv, TypeOK, Send, StatusOf
<1>5. <<"new", "queued">> \in Ledger!Edge
  BY DEF Ledger!Edge
<1> QED
  BY <1>3, <1>4, <1>5, OneAdvances

LEMMA ReceiveRefines == ASSUME IInv, NEW r \in Runner, Receive(r) PROVE Ledger!Next
<1>1. PICK j \in Job : j = Head(buf) /\ j \in ToSet(buf)
  BY ReceiveElements DEF IInv, Receive, TypeOK, OnePlace
<1>2. job' = [job EXCEPT ![r] = j] /\ job[r] = NoJob /\ j # NoJob /\ UNCHANGED <<push, ran>>
  BY <1>1, ConstantsOK DEF IInv, Receive, TypeOK
<1>3. InHand' = InHand \cup {j}
  BY <1>2 DEF IInv, InHand, TypeOK
<1>4. j \notin InHand /\ j \notin ran /\ push[j] = "sent"
  BY <1>1 DEF IInv, OnePlace
<1>5. StatusOf(j) = "queued" /\ StatusOf(j)' = "running"
  BY <1>2, <1>3, <1>4 DEF StatusOf
<1>6. \A i \in Job \ {j} : StatusOf(i)' = StatusOf(i)
  BY <1>2, <1>3 DEF StatusOf
<1>7. <<"queued", "running">> \in Ledger!Edge
  BY DEF Ledger!Edge
<1> QED
  BY <1>1, <1>5, <1>6, <1>7, OneAdvances

LEMMA FinishRefines == ASSUME IInv, NEW r \in Runner, Finish(r) PROVE Ledger!Next
<1>1. PICK j \in Job : j = job[r] /\ j \in InHand /\ j \notin ran
  BY DEF IInv, Finish, TypeOK, OnePlace, InHand
<1>2. InHand' = InHand \ {j}
  BY <1>1 DEF IInv, Finish, TypeOK, OnePlace, InHand
<1>3. ran' = ran \cup {j} /\ push' = push
  BY <1>1 DEF Finish
<1>4. StatusOf(j) = "running" /\ StatusOf(j)' = "done"
  BY <1>1, <1>3 DEF StatusOf
<1>5. \A i \in Job \ {j} : StatusOf(i)' = StatusOf(i)
  BY <1>2, <1>3 DEF StatusOf
<1>6. <<"running", "done">> \in Ledger!Edge
  BY DEF Ledger!Edge
<1> QED
  BY <1>1, <1>4, <1>5, <1>6, OneAdvances

\* Every other step leaves every job at its stage.
LEMMA StepRefines == ASSUME IInv, [Next]_vars PROVE Ledger!Next \/ UNCHANGED Statuses
<1>1. ASSUME NEW j \in Job, Accept(j) PROVE UNCHANGED Statuses
  BY <1>1, SameStages DEF IInv, TypeOK, Accept
<1>2. ASSUME NEW j \in Job, SendPanics(j) PROVE UNCHANGED Statuses
  BY <1>2, SameStages DEF IInv, TypeOK, SendPanics
<1>3. ASSUME NEW r \in Runner, RunStarts(r) \/ RunReturns(r) \/ JobPanics(r)
      PROVE  UNCHANGED Statuses
  BY <1>3, SameStages DEF RunStarts, RunReturns, JobPanics
<1>4. ASSUME NEW c \in Closer, Close(c) \/ CloseReturns(c) PROVE UNCHANGED Statuses
  BY <1>4, SameStages DEF Close, CloseReturns
<1>5. CASE UNCHANGED vars
  BY <1>5, SameStages DEF vars
<1> QED
  BY <1>1, <1>2, <1>3, <1>4, <1>5, SendRefines, ReceiveRefines, FinishRefines
  DEF Next, PushStep, RunStep

LEMMA InitRefines == Init => Ledger!Init
<1> SUFFICES ASSUME Init PROVE Statuses = [j \in Job |-> "new"]
  BY DEF Ledger!Init, Statuses
<1>1. InHand = {} /\ ran = {}
  BY DEF Init, InHand
<1> QED
  BY <1>1 DEF Init, StatusOf, Statuses

\* MemoryQueue gives every job the life JobLedger allows, whatever the jobs
\* push and however the goroutines of Run and Close interleave: no job runs
\* twice or in two goroutines, and none runs that was not sent (memory.go:23-52).
THEOREM RefinesLedger == Spec => ImplementsLedger
<1>1. Init => Ledger!Init
  BY InitRefines
<1>2. IInv /\ [Next]_vars => [Ledger!Next]_Statuses
  BY StepRefines
<1>3. IInv /\ [Next]_vars => [Ledger!Next]_[j \in Job |-> StatusOf(j)]
  BY <1>2 DEF Statuses
<1> QED
  BY <1>1, <1>3, Invariance, PTL DEF Spec, ImplementsLedger, Ledger!Spec

-----------------------------------------------------------------------------
(* The scheduler: the next job that is due *)

LEMMA LeastExists ==
    ASSUME NEW S, S \subseteq Nat, S # {}
    PROVE  \E x \in S : \A y \in S : x <= y
<1>1. PICK x \in S : \A y \in S : ~ (<<y, x>> \in OpToRel(<, Nat))
  BY NatLessThanWellFounded, WFMin
<1>2. ASSUME NEW y \in S PROVE x <= y
  <2>1. ~(y < x)
    BY <1>1 DEF OpToRel
  <2> QED
    BY <2>1
<1> QED
  BY <1>2

LEMMA MinIsLeast ==
    ASSUME NEW S, S \subseteq Nat, S # {}
    PROVE  Sched!Min(S) \in S /\ \A y \in S : Sched!Min(S) <= y
  BY LeastExists DEF Sched!Min

LEMMA MinOfTwo ==
    ASSUME NEW a \in Nat, NEW b \in Nat
    PROVE  Sched!Min({a, b}) = IF b < a THEN b ELSE a
<1>1. Sched!Min({a, b}) \in {a, b} /\ Sched!Min({a, b}) <= a /\ Sched!Min({a, b}) <= b
  BY MinIsLeast
<1> QED
  BY <1>1

-----------------------------------------------------------------------------
(* The inductive invariant *)

\* A goroutine outside RunOnce has no locals; the ages of the runs it knows of
\* are no less than those that took place.
Behind ==
    /\ \A i \in Sched!Job : age[i] >= lastRan[i]
    /\ \A g \in Sched!Goroutine, i \in Sched!Job : mine[g][i] >= lastRan[i]
    /\ \A g \in Sched!Goroutine : pc[g] \in {"off", "returned"} => mine[g] = [i \in Sched!Job |-> Old]

\* Until it is disturbed, the one RunOnce under way knows all there is to know,
\* and its `now` is later than any.
Knowing(g) ==
    /\ \A i \in Sched!Job : lastRan[i] >= mine[g][i]
    /\ \A i \in Sched!Job : i > copied[g] => lastRan[i] >= age[i]
    /\ pc[g] = "running" => \A i \in Sched!Job : since[g] <= lastRan[i]

Exact ==
    ~disturbed =>
        /\ \A g \in Sched!Goroutine, h \in Sched!Goroutine : g \in Sched!Active /\ h \in Sched!Active => g = h
        /\ \A g \in Sched!Active : Knowing(g)
        /\ Sched!Active = {} => \A i \in Sched!Job : lastRan[i] >= age[i]

SchedInv == Sched!TypeOK /\ Behind /\ Exact

LEMMA SchedInitInv == Sched!ConstantsOK /\ Sched!Init => SchedInv
<1> SUFFICES ASSUME Sched!ConstantsOK, Sched!Init PROVE SchedInv
  OBVIOUS
<1>1. Sched!TypeOK
  <2>1. Old \in 0..Old /\ 0 \in 0..Old /\ 0 \in 0..N /\ Sched!Job \subseteq Nat
    BY DEF Sched!ConstantsOK, Sched!Job
  <2>2. [i \in Sched!Job |-> Old] \in Sched!Ages
    BY <2>1 DEF Sched!Ages
  <2>3. \A g \in Sched!Goroutine : copied[g] <= len /\ due[g] \subseteq 1..copied[g]
    BY DEF Sched!Init
  <2>4. {tick, stopped, wedged, died, disturbed} \subseteq BOOLEAN
    BY DEF Sched!Init
  <2>5. pc[Loop] # "returned"
    BY DEF Sched!Init, Sched!Goroutine
  <2> QED
    BY <2>1, <2>2, <2>3, <2>4, <2>5 DEF Sched!Init, Sched!TypeOK
<1>2. Behind
  BY DEF Sched!ConstantsOK, Sched!Init, Behind
<1>3. Exact
  BY DEF Sched!ConstantsOK, Sched!Init, Exact, Sched!Active
<1> QED
  BY <1>1, <1>2, <1>3 DEF SchedInv

\* What Leave makes of the locals.
LEMMA LeaveLocals ==
    ASSUME Sched!ConstantsOK, Sched!TypeOK, NEW g \in Sched!Goroutine, Sched!Leave(g)
    PROVE  /\ pc'[g] = "off" /\ due'[g] = {} /\ copied'[g] = 0 /\ since'[g] = 0
           /\ mine'[g] = [i \in Sched!Job |-> Old]
           /\ \A h \in Sched!Goroutine \ {g} :
                 /\ pc'[h] = pc[h] /\ due'[h] = due[h] /\ copied'[h] = copied[h]
                 /\ since'[h] = since[h] /\ mine'[h] = mine[h]
           /\ Sched!Active' = Sched!Active \ {g}
           /\ pc' \in [Sched!Goroutine -> {"off", "copied", "running", "returned"}]
           /\ copied' \in [Sched!Goroutine -> 0..N]
           /\ mine' \in [Sched!Goroutine -> Sched!Ages] /\ since' \in [Sched!Goroutine -> 0..Old]
           /\ due' \in [Sched!Goroutine -> SUBSET Sched!Job]
<1>1. [i \in Sched!Job |-> Old] \in Sched!Ages /\ 0 \in 0..N /\ 0 \in 0..Old
  BY DEF Sched!ConstantsOK, Sched!Ages
<1>2. /\ pc' = [pc EXCEPT ![g] = "off"] /\ due' = [due EXCEPT ![g] = {}]
      /\ copied' = [copied EXCEPT ![g] = 0] /\ since' = [since EXCEPT ![g] = 0]
      /\ mine' = [mine EXCEPT ![g] = [i \in Sched!Job |-> Old]]
  BY DEF Sched!Leave
<1> QED
  BY <1>1, <1>2 DEF Sched!TypeOK, Sched!Active

\* Ages keep their order as time passes.
LEMMA OlderAges ==
    ASSUME Sched!ConstantsOK, NEW a \in 0..Old, NEW b \in 0..Old
    PROVE  Sched!Older(a) \in 0..Old /\ (a <= b => Sched!Older(a) <= Sched!Older(b))
  BY DEF Sched!ConstantsOK, Sched!Older

LEMMA TimeInv == ASSUME Sched!ConstantsOK, SchedInv, Sched!Time PROVE SchedInv'
<1> USE DEF SchedInv
<1>1. /\ age' = [i \in Sched!Job |-> Sched!Older(age[i])]
      /\ lastRan' = [i \in Sched!Job |-> Sched!Older(lastRan[i])]
      /\ mine' = [g \in Sched!Goroutine |->
            IF g \in Sched!Active THEN [i \in Sched!Job |-> Sched!Older(mine[g][i])] ELSE mine[g]]
      /\ since' = [g \in Sched!Goroutine |-> IF pc[g] = "running" THEN Sched!Older(since[g]) ELSE since[g]]
      /\ tick' = TRUE
      /\ UNCHANGED <<len, stopped, wedged, died, pc, copied, due, disturbed>>
  BY DEF Sched!Time
<1>2. /\ \A i \in Sched!Job : age[i] \in 0..Old /\ lastRan[i] \in 0..Old
      /\ \A g \in Sched!Goroutine : since[g] \in 0..Old /\ \A i \in Sched!Job : mine[g][i] \in 0..Old
  BY DEF Sched!TypeOK, Sched!Ages
<1>3. /\ \A i \in Sched!Job : age'[i] = Sched!Older(age[i]) /\ lastRan'[i] = Sched!Older(lastRan[i])
      /\ \A g \in Sched!Goroutine : pc[g] = "running" => since'[g] = Sched!Older(since[g])
      /\ \A g \in Sched!Active, i \in Sched!Job : mine'[g][i] = Sched!Older(mine[g][i])
      /\ \A g \in Sched!Goroutine \ Sched!Active : mine'[g] = mine[g]
      /\ Sched!Active' = Sched!Active
  BY <1>1 DEF Sched!Active
<1>4. Sched!TypeOK'
  <2>1. age' \in Sched!Ages /\ lastRan' \in Sched!Ages /\ \A g \in Sched!Goroutine : mine'[g] \in Sched!Ages
    BY <1>1, <1>2, OlderAges DEF Sched!Ages, Sched!TypeOK
  <2>2. mine' \in [Sched!Goroutine -> Sched!Ages]
    BY <1>1, <2>1
  <2>3. since' \in [Sched!Goroutine -> 0..Old]
    BY <1>1, <1>2, OlderAges
  <2> QED
    BY <1>1, <2>1, <2>2, <2>3 DEF Sched!TypeOK
<1>5. Behind'
  <2>1. \A i \in Sched!Job : age'[i] >= lastRan'[i]
    BY <1>2, <1>3, OlderAges DEF Behind
  <2>2. ASSUME NEW g \in Sched!Goroutine, NEW i \in Sched!Job PROVE mine'[g][i] >= lastRan'[i]
    <3>1. CASE g \in Sched!Active
      <4>1. mine'[g][i] = Sched!Older(mine[g][i]) /\ lastRan'[i] = Sched!Older(lastRan[i])
        BY <1>3, <3>1
      <4>2. mine[g][i] >= lastRan[i]
        BY DEF Behind
      <4>3. mine[g][i] \in 0..Old /\ lastRan[i] \in 0..Old
        BY <1>2
      <4> QED
        BY <4>1, <4>2, <4>3, OlderAges
    <3>2. CASE g \notin Sched!Active
      <4>1. mine'[g][i] = Old
        <5>1. mine'[g] = mine[g] /\ pc[g] \in {"off", "returned"}
          BY <1>3, <3>2 DEF Sched!Active, Sched!TypeOK
        <5>2. mine[g] = [j \in Sched!Job |-> Old]
          BY <5>1 DEF Behind
        <5> QED
          BY <5>1, <5>2
      <4> QED
        <5>1. lastRan'[i] = Sched!Older(lastRan[i]) /\ Sched!Older(lastRan[i]) \in 0..Old
          BY <1>2, <1>3, OlderAges
        <5> QED
          BY <4>1, <5>1 DEF Sched!ConstantsOK
    <3> QED
      BY <3>1, <3>2
  <2>3. \A g \in Sched!Goroutine : pc'[g] \in {"off", "returned"} => mine'[g] = [i \in Sched!Job |-> Old]
    BY <1>1, <1>3 DEF Behind, Sched!Active
  <2> QED
    BY <2>1, <2>2, <2>3 DEF Behind
<1>6. Exact'
  <2> SUFFICES ASSUME ~disturbed
               PROVE  /\ \A g \in Sched!Active : Knowing(g)'
                      /\ Sched!Active = {} => \A i \in Sched!Job : lastRan'[i] >= age'[i]
    BY <1>1, <1>3 DEF Exact
  <2>1. ASSUME NEW g \in Sched!Active PROVE Knowing(g)'
    <3>1. Knowing(g) /\ g \in Sched!Goroutine
      BY DEF Exact, Sched!Active
    <3>2. \A i \in Sched!Job : lastRan'[i] >= mine'[g][i]
      BY <1>2, <1>3, <3>1, OlderAges DEF Knowing
    <3>3. \A i \in Sched!Job : i > copied[g] => lastRan'[i] >= age'[i]
      BY <1>2, <1>3, <3>1, OlderAges DEF Knowing
    <3>4. pc[g] = "running" => \A i \in Sched!Job : since'[g] <= lastRan'[i]
      BY <1>2, <1>3, <3>1, OlderAges DEF Knowing
    <3> QED
      BY <1>1, <3>2, <3>3, <3>4 DEF Knowing
  <2>2. Sched!Active = {} => \A i \in Sched!Job : lastRan'[i] >= age'[i]
    BY <1>2, <1>3, OlderAges DEF Exact
  <2> QED
    BY <2>1, <2>2
<1> QED
  BY <1>4, <1>5, <1>6

LEMMA RegisterInv == ASSUME Sched!ConstantsOK, SchedInv, Sched!Register PROVE SchedInv'
<1>1. len \in 0..N /\ len < N /\ len' = len + 1 /\ N \in Nat
      /\ UNCHANGED <<age, tick, stopped, wedged, died, pc, Sched!local, Sched!past>>
  BY DEF Sched!ConstantsOK, Sched!Register, SchedInv, Sched!TypeOK
<1>2. \A g \in Sched!Goroutine : copied[g] <= len /\ copied[g] \in 0..N
  BY DEF SchedInv, Sched!TypeOK
<1>3. len' \in 0..N /\ \A g \in Sched!Goroutine : copied[g] <= len'
  BY <1>1, <1>2
<1> QED
  BY <1>1, <1>3 DEF SchedInv, Sched!TypeOK, Behind, Exact, Knowing, Sched!Active, Sched!local, Sched!past

LEMMA CopyInv ==
    ASSUME Sched!ConstantsOK, SchedInv, NEW g \in Sched!Goroutine, Sched!Copy(g)
    PROVE  SchedInv'
<1> USE DEF SchedInv
<1>1. /\ pc[g] = "off" /\ tick' = (IF g = Loop THEN FALSE ELSE tick)
      /\ copied' = [copied EXCEPT ![g] = len]
      /\ mine' = [mine EXCEPT ![g] = age]
      /\ pc' = [pc EXCEPT ![g] = "copied"]
      /\ disturbed' = (disturbed \/ Sched!Active # {})
      /\ UNCHANGED <<len, age, stopped, wedged, died, since, due, lastRan>>
  BY DEF Sched!Copy
<1>2. /\ pc'[g] = "copied" /\ copied'[g] = len /\ mine'[g] = age
      /\ \A h \in Sched!Goroutine \ {g} : pc'[h] = pc[h] /\ copied'[h] = copied[h] /\ mine'[h] = mine[h]
      /\ Sched!Active' = Sched!Active \cup {g} /\ g \notin Sched!Active
  BY <1>1 DEF Sched!TypeOK, Sched!Active
<1>3. Sched!TypeOK'
  <2>1. copied[g] <= len /\ copied[g] \in 0..N /\ len \in 0..N
    BY DEF Sched!TypeOK
  <2>2. \A h \in Sched!Goroutine : due'[h] \subseteq 1..copied'[h] /\ copied'[h] <= len
    BY <1>1, <1>2, <2>1 DEF Sched!ConstantsOK, Sched!TypeOK
  <2>3. tick' \in BOOLEAN /\ disturbed' \in BOOLEAN
    BY <1>1 DEF Sched!TypeOK
  <2>4. age \in Sched!Ages /\ mine' \in [Sched!Goroutine -> Sched!Ages] /\ copied' \in [Sched!Goroutine -> 0..N]
    BY <1>1, <2>1 DEF Sched!TypeOK
  <2>5. /\ pc' \in [Sched!Goroutine -> {"off", "copied", "running", "returned"}]
        /\ pc'[Loop] = "returned" => stopped
    BY <1>1, <1>2 DEF Sched!TypeOK, Sched!Goroutine
  <2> QED
    BY <1>1, <2>2, <2>3, <2>4, <2>5 DEF Sched!TypeOK
<1>4. Behind'
  BY <1>1, <1>2 DEF Behind
<1>5. Exact'
  BY <1>1, <1>2 DEF Exact, Knowing
<1> QED
  BY <1>3, <1>4, <1>5

LEMMA SampleInv ==
    ASSUME Sched!ConstantsOK, SchedInv, NEW g \in Sched!Goroutine, Sched!Sample(g)
    PROVE  SchedInv'
<1> USE DEF SchedInv
<1>1. /\ pc[g] = "copied"
      /\ due' = [due EXCEPT ![g] = {i \in 1..copied[g] : mine[g][i] >= Every[i]}]
      /\ since' = [since EXCEPT ![g] = 0]
      /\ pc' = [pc EXCEPT ![g] = "running"]
      /\ UNCHANGED <<Sched!shared, copied, mine, Sched!past>>
  BY DEF Sched!Sample
<1>2. /\ pc'[g] = "running" /\ since'[g] = 0 /\ due'[g] \subseteq 1..copied[g]
      /\ \A h \in Sched!Goroutine \ {g} : pc'[h] = pc[h] /\ since'[h] = since[h] /\ due'[h] = due[h]
      /\ Sched!Active' = Sched!Active
  BY <1>1 DEF Sched!TypeOK, Sched!Active
<1>3. copied[g] \in 0..N /\ N \in Nat /\ 0 \in 0..Old
  BY DEF Sched!ConstantsOK, Sched!TypeOK
<1>4. due'[g] \subseteq Sched!Job
  BY <1>2, <1>3 DEF Sched!Job
<1>5. Sched!TypeOK'
  BY <1>1, <1>2, <1>3, <1>4 DEF Sched!TypeOK, Sched!shared, Sched!past
<1>6. Behind'
  BY <1>1, <1>2 DEF Behind, Sched!shared, Sched!past
<1>7. Exact'
  <2>1. \A i \in Sched!Job : 0 <= lastRan[i]
    BY DEF Sched!TypeOK, Sched!Ages
  <2> QED
    BY <1>1, <1>2, <2>1 DEF Exact, Knowing, Sched!shared, Sched!past
<1> QED
  BY <1>5, <1>6, <1>7

LEMMA RunTaskInv ==
    ASSUME Sched!ConstantsOK, SchedInv, NEW g \in Sched!Goroutine, Sched!RunTask(g)
    PROVE  SchedInv'
<1> USE DEF SchedInv
<1> DEFINE i == Sched!Min(due[g])
<1>1. /\ pc[g] = "running" /\ due[g] # {}
      /\ due' = [due EXCEPT ![g] = @ \ {i}]
      /\ mine' = [mine EXCEPT ![g][i] = since[g]]
      /\ lastRan' = [lastRan EXCEPT ![i] = Sched!Min({@, since[g]})]
      /\ UNCHANGED <<Sched!shared, pc, copied, since, disturbed>>
  BY DEF Sched!RunTask
<1>2. due[g] \subseteq 1..copied[g] /\ copied[g] \in 0..N /\ N \in Nat
  BY DEF Sched!ConstantsOK, Sched!TypeOK
<1>3. i \in due[g] /\ i \in Sched!Job /\ i <= copied[g]
  <2>1. due[g] \subseteq Nat
    BY <1>2
  <2>2. i \in due[g]
    BY <1>1, <2>1, MinIsLeast
  <2> HIDE DEF i
  <2> QED
    BY <1>2, <2>2 DEF Sched!Job
<1> HIDE DEF i
<1>4. /\ \A j \in Sched!Job : lastRan[j] \in 0..Old
      /\ since[g] \in 0..Old
  BY DEF Sched!TypeOK, Sched!Ages
<1>5. lastRan'[i] = IF since[g] < lastRan[i] THEN since[g] ELSE lastRan[i]
  <2>1. lastRan'[i] = Sched!Min({lastRan[i], since[g]})
    BY <1>1, <1>3 DEF Sched!TypeOK, Sched!Ages
  <2>2. lastRan[i] \in Nat /\ since[g] \in Nat
    BY <1>3, <1>4
  <2> QED
    BY <2>1, <2>2, MinOfTwo
<1>6. /\ \A j \in Sched!Job \ {i} : lastRan'[j] = lastRan[j] /\ mine'[g][j] = mine[g][j]
      /\ mine'[g][i] = since[g]
      /\ \A h \in Sched!Goroutine \ {g} : mine'[h] = mine[h] /\ due'[h] = due[h]
      /\ due'[g] = due[g] \ {i}
      /\ Sched!Active' = Sched!Active /\ g \in Sched!Active
  BY <1>1, <1>3 DEF Sched!TypeOK, Sched!Ages, Sched!Active
<1>7. \A j \in Sched!Job : lastRan'[j] <= lastRan[j] /\ lastRan'[j] \in 0..Old
  BY <1>4, <1>5, <1>6
<1>8. Sched!TypeOK'
  <2>1. lastRan' \in Sched!Ages
    BY <1>1, <1>7 DEF Sched!TypeOK, Sched!Ages
  <2>2. mine' \in [Sched!Goroutine -> Sched!Ages]
    BY <1>1, <1>3, <1>4 DEF Sched!TypeOK, Sched!Ages
  <2>3. due' \in [Sched!Goroutine -> SUBSET Sched!Job] /\ \A h \in Sched!Goroutine : due'[h] \subseteq 1..copied[h]
    BY <1>1, <1>6 DEF Sched!TypeOK
  <2> QED
    BY <1>1, <2>1, <2>2, <2>3 DEF Sched!TypeOK, Sched!shared
<1>9. Behind'
  <2>1. \A j \in Sched!Job : age[j] \in 0..Old
    BY DEF Sched!TypeOK, Sched!Ages
  <2>2. \A h \in Sched!Goroutine, j \in Sched!Job : mine[h][j] \in 0..Old
    BY DEF Sched!TypeOK, Sched!Ages
  <2>3. \A j \in Sched!Job : age[j] >= lastRan'[j]
    BY <1>4, <1>7, <2>1 DEF Behind
  <2>4. \A h \in Sched!Goroutine, j \in Sched!Job : mine'[h][j] >= lastRan'[j]
    BY <1>4, <1>5, <1>6, <1>7, <2>2 DEF Behind
  <2>5. \A h \in Sched!Goroutine : pc[h] \in {"off", "returned"} => mine'[h] = [j \in Sched!Job |-> Old]
    BY <1>1, <1>6 DEF Behind
  <2> QED
    BY <1>1, <2>3, <2>4, <2>5 DEF Behind, Sched!shared
<1>10. Exact'
  <2> SUFFICES ASSUME ~disturbed PROVE Knowing(g)'
    <3>1. ~disturbed' => ~disturbed
      BY <1>1
    <3>2. ~disturbed => \A h \in Sched!Active : h = g
      BY <1>6 DEF Exact, Sched!Active
    <3> QED
      BY <1>6, <3>1, <3>2 DEF Exact
  <2>1. Knowing(g)
    BY <1>6 DEF Exact
  <2>2. lastRan'[i] = since[g]
    BY <1>1, <1>3, <1>4, <1>5, <2>1 DEF Knowing
  <2>3. \A j \in Sched!Job : lastRan'[j] >= mine'[g][j]
    BY <1>4, <1>6, <2>1, <2>2 DEF Knowing
  <2>4. \A j \in Sched!Job : j > copied[g] => lastRan'[j] >= age[j]
    BY <1>2, <1>3, <1>6, <2>1 DEF Knowing
  <2>5. ASSUME NEW j \in Sched!Job PROVE since[g] <= lastRan'[j]
    <3>1. since[g] <= lastRan[j]
      BY <1>1, <2>1 DEF Knowing
    <3>2. CASE j = i
      BY <1>4, <2>2, <3>2
    <3>3. CASE j # i
      BY <1>6, <3>1, <3>3
    <3> QED
      BY <3>2, <3>3
  <2> QED
    BY <1>1, <2>3, <2>4, <2>5 DEF Knowing, Sched!shared
<1> QED
  BY <1>8, <1>9, <1>10

\* A RunOnce ends, and writes back what it knows or, after a panic, nothing.
LEMMA LeaveInv ==
    ASSUME Sched!ConstantsOK, SchedInv, NEW g \in Sched!Goroutine, pc[g] = "running", Sched!Leave(g),
           UNCHANGED <<len, stopped, lastRan>>,
           tick' \in BOOLEAN, wedged' \in BOOLEAN, died' \in BOOLEAN,
           \/ /\ age' = [i \in Sched!Job |-> IF i <= copied[g] THEN mine[g][i] ELSE age[i]]
              /\ disturbed' = disturbed
           \/ age' = age /\ disturbed' = TRUE
    PROVE  SchedInv'
<1> USE DEF SchedInv
<1>1. /\ pc'[g] = "off" /\ due'[g] = {} /\ copied'[g] = 0
      /\ mine'[g] = [i \in Sched!Job |-> Old]
      /\ \A h \in Sched!Goroutine \ {g} :
            /\ pc'[h] = pc[h] /\ due'[h] = due[h] /\ copied'[h] = copied[h]
            /\ since'[h] = since[h] /\ mine'[h] = mine[h]
      /\ Sched!Active' = Sched!Active \ {g} /\ g \in Sched!Active
  BY LeaveLocals DEF Sched!Active
<1>2. /\ pc' \in [Sched!Goroutine -> {"off", "copied", "running", "returned"}]
      /\ copied' \in [Sched!Goroutine -> 0..N] /\ due' \in [Sched!Goroutine -> SUBSET Sched!Job]
      /\ mine' \in [Sched!Goroutine -> Sched!Ages] /\ since' \in [Sched!Goroutine -> 0..Old]
  BY LeaveLocals
<1>3. age' \in Sched!Ages /\ disturbed' \in BOOLEAN
  <2>1. \A i \in Sched!Job : mine[g][i] \in 0..Old /\ age[i] \in 0..Old
    BY DEF Sched!TypeOK, Sched!Ages
  <2>2. age' \in Sched!Ages
    BY <2>1 DEF Sched!TypeOK, Sched!Ages
  <2> QED
    BY <2>2 DEF Sched!TypeOK
<1>4. Sched!TypeOK'
  <2>1. pc'[Loop] = "returned" => stopped
    BY <1>1 DEF Sched!TypeOK, Sched!Goroutine
  <2>2. \A h \in Sched!Goroutine : copied'[h] <= len /\ due'[h] \subseteq 1..copied'[h]
    BY <1>1 DEF Sched!TypeOK
  <2>3. {tick', stopped, wedged', died', disturbed'} \subseteq BOOLEAN
    BY <1>3 DEF Sched!TypeOK
  <2> QED
    BY <1>2, <1>3, <2>1, <2>2, <2>3 DEF Sched!TypeOK
<1>5. \A i \in Sched!Job : lastRan[i] \in 0..Old
  BY DEF Sched!TypeOK, Sched!Ages
<1>6. Behind'
  <2>1. \A i \in Sched!Job : age'[i] >= lastRan[i]
    BY DEF Behind
  <2>2. \A h \in Sched!Goroutine, i \in Sched!Job : mine'[h][i] >= lastRan[i]
    BY <1>1, <1>5 DEF Sched!ConstantsOK, Behind
  <2>3. \A h \in Sched!Goroutine : pc'[h] \in {"off", "returned"} => mine'[h] = [i \in Sched!Job |-> Old]
    BY <1>1 DEF Behind
  <2> QED
    BY <2>1, <2>2, <2>3 DEF Behind
<1>7. Exact'
  <2> SUFFICES ASSUME ~disturbed'
               PROVE  Sched!Active' = {} /\ \A i \in Sched!Job : lastRan[i] >= age'[i]
    BY DEF Exact
  <2>1. Sched!Active' = {} /\ Knowing(g)
    BY <1>1 DEF Exact, Sched!Active
  <2>2. \A i \in Sched!Job : i <= copied[g] \/ i > copied[g]
    BY DEF Sched!Job, Sched!TypeOK
  <2> QED
    BY <2>1, <2>2 DEF Knowing
<1> QED
  BY <1>4, <1>6, <1>7

LEMMA TaskPanicsInv ==
    ASSUME Sched!ConstantsOK, SchedInv, NEW g \in Sched!Goroutine, Sched!TaskPanics(g)
    PROVE  SchedInv'
<1>1. /\ pc[g] = "running" /\ Sched!Leave(g) /\ UNCHANGED <<len, stopped, lastRan>>
      /\ age' = age /\ disturbed' = TRUE /\ UNCHANGED <<tick, wedged>>
      /\ died' = (g \notin Watched)
  BY DEF Sched!TaskPanics
<1>2. tick' \in BOOLEAN /\ wedged' \in BOOLEAN /\ died' \in BOOLEAN
  BY <1>1 DEF SchedInv, Sched!TypeOK
<1> QED
  BY <1>1, <1>2, LeaveInv

LEMMA WriteBackInv ==
    ASSUME Sched!ConstantsOK, SchedInv, NEW g \in Sched!Goroutine, Sched!WriteBack(g)
    PROVE  SchedInv'
<1>1. /\ pc[g] = "running" /\ Sched!Leave(g) /\ UNCHANGED <<len, stopped, lastRan>>
      /\ age' = [i \in Sched!Job |-> IF i <= copied[g] THEN mine[g][i] ELSE age[i]]
      /\ UNCHANGED <<disturbed, tick, wedged, died>>
  BY DEF Sched!WriteBack, Sched!past
<1>2. tick' \in BOOLEAN /\ wedged' \in BOOLEAN /\ died' \in BOOLEAN
  BY <1>1 DEF SchedInv, Sched!TypeOK
<1> QED
  BY <1>1, <1>2, LeaveInv

LEMMA WriteBackPanicsInv ==
    ASSUME Sched!ConstantsOK, SchedInv, NEW g \in Sched!Goroutine, Sched!WriteBackPanics(g)
    PROVE  SchedInv'
<1>1. /\ pc[g] = "running" /\ Sched!Leave(g) /\ UNCHANGED <<len, stopped, lastRan>>
      /\ age' = [i \in Sched!Job |-> IF i <= copied[g] THEN mine[g][i] ELSE age[i]]
      /\ UNCHANGED <<disturbed, tick>>
      /\ died' = (g \notin Watched) /\ wedged' = (g \in Watched)
  BY DEF Sched!WriteBackPanics, Sched!past
<1>2. tick' \in BOOLEAN /\ wedged' \in BOOLEAN /\ died' \in BOOLEAN
  BY <1>1 DEF SchedInv, Sched!TypeOK
<1> QED
  BY <1>1, <1>2, LeaveInv

LEMMA StopInv == ASSUME Sched!ConstantsOK, SchedInv, Sched!Stop PROVE SchedInv'
<1>1. stopped' = TRUE /\ UNCHANGED <<len, age, tick, wedged, died, pc, Sched!local, Sched!past>>
  BY DEF Sched!Stop
<1>2. {tick, stopped', wedged, died, disturbed} \subseteq BOOLEAN
  BY <1>1 DEF SchedInv, Sched!TypeOK
<1> QED
  BY <1>1, <1>2 DEF SchedInv, Sched!TypeOK, Behind, Exact, Knowing, Sched!Active, Sched!local, Sched!past

LEMMA ReturnInv == ASSUME Sched!ConstantsOK, SchedInv, Sched!Return PROVE SchedInv'
<1>1. /\ stopped /\ pc[Loop] = "off" /\ pc' = [pc EXCEPT ![Loop] = "returned"]
      /\ UNCHANGED <<Sched!shared, Sched!local, Sched!past>>
  BY DEF Sched!Return
<1>2. Sched!Active' = Sched!Active
  BY <1>1 DEF SchedInv, Sched!TypeOK, Sched!Active
<1>3. Sched!TypeOK'
  BY <1>1 DEF SchedInv, Sched!TypeOK, Sched!shared, Sched!local, Sched!past
<1>4. Behind'
  BY <1>1 DEF SchedInv, Sched!TypeOK, Behind, Sched!shared, Sched!local, Sched!past
<1>5. Exact'
  <2>1. \A g \in Sched!Goroutine : pc'[g] = "running" => pc[g] = "running"
    BY <1>1 DEF SchedInv, Sched!TypeOK
  <2>2. \A g \in Sched!Goroutine : Knowing(g) => Knowing(g)'
    BY <1>1, <2>1 DEF Knowing, Sched!shared, Sched!local, Sched!past
  <2>3. Sched!Active \subseteq Sched!Goroutine
    BY DEF Sched!Active
  <2> QED
    BY <1>1, <1>2, <2>2, <2>3 DEF SchedInv, Exact, Sched!shared, Sched!local, Sched!past
<1> QED
  BY <1>3, <1>4, <1>5 DEF SchedInv

-----------------------------------------------------------------------------
(* The theorems *)

LEMMA SchedInvariance == Sched!ConstantsOK /\ Sched!Spec => []SchedInv
<1> SUFFICES ASSUME Sched!ConstantsOK PROVE Sched!Spec => []SchedInv
  OBVIOUS
<1>1. SchedInv /\ [Sched!Next]_(Sched!vars) => SchedInv'
  <2> SUFFICES ASSUME SchedInv, [Sched!Next]_(Sched!vars) PROVE SchedInv'
    OBVIOUS
  <2>1. CASE Sched!Time \/ Sched!Register \/ Sched!Stop \/ Sched!Return
    BY <2>1, TimeInv, RegisterInv, StopInv, ReturnInv
  <2>2. ASSUME NEW g \in Sched!Goroutine, Sched!Step(g) PROVE SchedInv'
    BY <2>2, CopyInv, SampleInv, RunTaskInv, TaskPanicsInv, WriteBackInv, WriteBackPanicsInv
       DEF Sched!Step, Sched!Finish
  <2>3. CASE UNCHANGED Sched!vars
    BY <2>3 DEF SchedInv, Sched!TypeOK, Behind, Exact, Knowing, Sched!Active,
                Sched!vars, Sched!shared, Sched!local, Sched!past
  <2> QED
    BY <2>1, <2>2, <2>3 DEF Sched!Next
<1> QED
  BY SchedInitInv, <1>1, PTL DEF Sched!Spec

\* The loop returns only when it was told to stop, and the jobs a RunOnce has
\* still to run are those of its copy, which is never longer than s.jobs.
THEOREM SchedTypeCorrect == SchedSpec => []Sched!TypeOK
  BY SchedInvariance, SchedOK, PTL DEF SchedSpec, SchedInv

\* Whatever copies the overlapping RunOnce write over each other, in whatever
\* order, after whatever panics: lastRun is never later than the `now` the job
\* was last run for, so that an update can make a job run again but never keeps
\* it from running (scheduler.go:46-50).
THEOREM NoLostRun == SchedSpec => []NeverAhead
<1>1. SchedInv => NeverAhead
  BY DEF SchedInv, Behind, NeverAhead, Sched!NeverAhead
<1> QED
  BY <1>1, SchedInvariance, SchedOK, PTL DEF SchedSpec

\* As long as one RunOnce is under way at a time and no task panics, no job is
\* found due before its period has passed since its run before
\* (scheduler.go:37-50).
THEOREM Spacing == SchedSpec => SpacedOut
<1> USE SchedOK
<1>1. SchedInv /\ [Sched!Next]_(Sched!vars) =>
         [\A g \in Sched!Goroutine : Sched!Sample(g) /\ ~disturbed =>
            \A i \in due'[g] : lastRan[i] >= Every[i]]_(Sched!vars)
  <2> SUFFICES ASSUME SchedInv, NEW g \in Sched!Goroutine, Sched!Sample(g), ~disturbed, NEW i \in due'[g]
               PROVE  lastRan[i] >= Every[i]
    OBVIOUS
  <2>1. /\ pc[g] = "copied"
        /\ i \in 1..copied[g] /\ mine[g][i] >= Every[i]
    BY DEF Sched!Sample, SchedInv, Sched!TypeOK
  <2>2. Knowing(g) /\ i \in Sched!Job
    <3>1. Knowing(g)
      BY <2>1 DEF SchedInv, Exact, Sched!Active
    <3>2. copied[g] \in 0..N /\ N \in Nat
      BY DEF Sched!ConstantsOK, SchedInv, Sched!TypeOK
    <3> QED
      BY <2>1, <3>1, <3>2 DEF Sched!Job
  <2>3. lastRan[i] \in Nat /\ mine[g][i] \in Nat /\ Every[i] \in Nat
    BY <2>2 DEF Sched!ConstantsOK, SchedInv, Sched!TypeOK, Sched!Ages, Sched!Job
  <2>4. lastRan[i] >= mine[g][i]
    BY <2>2 DEF Knowing
  <2> QED
    BY <2>1, <2>3, <2>4
<1> QED
  BY <1>1, SchedInvariance, PTL DEF SchedSpec, SpacedOut, Sched!Spec, Sched!SpacedOut
=============================================================================
