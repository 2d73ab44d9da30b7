------------------------- MODULE ProcessPoolProofs -------------------------
(***************************************************************************)
(* Proofs about ProcessPool for every number of workers, classes, spare    *)
(* tickets and every pipe capacity.                                        *)
(***************************************************************************)
EXTENDS ProcessPool, FiniteSetTheorems, TLAPS

USE PoolAssumption DEF Parent, Workers, Procs, Jobs, Tickets, NoTicket, Phases,
    Places, Results, Executables, conf, outcome

\* Before the first fork.
LEMMA PInit == Init => PoolInv
<1> SUFFICES ASSUME Init PROVE PoolInv
  OBVIOUS
<1>1. TypeOK
  BY DEF Init, TypeOK
<1>2. PipeInv /\ TicketInv /\ DistinctInv /\ ParentInv /\ SuccessMeansBuilt
  BY DEF Init, PipeInv, TicketInv, TicketOK, DistinctInv, ParentInv,
         SuccessMeansBuilt, Head_, HasTicket
<1>3. ResultInv
  BY DEF Init, ResultInv, Head_
<1>4. ErrorInv
  BY DEF Init, ErrorInv, Failed
<1>5. CountInv
  BY DEF Init, CountInv
<1> QED
  BY <1>1, <1>2, <1>3, <1>4, <1>5 DEF PoolInv

\* A worker passes a class that is not its own: its walk stays at or before
\* its ticket.
LEMMA PSubmitOther == ASSUME PoolInv, NEW w \in Workers, SubmitOther(w) PROVE PoolInv'
<1> USE DEF PoolInv, SubmitOther
<1>1. TypeOK'
  <2>1. /\ w \in Procs /\ job_number[w] \in 0 .. MaxSubmits
        /\ submits \in 1 .. MaxSubmits /\ job_number[w] < submits /\ MaxSubmits \in Nat
    BY PoolAssumption DEF TypeOK, Workers, Procs
  <2>2. job_number[w] + 1 \in 0 .. MaxSubmits
    BY <2>1
  <2>3. job_number' \in [Procs -> 0 .. MaxSubmits]
    BY <2>1, <2>2 DEF TypeOK
  <2> QED
    BY <2>3 DEF TypeOK
<1>2. PipeInv'
  BY DEF PipeInv, Head_
<1>3. TicketInv'
  <2> SUFFICES ASSUME NEW v \in Workers PROVE TicketOK(v)'
    BY DEF TicketInv
  <2>1. TicketOK(v) /\ TicketOK(w)
    BY DEF TicketInv
  <2>2. v \in Procs /\ w \in Procs /\ job_number[w] \in Nat /\ ticket[w] \in Int /\ submits \in Nat
    BY DEF TypeOK
  <2>3. job_number' = [job_number EXCEPT ![w] = job_number[w] + 1]
    OBVIOUS
  <2>4. job_number'[v] = IF v = w THEN job_number[w] + 1 ELSE job_number[v]
    BY <2>2, <2>3 DEF TypeOK
  <2>5. pc' = pc /\ ticket' = ticket /\ status' = status /\ submits' = submits /\ Head_' = Head_
    BY DEF Head_
  <2>6. job_number[w] <= ticket[w] /\ job_number[w] # ticket[w] /\ job_number[w] < submits
    BY <2>1 DEF TicketOK
  <2>7. CASE v = w
    BY <2>1, <2>2, <2>4, <2>5, <2>6, <2>7 DEF TicketOK, HasTicket
  <2>8. CASE v # w
    BY <2>1, <2>4, <2>5, <2>8 DEF TicketOK, HasTicket
  <2> QED
    BY <2>7, <2>8
<1>4. DistinctInv'
  BY DEF DistinctInv, HasTicket
<1>5. ResultInv'
  <2>1. job_number'[Parent] = job_number[Parent]
    BY DEF TypeOK
  <2>2. UNCHANGED <<runs, result, size, submits, written, pipe, pc, ticket>>
    BY DEF conf, outcome
  <2>3. ResultInv
    OBVIOUS
  <2> HIDE DEF PoolInv, SubmitOther
  <2> QED
    BY <2>1, <2>2, <2>3 DEF ResultInv, Head_
<1>6. ErrorInv'
  BY DEF ErrorInv, Failed
<1>7. CountInv'
  BY DEF CountInv
<1>8. ParentInv' /\ SuccessMeansBuilt'
  BY DEF ParentInv, SuccessMeansBuilt, TypeOK
<1> QED
  BY <1>1, <1>2, <1>3, <1>4, <1>5, <1>6, <1>7, <1>8 DEF PoolInv

(***************************************************************************)
(* Steps of the parent that move no ticket and touch no class.             *)
(***************************************************************************)
LEMMA Quiet ==
  ASSUME PoolInv,
         UNCHANGED <<conf, written, pipe, pc, ticket, job_number, err, outcome, status>>
  PROVE  PipeInv' /\ TicketInv' /\ DistinctInv' /\ ResultInv'
<1>1. PipeInv'
  BY DEF PoolInv, PipeInv, Head_
<1>2. TicketInv'
  BY DEF PoolInv, TicketInv, TicketOK, Head_, HasTicket
<1>3. DistinctInv'
  BY DEF PoolInv, DistinctInv, HasTicket
<1>4. ResultInv'
  BY DEF PoolInv, ResultInv, Head_
<1> QED
  BY <1>1, <1>2, <1>3, <1>4

\* fork fails and the parent exits.
LEMMA PForkFails == ASSUME PoolInv, ForkFails PROVE PoolInv'
<1>1. PipeInv' /\ TicketInv' /\ DistinctInv' /\ ResultInv'
  BY Quiet DEF ForkFails
<1>2. TypeOK'
  BY DEF PoolInv, ForkFails, TypeOK
<1>3. ErrorInv'
  BY DEF PoolInv, ForkFails, ErrorInv, Failed
<1>4. CountInv' /\ ParentInv' /\ SuccessMeansBuilt'
  BY DEF PoolInv, ForkFails, CountInv, ParentInv, SuccessMeansBuilt, TypeOK
<1> QED
  BY <1>1, <1>2, <1>3, <1>4 DEF PoolInv

\* start() returns with every worker forked and every ticket written.
LEMMA PStarted == ASSUME PoolInv, Started PROVE PoolInv'
<1>1. PipeInv' /\ TicketInv' /\ DistinctInv' /\ ResultInv'
  BY Quiet DEF Started
<1>2. TypeOK'
  BY DEF PoolInv, Started, TypeOK
<1>3. ErrorInv'
  BY DEF PoolInv, Started, ErrorInv, Failed
<1>4. CountInv'
  <2>1. ASSUME size > 1
        PROVE  /\ \A w \in Workers : pc[w] = "unborn" <=> w > size
               /\ {w \in Workers : pc[w] \notin {"unborn", "reaped"}} = 1 .. size
    BY <2>1 DEF PoolInv, Started, CountInv, TypeOK
  <2>2. size \in Nat /\ Cardinality(1 .. size) = size
    BY FS_Interval DEF PoolInv, TypeOK
  <2> QED
    BY <2>1, <2>2 DEF PoolInv, Started, CountInv, TypeOK
<1>5. ParentInv' /\ SuccessMeansBuilt'
  BY DEF PoolInv, Started, ParentInv, SuccessMeansBuilt, TypeOK
<1> QED
  BY <1>1, <1>2, <1>3, <1>4, <1>5 DEF PoolInv

\* The parent has submitted every class.
LEMMA PSubmitted == ASSUME PoolInv, Submitted PROVE PoolInv'
<1>1. PipeInv' /\ TicketInv' /\ DistinctInv' /\ ResultInv'
  BY Quiet DEF Submitted
<1>2. TypeOK'
  BY DEF PoolInv, Submitted, TypeOK
<1>3. ErrorInv'
  BY DEF PoolInv, Submitted, ErrorInv, Failed
<1>4. CountInv' /\ ParentInv' /\ SuccessMeansBuilt'
  BY DEF PoolInv, Submitted, CountInv, ParentInv, SuccessMeansBuilt, TypeOK
<1> QED
  BY <1>1, <1>2, <1>3, <1>4 DEF PoolInv

\* The tail of compilePending before the wait.
LEMMA PTail == ASSUME PoolInv, TailErrors \/ TailNoMain \/ TailMain PROVE PoolInv'
<1>1. PipeInv' /\ TicketInv' /\ DistinctInv' /\ ResultInv'
  BY Quiet DEF TailErrors, TailNoMain, TailMain
<1>2. TypeOK'
  BY DEF PoolInv, TailErrors, TailNoMain, TailMain, TypeOK
<1>3. ErrorInv'
  BY DEF PoolInv, TailErrors, TailNoMain, TailMain, ErrorInv, Failed
<1>4. CountInv'
  BY DEF PoolInv, TailErrors, TailNoMain, TailMain, CountInv, ParentInv
<1>5. ParentInv' /\ SuccessMeansBuilt'
  BY DEF PoolInv, TailErrors, TailNoMain, TailMain, ParentInv, SuccessMeansBuilt
<1> QED
  BY <1>1, <1>2, <1>3, <1>4, <1>5 DEF PoolInv

\* There are finitely many workers, so they can be counted.
LEMMA WorkersFinite == IsFiniteSet(Workers)
BY FS_Interval

\* count is 0: every forked worker has been waited for.
LEMMA PWaited == ASSUME PoolInv, Waited PROVE PoolInv'
<1>1. PipeInv' /\ TicketInv' /\ DistinctInv' /\ ResultInv'
  BY Quiet DEF Waited
<1>2. TypeOK'
  BY DEF PoolInv, Waited, TypeOK
<1>3. ErrorInv'
  BY DEF PoolInv, Waited, ErrorInv, Failed
<1>4. CountInv'
  <2> DEFINE alive == {w \in Workers : pc[w] \notin {"unborn", "reaped"}}
  <2>1. IsFiniteSet(alive)
    BY WorkersFinite, FS_Subset
  <2>2. size > 1 => Cardinality(alive) = 0
    BY DEF PoolInv, Waited, CountInv
  <2>3. size > 1 => alive = {}
    <3> HIDE DEF alive
    <3> QED
      BY <2>1, <2>2, FS_EmptySet
  <2>4. size = 1 \/ size > 1
    BY DEF PoolInv, TypeOK
  <2>5. size = 1 => \A w \in Workers : pc[w] = "unborn"
    BY DEF PoolInv, CountInv
  <2>6. \A w \in Workers : pc[w] \in {"unborn", "reaped"}
    BY <2>3, <2>4, <2>5
  <2> QED
    BY <2>6 DEF PoolInv, Waited, CountInv
<1>5. ParentInv' /\ SuccessMeansBuilt'
  BY DEF PoolInv, Waited, ParentInv, SuccessMeansBuilt, TypeOK
<1> QED
  BY <1>1, <1>2, <1>3, <1>4, <1>5 DEF PoolInv

(***************************************************************************)
(* Where SuccessMeansBuilt comes from: a parent that links and has seen no *)
(* error has reaped every worker with status 0, so each worker stopped on  *)
(* a ticket past the last class; the tickets of all classes had been read  *)
(* before that one, and what was read has been dealt with.                 *)
(***************************************************************************)
LEMMA BuiltAtLink ==
  ASSUME PoolInv, phase = "link", ~err[Parent]
  PROVE  \A j \in 0 .. submits - 1 : result[j] \in TakenAsBuilt
<1> SUFFICES ASSUME NEW j \in 0 .. submits - 1
             PROVE  result[j] \in TakenAsBuilt
  OBVIOUS
<1>1. j \in Jobs /\ submits \in Nat /\ size \in 1 .. MaxSize
  BY DEF PoolInv, TypeOK
<1>2. result[j] \in Results
  BY <1>1 DEF PoolInv, TypeOK
<1>3. CASE size = 1
  <2>1. result[j] # "none"
    BY <1>1, <1>3 DEF PoolInv, ResultInv, ParentInv
  <2>2. result[j] \notin Failed
    BY <1>1, <1>3 DEF PoolInv, ErrorInv
  <2> QED
    BY <1>2, <2>1, <2>2 DEF Failed, Results, TakenAsBuilt
<1>4. CASE size > 1
  <2>1. \A w \in Workers : pc[w] \in {"unborn", "reaped"}
    BY DEF PoolInv, CountInv
  <2>2. 1 \in Workers /\ pc[1] = "reaped"
    BY <1>1, <1>4, <2>1 DEF PoolInv, CountInv
  <2>3. \A w \in Workers : pc[w] = "reaped" => status[w] = 0 /\ ~err[w]
    BY DEF PoolInv, ErrorInv, TypeOK
  <2>4. ticket[1] >= submits /\ ticket[1] \in 0 .. Head_ - 1
    BY <2>2, <2>3 DEF PoolInv, TicketInv, TicketOK, HasTicket
  <2>5. Head_ \in Int
    BY DEF PoolInv, TypeOK, Head_
  <2>6. j < Head_
    BY <1>1, <2>4, <2>5
  <2>7. result[j] # "none"
    BY <1>1, <1>4, <2>1, <2>6 DEF PoolInv, ResultInv
  <2>8. result[j] \notin Failed
    BY <1>1, <1>4, <2>1, <2>3 DEF PoolInv, ErrorInv
  <2> QED
    BY <1>2, <2>7, <2>8 DEF Failed, Results, TakenAsBuilt
<1> QED
  BY <1>1, <1>3, <1>4

\* linkObjectFiles and main's return.
LEMMA PLink == ASSUME PoolInv, Link PROVE PoolInv'
<1>1. PipeInv' /\ TicketInv' /\ DistinctInv' /\ ResultInv'
  BY Quiet DEF Link
<1>2. TypeOK'
  BY DEF PoolInv, Link, TypeOK
<1>3. ErrorInv'
  BY DEF PoolInv, Link, ErrorInv, Failed
<1>4. CountInv'
  BY DEF PoolInv, Link, CountInv
<1>5. ParentInv'
  BY DEF PoolInv, Link, ParentInv
<1>6. SuccessMeansBuilt'
  <2>1. err[Parent] => code' = 1
    BY DEF Link
  <2>2. code' = 0 => \A j \in 0 .. submits - 1 : result[j] \in TakenAsBuilt
    <3> SUFFICES ASSUME code' = 0
                 PROVE  \A j \in 0 .. submits - 1 : result[j] \in TakenAsBuilt
      OBVIOUS
    <3>1. ~err[Parent]
      BY <2>1
    <3>2. phase = "link"
      BY DEF Link
    <3> QED
      BY <3>1, <3>2, BuiltAtLink
  <2>3. submits' = submits /\ result' = result
    BY DEF Link
  <2> QED
    BY <2>2, <2>3 DEF SuccessMeansBuilt
<1> QED
  BY <1>1, <1>2, <1>3, <1>4, <1>5, <1>6 DEF PoolInv

\* The parent appends the next ticket: the pipe stays consecutive.
LEMMA PWriteTicket == ASSUME PoolInv, WriteTicket PROVE PoolInv'
<1>1. /\ pipe' = Append(pipe, written) /\ written' = written + 1
      /\ pipe \in Seq(Tickets) /\ written \in Tickets /\ written \in Nat
      /\ Len(pipe) \in Nat
  BY DEF PoolInv, WriteTicket, TypeOK
<1>2. pipe' \in Seq(Tickets) /\ Len(pipe') = Len(pipe) + 1
  BY <1>1
<1>3. Head_' = Head_ /\ Head_ \in Int
  BY <1>1, <1>2 DEF Head_
<1>4. TypeOK'
  BY <1>1, <1>2 DEF PoolInv, WriteTicket, TypeOK
<1>5. PipeInv'
  <2>1. \A i \in 1 .. Len(pipe) : pipe'[i] = pipe[i]
    BY <1>1
  <2>2. pipe'[Len(pipe) + 1] = written
    BY <1>1
  <2>3. ASSUME NEW i \in 1 .. Len(pipe') PROVE pipe'[i] = Head_ + i - 1
    <3>1. CASE i \in 1 .. Len(pipe)
      BY <3>1, <2>1 DEF PoolInv, PipeInv
    <3>2. CASE i = Len(pipe) + 1
      BY <3>2, <2>2, <1>1 DEF Head_
    <3> QED
      BY <1>1, <1>2, <3>1, <3>2
  <2> QED
    BY <2>3, <1>1, <1>2, <1>3 DEF PoolInv, PipeInv
<1>6. TicketInv'
  BY <1>3 DEF PoolInv, WriteTicket, TicketInv, TicketOK, HasTicket
<1>7. DistinctInv'
  BY DEF PoolInv, WriteTicket, DistinctInv, HasTicket
<1>8. ResultInv'
  BY <1>3 DEF PoolInv, WriteTicket, ResultInv
<1>9. ErrorInv'
  BY DEF PoolInv, WriteTicket, ErrorInv, Failed
<1>10. CountInv' /\ ParentInv' /\ SuccessMeansBuilt'
  BY DEF PoolInv, WriteTicket, CountInv, ParentInv, SuccessMeansBuilt
<1> QED
  BY <1>4, <1>5, <1>6, <1>7, <1>8, <1>9, <1>10 DEF PoolInv

\* The parent forks worker count + 1.
LEMMA PFork == ASSUME PoolInv, Fork PROVE PoolInv'
<1> DEFINE f == count + 1
<1>1. f \in Workers /\ f # Parent /\ count \in Nat /\ size \in Nat /\ pc[f] = "unborn"
  BY DEF PoolInv, Fork, TypeOK, CountInv
<1>2. /\ \A v \in Workers : pc'[v] = IF v = f THEN "first" ELSE pc[v]
      /\ \A v \in Workers : v # f => err'[v] = err[v]
      /\ err'[Parent] = err[Parent]
      /\ count' = f /\ phase = "start" /\ phase' = "start" /\ size > 1
  BY <1>1 DEF PoolInv, Fork, TypeOK
<1> HIDE DEF f
<1>3. TypeOK'
  BY <1>1 DEF PoolInv, Fork, TypeOK, f
<1>4. PipeInv'
  BY DEF PoolInv, Fork, PipeInv, Head_
<1>5. TicketInv'
  <2> SUFFICES ASSUME NEW v \in Workers PROVE TicketOK(v)'
    BY DEF TicketInv
  <2>1. TicketOK(v)
    BY DEF PoolInv, TicketInv
  <2>2. /\ ticket' = ticket /\ job_number' = job_number /\ status' = status
        /\ submits' = submits /\ Head_' = Head_
    BY DEF Fork, Head_
  <2>3. CASE v = f
    BY <1>1, <1>2, <2>1, <2>2, <2>3 DEF TicketOK, HasTicket
  <2>4. CASE v # f
    BY <1>2, <2>1, <2>2, <2>4 DEF TicketOK, HasTicket
  <2> QED
    BY <2>3, <2>4
<1>6. DistinctInv'
  <2>1. \A v \in Workers : HasTicket(v)' => HasTicket(v)
    BY <1>1, <1>2 DEF HasTicket
  <2>2. ticket' = ticket
    BY DEF Fork
  <2> QED
    BY <2>1, <2>2 DEF PoolInv, DistinctInv
<1>7. ResultInv'
  <2>1. \A v \in Workers : pc'[v] = "walk" <=> pc[v] = "walk"
    BY <1>1, <1>2
  <2> QED
    BY <2>1 DEF PoolInv, Fork, ResultInv, Head_
<1>8. ErrorInv'
  <2>1. \A v \in Workers : pc[v] # "unborn" => pc'[v] = pc[v] /\ err'[v] = err[v]
    BY <1>1, <1>2
  <2>2. \A v \in Workers :
            /\ pc'[v] \in {"exited", "reaped"} <=> pc[v] \in {"exited", "reaped"}
            /\ pc'[v] \in {"exited", "reaped"} => pc[v] = pc'[v] /\ err'[v] = err[v]
    BY <1>1, <1>2
  <2> QED
    BY <1>2, <2>1, <2>2 DEF PoolInv, Fork, ErrorInv, Failed
<1>9. CountInv'
  <2>1. \A v \in Workers : pc'[v] = "unborn" <=> v > f
    BY <1>1, <1>2 DEF PoolInv, CountInv, f
  <2>2. \A v \in Workers : pc'[v] # "reaped"
    BY <1>2 DEF PoolInv, CountInv
  <2>3. size' = size /\ size # 1
    BY <1>2 DEF Fork
  <2> QED
    BY <1>2, <2>1, <2>2, <2>3 DEF CountInv
<1>10. ParentInv' /\ SuccessMeansBuilt'
  BY DEF PoolInv, Fork, ParentInv, SuccessMeansBuilt
<1> QED
  BY <1>3, <1>4, <1>5, <1>6, <1>7, <1>8, <1>9, <1>10 DEF PoolInv

\* The parent waits for one worker and takes over its exit status.
LEMMA PWait == ASSUME PoolInv, NEW w \in Workers, Wait(w) PROVE PoolInv'
<1>1. /\ \A v \in Workers : pc'[v] = IF v = w THEN "reaped" ELSE pc[v]
      /\ \A v \in Workers : err'[v] = err[v]
      /\ err[Parent] => err'[Parent]
      /\ status[w] # 0 => err'[Parent]
      /\ count' = count - 1 /\ phase = "wait" /\ phase' = "wait" /\ pc[w] = "exited"
  <2>1. pc \in [Workers -> Places] /\ err \in [Procs -> BOOLEAN] /\ Parent \in Procs
    BY DEF PoolInv, TypeOK
  <2>2. /\ pc' = [pc EXCEPT ![w] = "reaped"]
        /\ err' = [err EXCEPT ![Parent] = err[Parent] \/ status[w] # 0]
        /\ count' = count - 1 /\ phase = "wait" /\ phase' = "wait" /\ pc[w] = "exited"
    BY DEF Wait
  <2>3. \A v \in Workers : pc'[v] = IF v = w THEN "reaped" ELSE pc[v]
    BY <2>1, <2>2
  <2>4. \A v \in Workers : v \in Procs /\ v # Parent
    OBVIOUS
  <2>5. \A v \in Workers : err'[v] = err[v]
    BY <2>1, <2>2, <2>4
  <2>6. err'[Parent] = (err[Parent] \/ status[w] # 0)
    BY <2>1, <2>2, Zenon
  <2> QED
    BY <2>2, <2>3, <2>5, <2>6
<1>2. TypeOK'
  BY DEF PoolInv, Wait, TypeOK
<1>3. PipeInv'
  BY DEF PoolInv, Wait, PipeInv, Head_
<1>4. TicketInv'
  <2> SUFFICES ASSUME NEW v \in Workers PROVE TicketOK(v)'
    BY DEF TicketInv
  <2>1. TicketOK(v)
    BY DEF PoolInv, TicketInv
  <2>2. /\ ticket' = ticket /\ job_number' = job_number /\ status' = status
        /\ submits' = submits /\ Head_' = Head_
    BY DEF Wait, Head_
  <2> QED
    BY <1>1, <2>1, <2>2 DEF TicketOK, HasTicket
<1>5. DistinctInv'
  <2>1. \A v \in Workers : HasTicket(v)' => HasTicket(v)
    BY <1>1 DEF HasTicket
  <2>2. ticket' = ticket
    BY DEF Wait
  <2> QED
    BY <2>1, <2>2 DEF PoolInv, DistinctInv
<1>6. ResultInv'
  <2>1. \A v \in Workers : pc'[v] = "walk" <=> pc[v] = "walk"
    BY <1>1
  <2> QED
    BY <2>1 DEF PoolInv, Wait, ResultInv, Head_
<1>7. ErrorInv'
  <2>1. \A v \in Workers : pc'[v] = "unborn" <=> pc[v] = "unborn"
    BY <1>1
  <2>2. ASSUME NEW v \in Workers
        PROVE  /\ pc'[v] \notin {"exited", "reaped"} => status[v] = 0
               /\ pc'[v] \in {"exited", "reaped"} /\ err'[v] => status[v] = 1
               /\ pc'[v] = "reaped" /\ status[v] = 1 => err'[Parent]
    BY <1>1 DEF PoolInv, ErrorInv
  <2>3. status' = status /\ result' = result /\ size' = size /\ code' = code
    BY DEF Wait
  <2> QED
    BY <1>1, <2>1, <2>2, <2>3 DEF PoolInv, ErrorInv, Failed
<1>8. CountInv'
  <2> DEFINE alive == {v \in Workers : pc[v] \notin {"unborn", "reaped"}}
  <2>1. IsFiniteSet(alive) /\ w \in alive
    BY <1>1, WorkersFinite, FS_Subset
  <2>2. {v \in Workers : pc'[v] \notin {"unborn", "reaped"}} = alive \ {w}
    BY <1>1
  <2>3. Cardinality(alive \ {w}) = Cardinality(alive) - 1
    <3> HIDE DEF alive
    <3> QED
      BY <2>1, FS_RemoveElement
  <2>4. size' = size /\ size # 1
    BY <1>1 DEF Wait, PoolInv, CountInv
  <2>5. \A v \in Workers : pc'[v] = "unborn" <=> pc[v] = "unborn"
    BY <1>1
  <2>6. size > 1 => count' = Cardinality({v \in Workers : pc'[v] \notin {"unborn", "reaped"}})
    BY <1>1, <2>2, <2>3 DEF PoolInv, CountInv
  <2>7. size > 1 => \A v \in Workers : pc'[v] = "unborn" <=> v > size
    BY <1>1, <2>5 DEF PoolInv, CountInv
  <2> QED
    BY <1>1, <2>4, <2>6, <2>7 DEF CountInv
<1>9. ParentInv' /\ SuccessMeansBuilt'
  BY DEF PoolInv, Wait, ParentInv, SuccessMeansBuilt
<1> QED
  BY <1>2, <1>3, <1>4, <1>5, <1>6, <1>7, <1>8, <1>9 DEF PoolInv

(***************************************************************************)
(* Reading a ticket.  The reader itself holds the write end of the pipe,   *)
(* so read() never answers end of file: it answers the ticket Head_.       *)
(***************************************************************************)
LEMMA TakeTicket ==
  ASSUME PoolInv, NEW w \in Workers, pc[w] \in {"first", "next"},
         ReadTicketNumber(w), UNCHANGED written
  PROVE  /\ Head_ \in Nat /\ Head_ < written
         /\ ticket' = [ticket EXCEPT ![w] = Head_]
         /\ Head_' = Head_ + 1
         /\ pipe' \in Seq(Tickets)
         /\ PipeInv'
<1>1. pipe # << >>
  BY DEF ReadTicketNumber, WriteEnds
<1>2. /\ pipe \in Seq(Tickets) /\ Len(pipe) \in Nat /\ written \in Nat /\ Len(pipe) > 0
      /\ pipe' = Tail(pipe) /\ ticket' = [ticket EXCEPT ![w] = Head(pipe)]
      /\ written' = written
  <2>1. pipe \in Seq(Tickets) /\ written \in Nat
    BY DEF PoolInv, TypeOK
  <2>2. Len(pipe) \in Nat /\ Len(pipe) > 0
    BY <1>1, <2>1
  <2>3. pipe' = Tail(pipe) /\ ticket' = [ticket EXCEPT ![w] = Head(pipe)] /\ written' = written
    BY <1>1 DEF ReadTicketNumber
  <2> QED
    BY <2>1, <2>2, <2>3
<1>3. /\ Len(pipe') = Len(pipe) - 1 /\ pipe' \in Seq(Tickets)
      /\ \A i \in 1 .. Len(pipe') : pipe'[i] = pipe[i + 1]
      /\ Head(pipe) = pipe[1]
  BY <1>2
<1>4. /\ \A i \in 1 .. Len(pipe) : pipe[i] = Head_ + i - 1
      /\ Len(pipe) <= written
  BY DEF PoolInv, PipeInv
<1>5. Head_ \in Nat /\ Head_ < written /\ Head_' = Head_ + 1
  BY <1>2, <1>3, <1>4 DEF Head_
<1>6. Head(pipe) = Head_
  BY <1>2, <1>3, <1>4, <1>5
<1>7. ASSUME NEW i \in 1 .. Len(pipe') PROVE pipe'[i] = Head_' + i - 1
  <2>1. i + 1 \in 1 .. Len(pipe)
    BY <1>2, <1>3
  <2>2. pipe'[i] = Head_ + (i + 1) - 1
    BY <2>1, <1>3, <1>4
  <2> QED
    BY <2>2, <1>5
<1>8. PipeInv'
  BY <1>2, <1>3, <1>4, <1>7 DEF PipeInv
<1> QED
  BY <1>2, <1>3, <1>5, <1>6, <1>8

\* A worker reads a ticket, its first or a later one: nobody else holds it.
LEMMA PTicket ==
  ASSUME PoolInv, NEW w \in Workers, FirstTicket(w) \/ NextTicket(w)
  PROVE  PoolInv'
<1> DEFINE jn == IF pc[w] = "first" THEN 0 ELSE job_number[w] + 1
<1>1. pc[w] \in {"first", "next"} /\ ReadTicketNumber(w) /\ written' = written
  BY DEF FirstTicket, NextTicket
<1>2. /\ Head_ \in Nat /\ Head_ < written
      /\ ticket' = [ticket EXCEPT ![w] = Head_]
      /\ Head_' = Head_ + 1
      /\ pipe' \in Seq(Tickets)
      /\ PipeInv'
  BY <1>1, TakeTicket
<1>3. TicketOK(w) /\ \A v \in Workers : TicketOK(v)
  BY DEF PoolInv, TicketInv
<1>4. jn \in 0 .. submits /\ jn <= Head_ /\ submits \in 1 .. MaxSubmits
  <2>1. submits \in 1 .. MaxSubmits /\ MaxSubmits \in Nat
    BY PoolAssumption DEF PoolInv, TypeOK
  <2>2. CASE pc[w] = "first"
    BY <1>2, <2>1, <2>2
  <2>3. CASE pc[w] = "next"
    <3>1. ticket[w] \in 0 .. Head_ - 1 /\ job_number[w] = ticket[w] /\ ticket[w] < submits
      BY <1>3, <2>3 DEF TicketOK, HasTicket
    <3>2. jn = ticket[w] + 1
      BY <2>3, <3>1
    <3> HIDE DEF jn
    <3> QED
      BY <1>2, <2>1, <3>1, <3>2
  <2> QED
    BY <1>1, <2>2, <2>3
<1>5. /\ \A v \in Workers : pc'[v] = IF v = w THEN "walk" ELSE pc[v]
      /\ \A v \in Workers : ticket'[v] = IF v = w THEN Head_ ELSE ticket[v]
      /\ \A v \in Workers : job_number'[v] = IF v = w THEN jn ELSE job_number[v]
      /\ job_number'[Parent] = job_number[Parent]
  <2>1. /\ pc \in [Workers -> Places] /\ job_number \in [Procs -> 0 .. MaxSubmits]
        /\ ticket \in [Workers -> Tickets \cup {NoTicket}]
        /\ w \in Procs /\ Parent \in Procs /\ w # Parent
    BY DEF PoolInv, TypeOK
  <2>2. pc' = [pc EXCEPT ![w] = "walk"]
    BY DEF FirstTicket, NextTicket
  <2>3. job_number' = [job_number EXCEPT ![w] = jn]
    <3>1. CASE FirstTicket(w)
      <4>1. jn = job_number[w] /\ job_number' = job_number
        BY <3>1, <1>3 DEF FirstTicket, TicketOK, HasTicket
      <4> QED
        BY <4>1, <2>1
    <3>2. CASE NextTicket(w)
      BY <3>2 DEF NextTicket
    <3> QED
      BY <3>1, <3>2
  <2>4. \A v \in Workers : v \in Procs
    OBVIOUS
  <2>5. \A v \in Workers : pc'[v] = IF v = w THEN "walk" ELSE pc[v]
    BY <2>1, <2>2
  <2>6. \A v \in Workers : ticket'[v] = IF v = w THEN Head_ ELSE ticket[v]
    BY <2>1, <1>2
  <2> HIDE DEF jn
  <2>7. /\ \A v \in Workers : job_number'[v] = IF v = w THEN jn ELSE job_number[v]
        /\ job_number'[Parent] = job_number[Parent]
    BY <2>1, <2>3, <2>4
  <2> QED
    BY <2>5, <2>6, <2>7
<1>6. /\ UNCHANGED <<size, submits, job_count, phase, count, err, compiled, result, runs,
                     status, exe, code>>
  BY DEF FirstTicket, NextTicket
<1> HIDE DEF jn
<1>7. size > 1
  BY <1>1 DEF PoolInv, CountInv, TypeOK
<1>8. TypeOK'
  <2>1. Head_ \in Tickets
    BY <1>2 DEF PoolInv, TypeOK
  <2>2. pc' \in [Workers -> Places] /\ ticket' \in [Workers -> Tickets \cup {NoTicket}]
    BY <1>2, <2>1 DEF PoolInv, TypeOK, FirstTicket, NextTicket
  <2>3. job_number' \in [Procs -> 0 .. MaxSubmits]
    <3>1. job_number' = job_number \/ job_number' = [job_number EXCEPT ![w] = jn]
      BY DEF FirstTicket, NextTicket, jn
    <3>2. jn \in 0 .. MaxSubmits
      BY <1>4
    <3> QED
      BY <3>1, <3>2 DEF PoolInv, TypeOK
  <2> QED
    BY <1>1, <1>2, <1>6, <2>2, <2>3 DEF PoolInv, TypeOK
<1>9. TicketInv'
  <2> SUFFICES ASSUME NEW v \in Workers PROVE TicketOK(v)'
    BY DEF TicketInv
  <2>1. CASE v = w
    BY <1>2, <1>4, <1>5, <1>6, <2>1 DEF TicketOK, HasTicket
  <2>2. CASE v # w
    BY <1>2, <1>3, <1>5, <1>6, <2>2 DEF TicketOK, HasTicket
  <2> QED
    BY <2>1, <2>2
<1>10. DistinctInv'
  <2>1. \A v \in Workers : v # w /\ HasTicket(v)' => HasTicket(v) /\ ticket'[v] = ticket[v]
    BY <1>5 DEF HasTicket
  <2>2. \A v \in Workers : HasTicket(v) => ticket[v] # Head_
    BY <1>2, <1>3 DEF TicketOK
  <2> QED
    BY <1>5, <2>1, <2>2 DEF PoolInv, DistinctInv
<1>11. ResultInv'
  <2> SUFFICES ASSUME NEW j \in Jobs
               PROVE  /\ runs[j] = IF result[j] = "none" THEN 0 ELSE 1
                      /\ result[j] # "none" => j < Head_ + 1
                      /\ j < Head_ + 1 /\ j < submits =>
                            (result[j] = "none" <=>
                                \E v \in Workers : pc'[v] = "walk" /\ ticket'[v] = j)
    BY <1>2, <1>6, <1>7 DEF ResultInv
  <2>1. /\ runs[j] = IF result[j] = "none" THEN 0 ELSE 1
        /\ result[j] # "none" => j < Head_
        /\ j < Head_ /\ j < submits =>
              (result[j] = "none" <=> \E v \in Workers : pc[v] = "walk" /\ ticket[v] = j)
    BY <1>7 DEF PoolInv, ResultInv
  <2>2. CASE j = Head_
    BY <1>2, <1>5, <2>1, <2>2
  <2>3. CASE j < Head_
    <3>1. \A v \in Workers : pc'[v] = "walk" /\ ticket'[v] = j <=> pc[v] = "walk" /\ ticket[v] = j
      BY <1>1, <1>2, <1>5, <2>3
    <3> QED
      BY <1>2, <2>1, <2>3, <3>1
  <2> QED
    BY <1>2, <2>1, <2>2, <2>3
<1>12. ErrorInv'
  <2>1. \A v \in Workers : pc'[v] = "unborn" <=> pc[v] = "unborn"
    BY <1>1, <1>5
  <2>2. \A v \in Workers :
            /\ pc'[v] \in {"exited", "reaped"} <=> pc[v] \in {"exited", "reaped"}
            /\ pc'[v] \in {"exited", "reaped"} => pc[v] = pc'[v]
    BY <1>1, <1>5
  <2> QED
    BY <1>6, <2>1, <2>2 DEF PoolInv, ErrorInv, Failed
<1>13. CountInv'
  <2>1. \A v \in Workers : pc'[v] = "unborn" <=> pc[v] = "unborn"
    BY <1>1, <1>5
  <2>2. \A v \in Workers : pc'[v] = "reaped" <=> pc[v] = "reaped"
    BY <1>1, <1>5
  <2>3. {v \in Workers : pc'[v] \notin {"unborn", "reaped"}}
          = {v \in Workers : pc[v] \notin {"unborn", "reaped"}}
    BY <2>1, <2>2
  <2> QED
    BY <1>6, <2>1, <2>2, <2>3 DEF PoolInv, CountInv
<1>14. ParentInv' /\ SuccessMeansBuilt'
  BY <1>5, <1>6 DEF PoolInv, ParentInv, SuccessMeansBuilt
<1> QED
  BY <1>2, <1>8, <1>9, <1>10, <1>11, <1>12, <1>13, <1>14 DEF PoolInv

\* A worker stops with a ticket that names no class.
LEMMA PWorkerExit == ASSUME PoolInv, NEW w \in Workers, WorkerExit(w) PROVE PoolInv'
<1>1. /\ \A v \in Workers : pc'[v] = IF v = w THEN "exited" ELSE pc[v]
      /\ \A v \in Workers : v # w => status'[v] = status[v]
      /\ status'[w] \in {0, 1}
      /\ status'[w] = 0 => ~err[w]
      /\ pc[w] = "walk" /\ job_number[w] = submits
  BY DEF PoolInv, WorkerExit, TypeOK
<1>2. UNCHANGED <<size, submits, job_count, phase, count, written, pipe, ticket, job_number, err,
                  compiled, result, runs, exe, code>>
  BY DEF WorkerExit
<1>3. TypeOK'
  BY DEF PoolInv, WorkerExit, TypeOK
<1>4. PipeInv' /\ Head_' = Head_
  BY <1>2 DEF PoolInv, PipeInv, Head_
<1>5. TicketInv'
  <2> SUFFICES ASSUME NEW v \in Workers PROVE TicketOK(v)'
    BY DEF TicketInv
  <2>1. TicketOK(v) /\ TicketOK(w)
    BY DEF PoolInv, TicketInv
  <2>2. CASE v = w
    BY <1>1, <1>2, <1>4, <2>1, <2>2 DEF TicketOK, HasTicket
  <2>3. CASE v # w
    BY <1>1, <1>2, <1>4, <2>1, <2>3 DEF TicketOK, HasTicket
  <2> QED
    BY <2>2, <2>3
<1>6. DistinctInv'
  <2>1. \A v \in Workers : HasTicket(v)' <=> HasTicket(v)
    BY <1>1 DEF HasTicket
  <2> QED
    BY <1>2, <2>1 DEF PoolInv, DistinctInv
<1>7. ResultInv'
  <2> SUFFICES ASSUME NEW j \in Jobs, j < submits
               PROVE  (\E v \in Workers : pc'[v] = "walk" /\ ticket[v] = j) <=>
                          (\E v \in Workers : pc[v] = "walk" /\ ticket[v] = j)
    BY <1>2, <1>4 DEF PoolInv, ResultInv
  <2>1. ticket[w] >= submits /\ ticket[w] \in Int /\ submits \in Int /\ j \in Int
    BY <1>1 DEF PoolInv, TypeOK, TicketInv, TicketOK
  <2>2. ticket[w] # j
    BY <2>1
  <2> QED
    BY <1>1, <2>2
<1>8. ErrorInv'
  <2>1. \A v \in Workers : pc'[v] = "unborn" <=> pc[v] = "unborn"
    BY <1>1
  <2>2. ASSUME NEW v \in Workers
        PROVE  /\ pc'[v] \notin {"exited", "reaped"} => status'[v] = 0
               /\ pc'[v] \in {"exited", "reaped"} /\ err[v] => status'[v] = 1
               /\ pc'[v] = "reaped" /\ status'[v] = 1 => err[Parent]
    BY <1>1 DEF PoolInv, ErrorInv
  <2>3. ASSUME NEW v \in Workers, pc[v] # "unborn", err[v] \/ status[v] = 1
        PROVE  \E u \in Workers : pc'[u] # "unborn" /\ (err[u] \/ status'[u] = 1)
    <3>1. CASE v = w
      BY <1>1, <2>1, <2>3, <3>1 DEF PoolInv, ErrorInv
    <3>2. CASE v # w
      BY <1>1, <2>1, <2>3, <3>2
    <3> QED
      BY <3>1, <3>2
  <2> QED
    BY <1>2, <2>2, <2>3 DEF PoolInv, ErrorInv, Failed
<1>9. CountInv'
  <2>1. \A v \in Workers : pc'[v] = "unborn" <=> pc[v] = "unborn"
    BY <1>1
  <2>2. \A v \in Workers : pc'[v] = "reaped" <=> pc[v] = "reaped"
    BY <1>1
  <2>3. {v \in Workers : pc'[v] \notin {"unborn", "reaped"}}
          = {v \in Workers : pc[v] \notin {"unborn", "reaped"}}
    BY <2>1, <2>2
  <2>4. ~(phase = "link" \/ (phase = "exit" /\ code = 0))
    BY <1>1 DEF PoolInv, CountInv
  <2> QED
    BY <1>2, <2>1, <2>2, <2>3, <2>4 DEF PoolInv, CountInv
<1>10. ParentInv' /\ SuccessMeansBuilt'
  BY <1>2 DEF PoolInv, ParentInv, SuccessMeansBuilt
<1> QED
  BY <1>3, <1>4, <1>5, <1>6, <1>7, <1>8, <1>9, <1>10 DEF PoolInv

\* compile2's outcome is recorded as one of the known results.
LEMMA ProcessedTypes ==
  ASSUME TypeOK, NEW p \in Procs, NEW j \in Jobs, NEW r \in Results, Processed(p, j, r)
  PROVE  result' \in [Jobs -> Results] /\ runs' \in [Jobs -> Nat]
<1>1. result \in [Jobs -> Results] /\ runs \in [Jobs -> Nat] /\ runs[j] \in Nat
  BY DEF TypeOK
<1>2. result' = [result EXCEPT ![j] = r] /\ runs' = [runs EXCEPT ![j] = runs[j] + 1]
  BY DEF Processed
<1>3. runs[j] + 1 \in Nat
  BY <1>1
<1> HIDE DEF Jobs, Results
<1> QED
  BY <1>1, <1>2, <1>3

\* A worker processes the class its ticket names.
LEMMA PSubmitMine == ASSUME PoolInv, NEW w \in Workers, SubmitMine(w) PROVE PoolInv'
<1> DEFINE t == ticket[w]
<1>1. /\ pc[w] = "walk" /\ t = job_number[w] /\ t < submits /\ t \in Jobs
      /\ t < Head_ /\ TicketOK(w) /\ w \in Procs /\ w # Parent
  <2>1. pc[w] = "walk" /\ t = job_number[w] /\ job_number[w] < submits
    BY DEF SubmitMine
  <2>2. /\ submits \in 1 .. MaxSubmits /\ w \in Procs /\ w # Parent
        /\ written \in Nat /\ Len(pipe) \in Nat
    BY DEF PoolInv, TypeOK
  <2>3. TicketOK(w)
    BY DEF PoolInv, TicketInv
  <2>4. t \in 0 .. Head_ - 1 /\ Head_ \in Int
    BY <2>1, <2>2, <2>3 DEF TicketOK, HasTicket, Head_
  <2> HIDE DEF t
  <2> QED
    BY <2>1, <2>2, <2>3, <2>4
<1>2. PICK r \in Results :
        /\ Processed(w, t, r)
        /\ pc' = [pc EXCEPT ![w] = IF r = "thrown" THEN "exited" ELSE "next"]
        /\ status' = [status EXCEPT ![w] = IF r = "thrown" THEN 1 ELSE status[w]]
  BY <1>1 DEF SubmitMine
<1>3. UNCHANGED <<size, submits, job_count, phase, count, written, pipe, ticket, job_number, exe,
                  code>>
  BY DEF SubmitMine
<1>4. size > 1
  BY <1>1 DEF PoolInv, CountInv, TypeOK
<1> HIDE DEF t
<1>5. /\ r # "none"
      /\ \A j \in Jobs : result'[j] = IF j = t THEN r ELSE result[j]
      /\ \A j \in Jobs : runs'[j] = IF j = t THEN runs[j] + 1 ELSE runs[j]
  BY <1>1, <1>2 DEF PoolInv, TypeOK, Processed
<1>6. /\ \A v \in Workers : v # w => pc'[v] = pc[v] /\ status'[v] = status[v]
      /\ r = "thrown" => pc'[w] = "exited" /\ status'[w] = 1
      /\ r # "thrown" => pc'[w] = "next" /\ status'[w] = status[w]
  BY <1>2 DEF PoolInv, TypeOK
<1>7. /\ \A v \in Procs : v # w => err'[v] = err[v]
      /\ err[w] => err'[w]
      /\ r = "error" => err'[w]
      /\ r = "skipped" => err[w]
  <2>1. err \in [Procs -> BOOLEAN] /\ err' = [err EXCEPT ![w] = err[w] \/ r = "error"]
    BY <1>2 DEF PoolInv, TypeOK, Processed
  <2>2. err'[w] = (err[w] \/ r = "error")
    BY <1>1, <2>1, Zenon
  <2>3. r = "skipped" => err[w]
    BY <1>2 DEF Processed
  <2> QED
    BY <1>1, <2>1, <2>2, <2>3
<1>8. TypeOK'
  <2>1. err' \in [Procs -> BOOLEAN] /\ compiled' \in [Procs -> BOOLEAN]
    BY <1>2 DEF PoolInv, TypeOK, Processed
  <2>2. result' \in [Jobs -> Results] /\ runs' \in [Jobs -> Nat]
    <3>1. TypeOK /\ w \in Procs
      BY <1>1 DEF PoolInv
    <3> QED
      BY <1>1, <1>2, <3>1, ProcessedTypes
  <2>3. pc' \in [Workers -> Places] /\ status' \in [Workers -> {0, 1}]
    BY <1>2 DEF PoolInv, TypeOK
  <2> QED
    BY <1>3, <2>1, <2>2, <2>3 DEF PoolInv, TypeOK
<1>9. PipeInv' /\ Head_' = Head_
  BY <1>3 DEF PoolInv, PipeInv, Head_
<1>10. TicketInv'
  <2> SUFFICES ASSUME NEW v \in Workers PROVE TicketOK(v)'
    BY DEF TicketInv
  <2>1. TicketOK(v)
    BY DEF PoolInv, TicketInv
  <2>2. CASE v = w
    BY <1>1, <1>3, <1>6, <1>9, <2>1, <2>2 DEF TicketOK, HasTicket, t
  <2>3. CASE v # w
    BY <1>3, <1>6, <1>9, <2>1, <2>3 DEF TicketOK, HasTicket
  <2> QED
    BY <2>2, <2>3
<1>11. DistinctInv'
  <2>1. \A v \in Workers : HasTicket(v)' <=> HasTicket(v)
    BY <1>1, <1>6 DEF HasTicket
  <2> QED
    BY <1>3, <2>1 DEF PoolInv, DistinctInv
<1>12. ResultInv'
  <2> SUFFICES ASSUME NEW j \in Jobs
               PROVE  /\ runs'[j] = IF result'[j] = "none" THEN 0 ELSE 1
                      /\ result'[j] # "none" => j < Head_
                      /\ j < Head_ /\ j < submits =>
                            (result'[j] = "none" <=>
                                \E v \in Workers : pc'[v] = "walk" /\ ticket[v] = j)
    BY <1>3, <1>4, <1>9 DEF ResultInv
  <2>1. /\ runs[j] = IF result[j] = "none" THEN 0 ELSE 1
        /\ result[j] # "none" => j < Head_
        /\ j < Head_ /\ j < submits =>
              (result[j] = "none" <=> \E v \in Workers : pc[v] = "walk" /\ ticket[v] = j)
    BY <1>4 DEF PoolInv, ResultInv
  <2>2. CASE j = t
    <3>1. result[j] = "none" /\ runs[j] = 0
      BY <1>1, <2>1, <2>2 DEF t
    <3>2. \A v \in Workers : v # w /\ pc[v] = "walk" => ticket[v] # t
      BY <1>1 DEF PoolInv, DistinctInv, HasTicket, t
    <3>3. pc'[w] # "walk"
      BY <1>6
    <3>4. ~ \E v \in Workers : pc'[v] = "walk" /\ ticket[v] = j
      BY <1>6, <2>2, <3>2, <3>3
    <3> QED
      BY <1>1, <1>5, <2>2, <3>1, <3>4
  <2>3. CASE j # t
    <3>1. \A v \in Workers : pc'[v] = "walk" /\ ticket[v] = j <=> pc[v] = "walk" /\ ticket[v] = j
      BY <1>6, <2>3 DEF t
    <3> QED
      BY <1>5, <2>1, <2>3, <3>1
  <2> QED
    BY <2>2, <2>3
<1>13. ErrorInv'
  <2>1. \A v \in Workers : pc'[v] = "unborn" <=> pc[v] = "unborn"
    BY <1>1, <1>6
  <2>2. ASSUME NEW v \in Workers
        PROVE  /\ pc'[v] \notin {"exited", "reaped"} => status'[v] = 0
               /\ pc'[v] \in {"exited", "reaped"} /\ err'[v] => status'[v] = 1
               /\ pc'[v] = "reaped" /\ status'[v] = 1 => err'[Parent]
    <3>1. v \in Procs /\ Parent \in Procs
      OBVIOUS
    <3>2. CASE v = w
      BY <1>1, <1>6, <3>1, <3>2 DEF PoolInv, ErrorInv
    <3>3. CASE v # w
      BY <1>1, <1>6, <1>7, <3>1, <3>3 DEF PoolInv, ErrorInv
    <3> QED
      BY <3>2, <3>3
  <2>3. ASSUME NEW j \in Jobs, result'[j] \in Failed
        PROVE  \E v \in Workers : pc'[v] # "unborn" /\ (err'[v] \/ status'[v] = 1)
    <3>1. CASE j = t
      <4>1. r \in Failed
        BY <1>5, <2>3, <3>1
      <4>2. err'[w] \/ status'[w] = 1
        BY <1>6, <1>7, <4>1 DEF Failed
      <4> QED
        BY <1>1, <2>1, <4>2
    <3>2. CASE j # t
      <4>1. PICK v \in Workers : pc[v] # "unborn" /\ (err[v] \/ status[v] = 1)
        BY <1>4, <1>5, <2>3, <3>2 DEF PoolInv, ErrorInv
      <4>2. v \in Procs
        OBVIOUS
      <4>3. err[v] => err'[v]
        BY <1>7, <4>2
      <4>4. status[v] = 1 => status'[v] = 1
        BY <1>6
      <4> QED
        BY <2>1, <4>1, <4>3, <4>4
    <3> QED
      BY <3>1, <3>2
  <2>4. size' # 1
    BY <1>3, <1>4
  <2> QED
    BY <2>2, <2>3, <2>4 DEF ErrorInv
<1>14. CountInv'
  <2>1. \A v \in Workers : pc'[v] = "unborn" <=> pc[v] = "unborn"
    BY <1>1, <1>6
  <2>2. \A v \in Workers : pc'[v] = "reaped" <=> pc[v] = "reaped"
    BY <1>1, <1>6
  <2>3. {v \in Workers : pc'[v] \notin {"unborn", "reaped"}}
          = {v \in Workers : pc[v] \notin {"unborn", "reaped"}}
    BY <2>1, <2>2
  <2>4. ~(phase = "link" \/ (phase = "exit" /\ code = 0))
    BY <1>1 DEF PoolInv, CountInv
  <2> QED
    BY <1>3, <2>1, <2>2, <2>3, <2>4 DEF PoolInv, CountInv
<1>15. ParentInv'
  BY <1>3 DEF PoolInv, ParentInv
<1>16. SuccessMeansBuilt'
  <2>1. ~(phase = "exit" /\ code = 0)
    BY <1>1 DEF PoolInv, CountInv
  <2> QED
    BY <1>3, <2>1 DEF SuccessMeansBuilt
<1> QED
  BY <1>8, <1>9, <1>10, <1>11, <1>12, <1>13, <1>14, <1>15, <1>16 DEF PoolInv

\* Without workers the parent processes the class.
LEMMA PSubmitDirect == ASSUME PoolInv, SubmitDirect PROVE PoolInv'
<1> DEFINE t == job_number[Parent]
<1>1. /\ size = 1 /\ t < submits /\ t \in Jobs /\ phase = "submit" /\ Parent \in Procs
      /\ code = 0 /\ \A v \in Workers : pc[v] = "unborn"
  BY DEF PoolInv, SubmitDirect, TypeOK, ParentInv, CountInv
<1>2. PICK r \in Results :
        /\ Processed(Parent, t, r)
        /\ phase' = IF r = "thrown" THEN "exit" ELSE phase
        /\ code' = IF r = "thrown" THEN 1 ELSE code
  BY DEF SubmitDirect
<1>3. /\ job_number' = [job_number EXCEPT ![Parent] = t + 1]
      /\ UNCHANGED <<size, submits, job_count, count, written, pipe, pc, ticket, status, exe>>
  BY DEF SubmitDirect
<1>4. t \in Nat /\ submits \in 1 .. MaxSubmits
  BY <1>1 DEF PoolInv, TypeOK
<1>5. job_number'[Parent] = t + 1 /\ \A v \in Workers : job_number'[v] = job_number[v]
  BY <1>1, <1>3 DEF PoolInv, TypeOK
<1> HIDE DEF t
<1>6. /\ r # "none"
      /\ \A j \in Jobs : result'[j] = IF j = t THEN r ELSE result[j]
      /\ \A j \in Jobs : runs'[j] = IF j = t THEN runs[j] + 1 ELSE runs[j]
  BY <1>1, <1>2 DEF PoolInv, TypeOK, Processed
<1>7. /\ \A v \in Workers : err'[v] = err[v]
      /\ err[Parent] => err'[Parent]
      /\ r \in {"error", "skipped"} => err'[Parent]
  <2>1. err \in [Procs -> BOOLEAN] /\ err' = [err EXCEPT ![Parent] = err[Parent] \/ r = "error"]
    BY <1>2 DEF PoolInv, TypeOK, Processed
  <2>2. err'[Parent] = (err[Parent] \/ r = "error")
    BY <1>1, <2>1, Zenon
  <2>3. r = "skipped" => err[Parent]
    BY <1>2 DEF Processed
  <2>4. \A v \in Workers : v \in Procs /\ v # Parent
    OBVIOUS
  <2>5. \A v \in Workers : err'[v] = err[v]
    BY <2>1, <2>4
  <2> QED
    BY <2>2, <2>3, <2>5
<1>8. TypeOK'
  <2>1. err' \in [Procs -> BOOLEAN] /\ compiled' \in [Procs -> BOOLEAN]
    BY <1>2 DEF PoolInv, TypeOK, Processed
  <2>2. result' \in [Jobs -> Results] /\ runs' \in [Jobs -> Nat]
    <3>1. TypeOK /\ Parent \in Procs
      BY <1>1 DEF PoolInv
    <3> QED
      BY <1>1, <1>2, <3>1, ProcessedTypes
  <2>3. job_number' \in [Procs -> 0 .. MaxSubmits]
    BY <1>1, <1>3, <1>4 DEF PoolInv, TypeOK
  <2>4. phase' \in Phases /\ code' \in {0, 1}
    BY <1>1, <1>2
  <2> QED
    BY <1>3, <2>1, <2>2, <2>3, <2>4 DEF PoolInv, TypeOK
<1>9. PipeInv' /\ DistinctInv'
  BY <1>3 DEF PoolInv, PipeInv, DistinctInv, Head_, HasTicket
<1>10. TicketInv'
  BY <1>1, <1>3, <1>5 DEF PoolInv, TicketInv, TicketOK, Head_, HasTicket
<1>11. ResultInv'
  <2> SUFFICES ASSUME NEW j \in Jobs
               PROVE  /\ runs'[j] = IF result'[j] = "none" THEN 0 ELSE 1
                      /\ result'[j] # "none" <=> j < t + 1
    BY <1>1, <1>3, <1>5 DEF ResultInv
  <2>1. /\ runs[j] = IF result[j] = "none" THEN 0 ELSE 1
        /\ result[j] # "none" <=> j < t
    BY <1>1 DEF PoolInv, ResultInv, t
  <2> QED
    BY <1>4, <1>6, <2>1
<1>12. ErrorInv'
  <2>1. ASSUME NEW j \in Jobs, result'[j] \in Failed
        PROVE  err'[Parent] \/ (phase' = "exit" /\ code' = 1)
    <3>1. CASE j = t
      BY <1>2, <1>6, <1>7, <2>1, <3>1 DEF Failed
    <3>2. CASE j # t
      BY <1>1, <1>6, <1>7, <2>1, <3>2 DEF PoolInv, ErrorInv
    <3> QED
      BY <3>1, <3>2
  <2> QED
    BY <1>1, <1>3, <1>7, <2>1 DEF PoolInv, ErrorInv
<1>13. CountInv'
  BY <1>1, <1>2, <1>3 DEF PoolInv, CountInv
<1>14. ParentInv' /\ SuccessMeansBuilt'
  BY <1>1, <1>2, <1>3, <1>4, <1>5 DEF PoolInv, ParentInv, SuccessMeansBuilt
<1> QED
  BY <1>8, <1>9, <1>10, <1>11, <1>12, <1>13, <1>14 DEF PoolInv

\* A step of something else.
LEMMA PStutter == ASSUME PoolInv, UNCHANGED vars PROVE PoolInv'
<1>1. PipeInv' /\ TicketInv' /\ DistinctInv' /\ ResultInv'
  BY Quiet DEF vars
<1>2. TypeOK'
  BY DEF PoolInv, vars, TypeOK
<1>3. ErrorInv'
  BY DEF PoolInv, vars, ErrorInv, Failed
<1>4. CountInv' /\ ParentInv' /\ SuccessMeansBuilt'
  BY DEF PoolInv, vars, CountInv, ParentInv, SuccessMeansBuilt
<1> QED
  BY <1>1, <1>2, <1>3, <1>4 DEF PoolInv

\* Every step preserves PoolInv.
LEMMA PNext == PoolInv /\ [Next]_vars => PoolInv'
<1> SUFFICES ASSUME PoolInv, [Next]_vars PROVE PoolInv'
  OBVIOUS
<1>1. CASE ParentNext
  BY <1>1, PFork, PForkFails, PWriteTicket, PStarted, PSubmitDirect, PSubmitted, PTail,
     PWait, PWaited, PLink DEF ParentNext
<1>2. CASE \E w \in Workers : WorkerNext(w)
  BY <1>2, PTicket, PSubmitOther, PSubmitMine, PWorkerExit DEF WorkerNext
<1>3. CASE UNCHANGED vars
  BY <1>3, PStutter
<1> QED
  BY <1>1, <1>2, <1>3 DEF Next

\* PoolInv holds in every state of every build: tickets, jobs, exit statuses and
\* the parent's count of workers agree, whatever the interleaving of the
\* processes and the sizes of the pool, the pipe and the class list.
THEOREM PoolInvHolds == Spec => []PoolInv
BY PInit, PNext, PTL DEF Spec

\* Every variable keeps its type: in particular no worker's position runs past
\* the list of classes and count never leaves 0 .. size.
THEOREM TypeCorrect == Spec => []TypeOK
<1>1. PoolInv => TypeOK
  BY DEF PoolInv
<1> QED
  BY <1>1, PoolInvHolds, PTL

\* ProcessPool.submit hands each class to at most one process.
THEOREM NoJobTwice == Spec => []JobsOnce
<1>1. PoolInv => JobsOnce
  <2> SUFFICES ASSUME PoolInv, NEW j \in Jobs PROVE runs[j] <= 1
    BY DEF JobsOnce
  <2>1. runs[j] = IF result[j] = "none" THEN 0 ELSE 1
    BY DEF PoolInv, ResultInv
  <2> QED
    BY <2>1
<1> QED
  BY <1>1, PoolInvHolds, PTL

\* lc reports success only when every class was found current, was written, or
\* was lost to a failure that nothing in the code looks at: a killed llc or as,
\* or bitcode that could not be written.
THEOREM ExitZeroIsBuilt == Spec => []SuccessMeansBuilt
<1>1. PoolInv => SuccessMeansBuilt
  BY DEF PoolInv
<1> QED
  BY <1>1, PoolInvHolds, PTL

\* ProcessPool.wait returns only when no worker is left.
THEOREM LinkIsQuiet == Spec => []QuietAtLink
<1>1. PoolInv => QuietAtLink
  BY DEF PoolInv, CountInv, QuietAtLink
<1> QED
  BY <1>1, PoolInvHolds, PTL
=============================================================================
