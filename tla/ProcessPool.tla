---------------------------- MODULE ProcessPool ----------------------------
(***************************************************************************)
(* The parallel build of lc -j<N> (src/compilestate.l): one parent and     *)
(* WantJobs forked workers that all walk the same list of classes, and a   *)
(* pipe of ticket numbers that says which worker compiles which class.     *)
(*                                                                         *)
(* The parent forks the workers, writes the tickets 0 .. job_count-1 into  *)
(* the pipe, and then runs the tail of compilePending: wait for the        *)
(* workers, link, exit.  A worker holds one ticket at a time; it walks the *)
(* classes in order, compiles the one whose number is its ticket and only  *)
(* then reads another ticket.  job_count is master_class_list.Length,      *)
(* which counts generic templates too, while only classes and template     *)
(* instances are submitted: job_count - submits tickets match no class.    *)
(***************************************************************************)
EXTENDS Integers, Sequences, FiniteSets

CONSTANTS MaxSize,     \* largest -j considered
          MaxSubmits,  \* most classes and template instances submitted
          MaxSpare,    \* most generic templates in master_class_list
          Spares,      \* the numbers of generic templates considered
          PipeCap,     \* tickets the pipe holds before a write blocks
          ForceLink    \* WantForceLink (-f)

ASSUME PoolAssumption ==
    /\ MaxSize \in Nat \ {0}
    /\ MaxSubmits \in Nat \ {0}
    /\ MaxSpare \in Nat
    /\ Spares \subseteq 0 .. MaxSpare
    /\ PipeCap \in Nat \ {0}
    /\ ForceLink \in BOOLEAN

Parent == 0
Workers == 1 .. MaxSize
Procs == 0 .. MaxSize
Jobs == 0 .. MaxSubmits - 1
Tickets == 0 .. MaxSubmits + MaxSpare - 1

NoTicket == -1          \* readTicketNumber's answer at end of file

VARIABLES
    size,       \* WantJobs
    submits,    \* number of CompileClass work items every process walks
    job_count,  \* master_class_list.Length when the pool was created
    phase,      \* where the parent is in compilePending
    count,      \* ProcessPool.count: forked and not yet waited for
    written,    \* next ticket number writeTicketNumbers will write
    pipe,       \* tickets in the pipe, oldest first
    pc,         \* where each worker is in start()/submit()
    ticket,     \* each worker's ticket
    job_number, \* each process's position in the list of classes
    err,        \* errors_occurred of each process
    compiled,   \* CompileClassCount > 0 in each process
    status,     \* exit status of each worker that has exited
    result,     \* what became of each class
    runs,       \* how often each class was processed (history)
    exe,        \* the output executable
    code        \* exit code of the parent

conf == <<size, submits, job_count>>
outcome == <<compiled, result, runs>>
vars == <<conf, phase, count, written, pipe, pc, ticket, job_number, err,
          outcome, status, exe, code>>

Phases == {"start", "submit", "tail", "wait", "link", "exit", "nomain"}
Places == {"unborn", "first", "walk", "next", "exited", "reaped"}
Results == {"none", "written", "lost", "current", "skipped", "error", "thrown"}
Executables == {"absent", "old", "new"}

TypeOK ==
    /\ size \in 1 .. MaxSize
    /\ submits \in 1 .. MaxSubmits
    /\ job_count \in submits .. submits + MaxSpare
    /\ phase \in Phases
    /\ count \in 0 .. size
    /\ written \in 0 .. job_count
    /\ pipe \in Seq(Tickets)
    /\ pc \in [Workers -> Places]
    /\ ticket \in [Workers -> Tickets \cup {NoTicket}]
    /\ job_number \in [Procs -> 0 .. MaxSubmits]
    /\ err \in [Procs -> BOOLEAN]
    /\ compiled \in [Procs -> BOOLEAN]
    /\ status \in [Workers -> {0, 1}]
    /\ result \in [Jobs -> Results]
    /\ runs \in [Jobs -> Nat]
    /\ exe \in Executables
    /\ code \in {0, 1}

(***************************************************************************)
(* The state when the first class is submitted.  The passes before code    *)
(* generation may already have reported errors; they do not stop the build *)
(* and every forked worker inherits errors_occurred.                       *)
(***************************************************************************)
Init ==
    /\ size \in 1 .. MaxSize
    /\ submits \in 1 .. MaxSubmits
    /\ job_count \in {submits + s : s \in Spares}
    /\ phase = "start"
    /\ count = 0
    /\ written = 0
    /\ pipe = << >>
    /\ pc = [w \in Workers |-> "unborn"]
    /\ ticket = [w \in Workers |-> NoTicket]
    /\ job_number = [p \in Procs |-> 0]
    /\ \E reported \in BOOLEAN : err = [p \in Procs |-> reported]
    /\ compiled = [p \in Procs |-> FALSE]
    /\ status = [w \in Workers |-> 0]
    /\ result = [j \in Jobs |-> "none"]
    /\ runs = [j \in Jobs |-> 0]
    /\ exe \in {"absent", "old"}
    /\ code = 0

-----------------------------------------------------------------------------
(* ProcessPool.start, in the parent *)

\* Mutant: the fork loop runs once too often.
Fork_OneMore ==
    /\ phase = "start"
    /\ size > 1
    /\ count <= size
    /\ pc' = [pc EXCEPT ![count + 1] = "first"]
    /\ err' = [err EXCEPT ![count + 1] = err[Parent]]
    /\ count' = count + 1
    /\ UNCHANGED <<conf, phase, written, pipe, ticket, job_number, outcome,
                   status, exe, code>>

Fork ==
    /\ phase = "start"
    /\ size > 1
    /\ count < size
    /\ pc' = [pc EXCEPT ![count + 1] = "first"]
    /\ err' = [err EXCEPT ![count + 1] = err[Parent]]
    /\ count' = count + 1
    /\ UNCHANGED <<conf, phase, written, pipe, ticket, job_number, outcome,
                   status, exe, code>>

\* fork() < 0 throws; main's handler prints the error and returns 1.
ForkFails ==
    /\ phase = "start"
    /\ size > 1
    /\ count < size
    /\ phase' = "exit"
    /\ code' = 1
    /\ UNCHANGED <<conf, count, written, pipe, pc, ticket, job_number, err,
                   outcome, status, exe>>

\* One iteration of writeTicketNumbers.  The parent keeps read_fd open, so a
\* write never fails with EPIPE: it blocks while the pipe is full.
WriteTicket ==
    /\ phase = "start"
    /\ size > 1
    /\ count = size
    /\ written < job_count
    /\ Len(pipe) < PipeCap
    /\ pipe' = Append(pipe, written)
    /\ written' = written + 1
    /\ UNCHANGED <<conf, phase, count, pc, ticket, job_number, err, outcome,
                   status, exe, code>>

Started ==
    /\ phase = "start"
    /\ size > 1 => count = size /\ written = job_count
    /\ phase' = "submit"
    /\ UNCHANGED <<conf, count, written, pipe, pc, ticket, job_number, err,
                   outcome, status, exe, code>>

-----------------------------------------------------------------------------
(* Processing a class: ClassDef.compile2 *)

\* What compile2 can do with class j in process p: find its object file up to
\* date; compile it and then, only while the process has seen no error, call
\* writeOrAssembleBitcode; report an error; or throw.  "lost" is a call of
\* writeOrAssembleBitcode that returns as if it had succeeded with no object
\* file written: llc or as was killed by a signal, so that Process.run answers
\* 0, or LLVMWriteBitcodeToFile failed, whose result nobody looks at.
Processed(p, j, r) ==
    /\ r \in {"current", "error", "thrown"} \cup
              (IF err[p] THEN {"skipped"} ELSE {"written", "lost"})
    /\ result' = [result EXCEPT ![j] = r]
    /\ runs' = [runs EXCEPT ![j] = @ + 1]
    /\ compiled' = [compiled EXCEPT ![p] = @ \/ r \notin {"current", "thrown"}]
    /\ err' = [err EXCEPT ![p] = @ \/ r = "error"]

-----------------------------------------------------------------------------
(* ProcessPool.start and submit, in worker w *)

Returned == phase \in {"exit", "nomain"}      \* the parent has exited

\* The processes that hold write_fd: nobody closes it, and every worker
\* inherits it with the fork.
WriteEnds ==
    {w \in Workers : pc[w] \in {"first", "walk", "next"}} \cup
        (IF Returned THEN {} ELSE {Parent})

\* read() blocks while the pipe is empty, until no write end is left.
ReadTicketNumber(w) ==
    /\ pipe # << >> \/ WriteEnds = {}
    /\ ticket' = [ticket EXCEPT ![w] = IF pipe = << >> THEN NoTicket ELSE Head(pipe)]
    /\ pipe' = IF pipe = << >> THEN pipe ELSE Tail(pipe)

\* Mutant: a worker starts with its own number instead of reading a ticket.
FirstTicket_OwnNumber(w) ==
    /\ pc[w] = "first"
    /\ ticket' = [ticket EXCEPT ![w] = w - 1]
    /\ pc' = [pc EXCEPT ![w] = "walk"]
    /\ UNCHANGED <<conf, phase, count, written, pipe, job_number, err, outcome,
                   status, exe, code>>

\* The first ticket is read in start(), before any class is submitted.
FirstTicket(w) ==
    /\ pc[w] = "first"
    /\ ReadTicketNumber(w)
    /\ pc' = [pc EXCEPT ![w] = "walk"]
    /\ UNCHANGED <<conf, phase, count, written, job_number, err, outcome,
                   status, exe, code>>

\* submit() of a class that is somebody else's.
SubmitOther(w) ==
    /\ pc[w] = "walk"
    /\ job_number[w] < submits
    /\ job_number[w] # ticket[w]
    /\ job_number' = [job_number EXCEPT ![w] = @ + 1]
    /\ UNCHANGED <<conf, phase, count, written, pipe, pc, ticket, err,
                   outcome, status, exe, code>>

\* submit() of this worker's class.  An exception leaves compilePending: the
\* worker's main reports it and the process exits with status 1.
SubmitMine(w) ==
    /\ pc[w] = "walk"
    /\ job_number[w] < submits
    /\ job_number[w] = ticket[w]
    /\ \E r \in Results :
        /\ Processed(w, job_number[w], r)
        /\ pc' = [pc EXCEPT ![w] = IF r = "thrown" THEN "exited" ELSE "next"]
        /\ status' = [status EXCEPT ![w] = IF r = "thrown" THEN 1 ELSE @]
    /\ UNCHANGED <<conf, phase, count, written, pipe, ticket, job_number, exe,
                   code>>

\* Mutant: the next ticket is read only after a class has been skipped, so
\* job_number is counted twice for the class just compiled.
NextTicket_CountsTwice(w) ==
    /\ pc[w] = "next"
    /\ ReadTicketNumber(w)
    /\ pc' = [pc EXCEPT ![w] = "walk"]
    /\ job_number' = [job_number EXCEPT ![w] = IF @ + 2 > submits THEN submits ELSE @ + 2]
    /\ UNCHANGED <<conf, phase, count, written, err, outcome, status, exe,
                   code>>

NextTicket(w) ==
    /\ pc[w] = "next"
    /\ ReadTicketNumber(w)
    /\ pc' = [pc EXCEPT ![w] = "walk"]
    /\ job_number' = [job_number EXCEPT ![w] = @ + 1]
    /\ UNCHANGED <<conf, phase, count, written, err, outcome, status, exe,
                   code>>

\* Mutant: a worker stops only once it has read end of file from the pipe.
WorkerExit_AtEOF(w) ==
    /\ pc[w] = "walk"
    /\ job_number[w] = submits
    /\ ticket[w] = NoTicket
    /\ pc' = [pc EXCEPT ![w] = "exited"]
    /\ status' = [status EXCEPT ![w] = IF err[w] THEN 1 ELSE 0]
    /\ UNCHANGED <<conf, phase, count, written, pipe, ticket, job_number, err,
                   outcome, exe, code>>

\* The worker's tail of compilePending: it leaves through Exit.exit.
WorkerExit(w) ==
    /\ pc[w] = "walk"
    /\ job_number[w] = submits
    /\ pc' = [pc EXCEPT ![w] = "exited"]
    /\ status' = [status EXCEPT ![w] = IF err[w] THEN 1 ELSE 0]
    /\ UNCHANGED <<conf, phase, count, written, pipe, ticket, job_number, err,
                   outcome, exe, code>>

-----------------------------------------------------------------------------
(* submit and the tail of compilePending, in the parent *)

\* Without workers the parent processes every class itself.
SubmitDirect ==
    /\ phase = "submit"
    /\ size = 1
    /\ job_number[Parent] < submits
    /\ \E r \in Results :
        /\ Processed(Parent, job_number[Parent], r)
        /\ phase' = IF r = "thrown" THEN "exit" ELSE phase
        /\ code' = IF r = "thrown" THEN 1 ELSE code
    /\ job_number' = [job_number EXCEPT ![Parent] = @ + 1]
    /\ UNCHANGED <<conf, count, written, pipe, pc, ticket, status, exe>>

\* With workers the parent ignores every submit.
Submitted ==
    /\ phase = "submit"
    /\ size = 1 => job_number[Parent] = submits
    /\ phase' = "tail"
    /\ UNCHANGED <<conf, count, written, pipe, pc, ticket, job_number, err,
                   outcome, status, exe, code>>

\* "*** errors occurred ***": return without waiting, main returns 1.
TailErrors ==
    /\ phase = "tail"
    /\ err[Parent]
    /\ phase' = "exit"
    /\ code' = 1
    /\ UNCHANGED <<conf, count, written, pipe, pc, ticket, job_number, err,
                   outcome, status, exe>>

\* "*** no main class ***": return without waiting, main returns 0.  Whether
\* some class is called Main is looked at only here.
TailNoMain ==
    /\ phase = "tail"
    /\ ~err[Parent]
    /\ phase' = "nomain"
    /\ UNCHANGED <<conf, count, written, pipe, pc, ticket, job_number, err,
                   outcome, status, exe, code>>

\* emitEntryPoint writes the entry module; if that throws main returns 1.
TailMain ==
    /\ phase = "tail"
    /\ ~err[Parent]
    /\ \/ phase' = "wait" /\ code' = code
       \/ phase' = "exit" /\ code' = 1
    /\ UNCHANGED <<conf, count, written, pipe, pc, ticket, job_number, err,
                   outcome, status, exe>>

\* Mutant: the exit status of a worker is not looked at.
Wait_IgnoresStatus(w) ==
    /\ phase = "wait"
    /\ count > 0
    /\ pc[w] = "exited"
    /\ pc' = [pc EXCEPT ![w] = "reaped"]
    /\ count' = count - 1
    /\ UNCHANGED <<conf, phase, written, pipe, ticket, job_number, err, outcome,
                   status, exe, code>>

\* One iteration of ProcessPool.wait.
Wait(w) ==
    /\ phase = "wait"
    /\ count > 0
    /\ pc[w] = "exited"
    /\ pc' = [pc EXCEPT ![w] = "reaped"]
    /\ count' = count - 1
    /\ err' = [err EXCEPT ![Parent] = @ \/ status[w] # 0]
    /\ UNCHANGED <<conf, phase, written, pipe, ticket, job_number, outcome,
                   status, exe, code>>

\* Mutant: the wait loop stops one worker early.
Waited_OneLeft ==
    /\ phase = "wait"
    /\ count <= 1
    /\ phase' = "link"
    /\ UNCHANGED <<conf, count, written, pipe, pc, ticket, job_number, err,
                   outcome, status, exe, code>>

Waited ==
    /\ phase = "wait"
    /\ count = 0
    /\ phase' = "link"
    /\ UNCHANGED <<conf, count, written, pipe, pc, ticket, job_number, err,
                   outcome, status, exe, code>>

\* linkObjectFiles returns early when it believes nothing was compiled.
NotLinking == ~ForceLink /\ ~compiled[Parent] /\ exe # "absent"

\* linkObjectFiles, "done", and main's return: the errors the workers
\* reported do not stop the link.  A linker that exits with an error makes
\* linkObjectFiles throw; one killed by a signal does not, because
\* Process.run returns the wait status shifted right by 8.
Link ==
    /\ phase = "link"
    /\ phase' = "exit"
    /\ \E linker \in {"not run", "links", "fails", "killed"} :
        /\ linker = "not run" <=> NotLinking
        /\ exe' = IF linker = "links" THEN "new" ELSE exe
        /\ code' = IF linker = "fails" \/ err[Parent] THEN 1 ELSE 0
    /\ UNCHANGED <<conf, count, written, pipe, pc, ticket, job_number, err,
                   outcome, status>>

-----------------------------------------------------------------------------
ParentNext ==
    \/ Fork \/ ForkFails \/ WriteTicket \/ Started
    \/ SubmitDirect \/ Submitted
    \/ TailErrors \/ TailNoMain \/ TailMain
    \/ \E w \in Workers : Wait(w)
    \/ Waited \/ Link

WorkerNext(w) ==
    FirstTicket(w) \/ SubmitOther(w) \/ SubmitMine(w) \/ NextTicket(w) \/ WorkerExit(w)

Next == ParentNext \/ \E w \in Workers : WorkerNext(w)

\* Every process keeps running while the operating system lets it: each is
\* scheduled weakly fairly.
Fairness == WF_vars(ParentNext) /\ \A w \in Workers : WF_vars(WorkerNext(w))

Spec == Init /\ [][Next]_vars /\ Fairness

-----------------------------------------------------------------------------
(* Safety *)

\* No class is compiled twice, by two workers or by one: two processes that
\* wrote one object file would race.
JobsOnce == \A j \in Jobs : runs[j] <= 1

\* What looks like a built class to the process that had it.
TakenAsBuilt == {"current", "written", "lost"}

\* When lc exits with status 0 after building a program, every submitted class
\* was found current or had its object file written, whichever worker had it
\* and whatever the other workers ran into, but for a class that was lost: its
\* llc or as was killed, or its bitcode could not be written, and nobody saw
\* it.  There is no other way to status 0 with a class unbuilt: no error, no
\* exception and no class that every worker passed by.
SuccessMeansBuilt ==
    phase = "exit" /\ code = 0 =>
        \A j \in 0 .. submits - 1 : result[j] \in TakenAsBuilt

\* The linker never reads object files while a worker may still write one.
QuietAtLink ==
    phase = "link" => \A w \in Workers : pc[w] \in {"unborn", "reaped"}

(***************************************************************************)
(* The inductive invariant behind JobsOnce and SuccessMeansBuilt.          *)
(***************************************************************************)
Head_ == written - Len(pipe)      \* the oldest ticket nobody has read
HasTicket(w) == pc[w] \notin {"unborn", "first"}
Failed == {"skipped", "error", "thrown"}

\* The pipe holds the consecutive tickets Head_ .. written - 1.
PipeInv ==
    /\ Len(pipe) <= written
    /\ \A i \in 1 .. Len(pipe) : pipe[i] = Head_ + i - 1

\* A worker's ticket has left the pipe, is never behind its walk (so the class
\* it names has not been passed), and a worker that stops without an error
\* stops on a ticket that names no class.
TicketOK(w) ==
    /\ ~HasTicket(w) => job_number[w] = 0
    /\ HasTicket(w) => ticket[w] \in 0 .. Head_ - 1
    /\ pc[w] = "walk" => job_number[w] <= ticket[w] /\ job_number[w] <= submits
    /\ pc[w] = "next" => job_number[w] = ticket[w] /\ ticket[w] < submits
    /\ pc[w] \in {"exited", "reaped"} /\ status[w] = 0 => ticket[w] >= submits

TicketInv == \A w \in Workers : TicketOK(w)

\* No two workers hold the same ticket.
DistinctInv ==
    \A v, w \in Workers :
        v # w /\ HasTicket(v) /\ HasTicket(w) => ticket[v] # ticket[w]

\* A class whose ticket has been read is dealt with or in somebody's hands,
\* and not both; a class whose ticket nobody has read is untouched.
ResultInv ==
    \A j \in Jobs :
        /\ runs[j] = IF result[j] = "none" THEN 0 ELSE 1
        /\ size = 1 => (result[j] # "none" <=> j < job_number[Parent])
        /\ size > 1 /\ result[j] # "none" => j < Head_
        /\ size > 1 /\ j < Head_ /\ j < submits =>
              (result[j] = "none" <=> \E w \in Workers : pc[w] = "walk" /\ ticket[w] = j)

\* A failure is remembered until the parent knows of it.
ErrorInv ==
    /\ \A w \in Workers :
        /\ pc[w] \notin {"exited", "reaped"} => status[w] = 0
        /\ pc[w] \in {"exited", "reaped"} /\ err[w] => status[w] = 1
        /\ pc[w] = "reaped" /\ status[w] = 1 => err[Parent]
    /\ \A j \in Jobs : result[j] \in Failed =>
        IF size = 1 THEN err[Parent] \/ (phase = "exit" /\ code = 1)
        ELSE \E w \in Workers : pc[w] # "unborn" /\ (err[w] \/ status[w] = 1)

\* count is the number of workers still to be waited for.
CountInv ==
    /\ size = 1 => count = 0 /\ \A w \in Workers : pc[w] = "unborn"
    /\ size > 1 /\ phase = "start" =>
        \A w \in Workers : pc[w] = "unborn" <=> w > count
    /\ size > 1 /\ phase \notin {"start", "exit", "nomain"} =>
        /\ \A w \in Workers : pc[w] = "unborn" <=> w > size
        /\ count = Cardinality({w \in Workers : pc[w] \notin {"unborn", "reaped"}})
    /\ phase = "start" => \A w \in Workers : pc[w] # "reaped"
    /\ phase = "link" \/ (phase = "exit" /\ code = 0) =>
        \A w \in Workers : pc[w] \in {"unborn", "reaped"}

ParentInv ==
    /\ size = 1 => job_number[Parent] <= submits
    /\ phase # "exit" => code = 0
    /\ size = 1 /\ phase \in {"tail", "wait", "link"} => job_number[Parent] = submits
    /\ phase = "link" => count = 0

PoolInv ==
    /\ TypeOK /\ PipeInv /\ TicketInv /\ DistinctInv /\ ResultInv /\ ErrorInv
    /\ CountInv /\ ParentInv /\ SuccessMeansBuilt

-----------------------------------------------------------------------------
(* Liveness *)

\* Enough spare tickets for every worker to stop on: a worker stops only with a
\* ticket in hand that names no class.
Enough == size = 1 \/ job_count - submits >= size

\* Every worker has ended before the last tickets are in the pipe, and the pipe
\* is full: they died of an exception, or ended normally on spare tickets while
\* more than a pipeful was still unwritten.  The parent, which keeps the read
\* end open itself, stays blocked in write().
Abandoned ==
    /\ phase = "start"
    /\ count = size
    /\ written < job_count
    /\ Len(pipe) = PipeCap
    /\ \A w \in 1 .. size : pc[w] = "exited"

\* With a spare ticket for each worker the build ends, whatever the workers'
\* speeds and whichever of them fail, unless all of them end, well or badly,
\* with more tickets unwritten than the pipe has room for.
BuildEnds == Enough ~> (Returned \/ Abandoned)

\* With a spare ticket for each worker no worker outlives the build blocked on
\* the pipe, even when the parent has returned without waiting for it, unless
\* a later fork failed and the tickets were never written.
ForkFailed == phase = "exit" /\ size > 1 /\ written = 0
WorkersEnd ==
    \A w \in Workers :
        Enough /\ pc[w] = "first" ~> pc[w] \in {"exited", "reaped"} \/ ForkFailed

\* What the comments of ProcessPool.start promise: writing the tickets may
\* block "until some or all work is complete", but the build then ends.
AlwaysEnds == <>(Returned \/ Abandoned)

\* What linkObjectFiles says when it returns early: "no classes were compiled
\* and output exists: not linking".
NotLinkingMeansNothingCompiled ==
    phase = "link" /\ NotLinking /\ ~err[Parent] => \A p \in Procs : ~compiled[p]
=============================================================================
