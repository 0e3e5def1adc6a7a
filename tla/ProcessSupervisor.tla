------------------------- MODULE ProcessSupervisor --------------------------
(***************************************************************************)
(* The container's init process (quip-dashboard/src/supervisor.rs): it     *)
(* starts the log collector, the backend and Caddy, waits for a signal or  *)
(* for a child to exit, and shuts everything down inside one budget: the   *)
(* services first, then their log pipes, then the collector.               *)
(*                                                                         *)
(* Time is the number of the budget's deadlines that have passed.  The two *)
(* pipe readers of a child are one reader.  Processes, the kernel and      *)
(* stderr are external.                                                    *)
(***************************************************************************)
EXTENDS Naturals, Sequences, FiniteSets

CONSTANTS
    Capacity,    \* Config.log_capacity
    Loggers,     \* children whose log pipes are followed
    Leaky,       \* children a descendant of which may leave the process group
    MaxLines,    \* bound: log lines the children write
    MaxBusy,     \* SPAWN_BUSY_ATTEMPTS
    Losable      \* children somebody else in the process may reap

ASSUME SupervisorAssumption ==
    /\ Loggers \cup Leaky \cup Losable \subseteq {"collector", "backend", "caddy"}
    /\ Capacity \in Nat \ {0} /\ MaxLines \in Nat
    /\ MaxBusy \in Nat \ {0}

Order == <<"collector", "backend", "caddy">>
Roles == {"collector", "backend", "caddy"}
Services == Roles \ {"collector"}

\* Deadlines of the budget, in their order: 0.7, 0.8, 0.85, 0.9, 0.95 and all of it.
LastDeadline == 6
Graceful(batch) == IF batch = Services THEN 1 ELSE 4
ReapBy(batch) == IF batch = Services THEN 2 ELSE 5
DrainBy(batch) == IF batch = Services THEN 3 ELSE 5

VARIABLES
    pc,          \* where run() is
    batch,       \* the children stop() and drain() work on
    todo,        \* those of the batch still to kill or drain, in order
    clock,       \* deadlines that have passed
    reason,      \* ExitReason
    timedOut,    \* Report.timed_out
    code,        \* the exit code of main
    proc,        \* external: what became of each child process
    group,       \* OwnedChild.group is Some
    asked,       \* children that got SIGTERM
    busy,        \* ETXTBSY answers to the spawn in progress
    signalled,   \* a SIGTERM or SIGINT is latched
    changed,     \* a SIGCHLD is latched
    foreign,     \* a signal went to a group this process no longer owned
    early,       \* the collector exited before its turn to be stopped
    leaked,      \* external: children whose pipe a process outside the group holds
    pipe,        \* unread lines of each child
    reader,      \* state of each child's pipe reader
    made,        \* lines written so far by the children
    queue,       \* lines in the stderr channel
    writing,     \* the stderr thread is inside write_all
    pending,     \* stderr_pending_lines
    out          \* what became of lines: [settled, errors]; a settled line was
                 \* written, too long, refused by the full queue, or failed to be written

procVars == <<proc, group, asked, changed, foreign, early, leaked>>
logVars == <<pipe, reader, made, queue, writing, pending, out>>
vars == <<pc, batch, todo, clock, reason, timedOut, code, busy, signalled,
          procVars, logVars>>

Stopping == {"term", "wait", "blocked", "kill", "reap", "drain", "logs",
             "recheck", "writer"}

Init ==
    /\ pc = "setup" /\ batch = Services /\ todo = Order
    /\ clock = 0 /\ reason = "none" /\ timedOut = FALSE /\ code = 0
    /\ proc = [r \in Roles |-> "none"] /\ group = [r \in Roles |-> FALSE]
    /\ asked = {} /\ busy = 0
    /\ signalled = FALSE /\ changed = FALSE  /\ foreign = FALSE /\ early = FALSE
    /\ leaked \in SUBSET Leaky
    /\ pipe = [r \in Roles |-> 0] /\ reader = [r \in Roles |-> "none"]
    /\ made = 0 /\ queue = 0 /\ writing = FALSE /\ pending = 0
    /\ out = [settled |-> 0, errors |-> FALSE]

-----------------------------------------------------------------------------
(* Operators *)

Spawned == {r \in Roles : proc[r] # "none"}

\* waitid with WNOWAIT: an exited leader stays a zombie, so its process-group ID stays
\* reserved.  ECHILD when it is not ours any more.
Status(r) == IF ~group[r] \/ proc[r] \in {"reaped", "lost"} THEN "error" ELSE proc[r]

\* What the run loop and the recheck of the collector look for, in child order.
Failed(rs) == {r \in rs : Status(r) # "running"}
FirstOf(rs) == CHOOSE r \in rs : \A q \in rs :
    \E i, j \in 1 .. 3 : i <= j /\ Order[i] = r /\ Order[j] = q
Unexpected(rs) ==
    LET r == FirstOf(Failed(rs)) IN
    IF Failed(rs) = {} THEN "none"
    ELSE IF Status(r) = "error" THEN "internal"
    ELSE IF r = "collector" THEN "collector" ELSE "child"

\* Deviation: the status is not asked for before the group is signalled.
Owned_Unchecked(r) == group[r]
\* signal() uses the group ID only after it has seen that the child is still ours.
Owned(r) == Status(r) # "error"

\* Report::exit_code.
ExitCode(why, late) ==
    CASE why = "signal" -> (IF late THEN 124 ELSE 0)
      [] why = "child" -> 1
      [] why = "collector" -> 70
      [] why = "notfound" -> 127
      [] why = "spawn" -> 126
      [] OTHER -> 71

InOrder(rs) ==
    LET Here(i) == IF Order[i] \in rs THEN <<Order[i]>> ELSE <<>>
    IN  Here(1) \o Here(2) \o Here(3)
\* The pipe reaches its end once every process that holds it is gone.
Ended(r) == pipe[r] = 0 /\ proc[r] # "running" /\ r \notin leaked
-----------------------------------------------------------------------------
(* Start *)

\* main and the checks and registrations of run(), before any child exists.
Setup ==
    /\ pc = "setup"
    /\ \/ pc' = "spawn" /\ code' = 0
       \/ pc' = "exited" /\ code' \in {2, 71}
    /\ UNCHANGED <<batch, todo, clock, reason, timedOut, busy, signalled, procVars, logVars>>

\* A busy executable is tried again; any other failure ends the start.
Spawn ==
    /\ pc = "spawn" /\ todo # <<>>
    /\ LET r == Head(todo) IN
       \/ /\ proc' = [proc EXCEPT ![r] = "running"]
          /\ group' = [group EXCEPT ![r] = TRUE]
          /\ reader' = [reader EXCEPT ![r] = IF r \in Loggers THEN "open" ELSE "closed"]
          /\ todo' = Tail(todo) /\ busy' = 0
          /\ pc' = IF Tail(todo) = <<>> THEN "watch" ELSE "spawn"
          /\ reason' = reason
       \/ /\ busy + 1 < MaxBusy
          /\ busy' = busy + 1
          /\ UNCHANGED <<proc, group, reader, todo, pc, reason>>
       \/ /\ reason' = IF busy + 1 = MaxBusy THEN "spawn" ELSE "notfound"
          /\ pc' = IF r = "collector" THEN "writer" ELSE "term"
          /\ UNCHANGED <<proc, group, reader, todo, busy>>
    /\ UNCHANGED <<batch, clock, timedOut, code, signalled, asked, changed, foreign,
                   early, leaked, pipe, made, queue, writing, pending, out>>

\* The run loop looks at the children before it waits.
Watch ==
    /\ pc = "watch"
    /\ IF Unexpected(Roles) = "none"
         THEN pc' = "select" /\ reason' = reason
         ELSE pc' = "term" /\ reason' = Unexpected(Roles)
    /\ UNCHANGED <<batch, todo, clock, timedOut, code, busy, signalled, procVars, logVars>>

Select ==
    /\ pc = "select"
    /\ \/ signalled /\ pc' = "term" /\ reason' = "signal" /\ changed' = changed
       \/ changed /\ changed' = FALSE /\ pc' = "watch" /\ reason' = reason
    /\ UNCHANGED <<batch, todo, clock, timedOut, code, busy, signalled, proc, group, asked,
                   foreign, early, leaked, logVars>>
-----------------------------------------------------------------------------
(* Shutdown *)

\* stop(): SIGTERM to every child of the batch.
Terminate ==
    /\ pc = "term"
    /\ LET rs == batch \cap Spawned IN
       /\ asked' = asked \cup {r \in rs : Owned(r)}
       /\ foreign' = (foreign \/ \E r \in rs : Owned(r) /\ Status(r) = "error")
       /\ timedOut' = (timedOut \/ \E r \in rs : ~Owned(r))
       /\ group' = [r \in Roles |-> group[r] /\ (r \in rs => Owned(r))]
    /\ pc' = "wait"
    /\ UNCHANGED <<batch, todo, clock, reason, code, busy, signalled, proc, changed,
                   early, leaked, logVars>>

\* The look at the children; SIGCHLD is latched, so one that comes after it is not lost.
Wait ==
    /\ pc = "wait"
    /\ \E rs \in {{r \in batch \cap Spawned : Status(r) = "running"}} :
         IF rs = {} THEN pc' = "kill" /\ todo' = InOrder(batch \cap Spawned)
         ELSE pc' = "blocked" /\ todo' = todo
    /\ timedOut' = (timedOut \/ \E r \in batch \cap Spawned : Status(r) = "error")
    /\ UNCHANGED <<batch, clock, reason, code, busy, signalled, procVars, logVars>>

\* Deviation: a wake-up stands for one child's exit and the children are not looked at
\* again, although SIGCHLD coalesces.
Blocked_Counting ==
    /\ pc = "blocked"
    /\ \/ changed /\ changed' = FALSE /\ UNCHANGED <<pc, timedOut, todo>>
       \/ /\ ~changed /\ clock >= Graceful(batch)
          /\ timedOut' = TRUE /\ pc' = "kill" /\ todo' = InOrder(batch \cap Spawned)
          /\ changed' = changed
    /\ UNCHANGED <<batch, clock, reason, code, busy, signalled, proc, group, asked, foreign,
                   early, leaked, logVars>>
Blocked ==
    /\ pc = "blocked"
    /\ \/ changed /\ changed' = FALSE /\ pc' = "wait" /\ UNCHANGED <<timedOut, todo>>
       \/ /\ ~changed /\ clock >= Graceful(batch)
          /\ timedOut' = TRUE /\ pc' = "kill" /\ todo' = InOrder(batch \cap Spawned)
          /\ changed' = changed
    /\ UNCHANGED <<batch, clock, reason, code, busy, signalled, proc, group, asked,
                   foreign, early, leaked, logVars>>

\* kill_and_reap: the last signal to the group, after which its ID is given up.
Kill ==
    /\ pc = "kill"
    /\ IF todo = <<>>
         THEN /\ pc' = "drain" /\ todo' = InOrder(batch \cap Spawned)
              /\ UNCHANGED <<group, timedOut, foreign>>
         ELSE LET r == Head(todo) IN
              /\ foreign' = (foreign \/ (Owned(r) /\ Status(r) = "error"))
              /\ timedOut' = (timedOut \/ ~Owned(r))
              /\ group' = [group EXCEPT ![r] = FALSE]
              /\ pc' = "reap" /\ todo' = todo
    /\ UNCHANGED <<batch, clock, reason, code, busy, signalled, proc, asked, changed,
                   early, leaked, logVars>>

Reap ==
    /\ pc = "reap"
    /\ LET r == Head(todo) IN
       \/ /\ proc[r] = "exited"
          /\ proc' = [proc EXCEPT ![r] = "reaped"] /\ timedOut' = timedOut
       \/ /\ proc[r] = "lost"
          /\ timedOut' = TRUE /\ proc' = proc
       \/ /\ proc[r] = "running" /\ clock >= ReapBy(batch)
          /\ timedOut' = TRUE /\ proc' = proc
    /\ pc' = "kill" /\ todo' = Tail(todo)
    /\ UNCHANGED <<batch, clock, reason, code, busy, signalled, group, asked, changed,
                   foreign, early, leaked, logVars>>

\* Deviation: the services' readers are not awaited.
Drain_Skip ==
    /\ pc = "drain"
    /\ pc' = IF batch = Services THEN "logs" ELSE "writer"
    /\ UNCHANGED <<batch, todo, clock, reason, timedOut, code, busy, signalled, procVars,
                   logVars>>
\* drain(): join every reader, abort one that is late.  A reader inside line() runs
\* on to its next await.
Drain ==
    /\ pc = "drain"
    /\ \/ /\ todo = <<>>
          /\ pc' = IF batch = Services THEN "logs" ELSE "writer"
          /\ UNCHANGED <<todo, timedOut, reader>>
       \/ /\ todo # <<>> /\ reader[Head(todo)] = "closed"
          /\ todo' = Tail(todo) /\ UNCHANGED <<pc, timedOut, reader>>
       \/ /\ todo # <<>> /\ reader[Head(todo)] \in {"open", "line"}
          /\ clock >= DrainBy(batch)
          /\ reader' = [reader EXCEPT ![Head(todo)] =
                            IF @ = "line" THEN "last" ELSE "aborted"]
          /\ timedOut' = TRUE /\ todo' = Tail(todo) /\ pc' = pc
    /\ UNCHANGED <<batch, clock, reason, code, busy, signalled, procVars, pipe, made, queue,
                   writing, pending, out>>

\* Deviation: the wait for the stderr queue has no deadline.
DrainLogs_Patient ==
    /\ pc = "logs" /\ pending = 0
    /\ pc' = "recheck"
    /\ UNCHANGED <<batch, todo, clock, reason, timedOut, code, busy, signalled, procVars,
                   logVars>>
\* Logs::drain: until nothing is pending or the deadline has passed.
DrainLogs ==
    /\ pc = "logs"
    /\ \/ pending = 0 /\ timedOut' = timedOut
       \/ pending > 0 /\ clock >= DrainBy(Services) /\ timedOut' = TRUE
    /\ pc' = "recheck"
    /\ UNCHANGED <<batch, todo, clock, reason, code, busy, signalled, procVars, logVars>>

\* Deviation: the collector is not looked at again.
Recheck_Trusting ==
    /\ pc = "recheck"
    /\ pc' = "term" /\ batch' = {"collector"} /\ reason' = reason
    /\ UNCHANGED <<todo, clock, timedOut, code, busy, signalled, procVars, logVars>>
\* A planned shutdown during which the collector died by itself is a failure.
Recheck ==
    /\ pc = "recheck"
    /\ reason' = IF reason = "signal" /\ Unexpected({"collector"}) # "none"
                 THEN Unexpected({"collector"}) ELSE reason
    /\ pc' = "term" /\ batch' = {"collector"}
    /\ UNCHANGED <<todo, clock, timedOut, code, busy, signalled, procVars, logVars>>

\* The sender is dropped and the stderr thread given the rest of the budget; it
\* ends when the last reader's clone is gone too and the queue is empty.
WriterIdle == queue = 0 /\ ~writing /\ \A r \in Roles : reader[r] \notin {"open", "line", "last"}
Finish ==
    /\ pc = "writer"
    /\ \/ WriterIdle /\ timedOut' = timedOut
       \/ ~WriterIdle /\ clock = LastDeadline /\ timedOut' = TRUE
    /\ pc' = "exited" /\ code' = ExitCode(reason, timedOut')
    /\ UNCHANGED <<batch, todo, clock, reason, busy, signalled, procVars, logVars>>

\* Time passes where run() waits, up to the deadline of that wait: no other step
\* looks at the clock.
Due == CASE pc = "blocked" -> Graceful(batch) [] pc = "reap" -> ReapBy(batch)
         [] pc \in {"drain", "logs"} -> DrainBy(batch) [] pc = "writer" -> LastDeadline
         [] OTHER -> 0
Tick ==
    /\ pc \in Stopping /\ clock < Due
    /\ clock' = Due
    /\ UNCHANGED <<pc, batch, todo, reason, timedOut, code, busy, signalled, procVars, logVars>>
-----------------------------------------------------------------------------
(* Log lines *)

\* A reader took a line off its pipe: it is sent to the collector and counted as
\* pending before it is offered to the stderr queue; one that is too long is dropped.
ReadLine(r) ==
    /\ reader[r] = "open" /\ pipe[r] > 0
    /\ pipe' = [pipe EXCEPT ![r] = @ - 1]
    /\ \/ /\ reader' = [reader EXCEPT ![r] = "line"]
          /\ pending' = pending + 1 /\ out' = out
       \/ /\ out' = [out EXCEPT !.settled = @ + 1]
          /\ UNCHANGED <<reader, pending>>
    /\ UNCHANGED <<pc, batch, todo, clock, reason, timedOut, code, busy, signalled, procVars,
                   made, queue, writing>>

\* Deviation: a line the full queue refused stays counted as pending.
OfferLine_Leaky(r) ==
    /\ reader[r] \in {"line", "last"}
    /\ reader' = [reader EXCEPT ![r] = IF @ = "last" THEN "aborted" ELSE "open"]
    /\ IF queue < Capacity
         THEN queue' = queue + 1 /\ out' = out
         ELSE queue' = queue /\ out' = [out EXCEPT !.settled = @ + 1]
    /\ UNCHANGED <<pc, batch, todo, clock, reason, timedOut, code, busy, signalled, procVars,
                   pipe, made, writing, pending>>
OfferLine(r) ==
    /\ reader[r] \in {"line", "last"}
    /\ reader' = [reader EXCEPT ![r] = IF @ = "last" THEN "aborted" ELSE "open"]
    /\ IF queue < Capacity
         THEN queue' = queue + 1 /\ UNCHANGED <<pending, out>>
         ELSE /\ pending' = pending - 1 /\ queue' = queue
              /\ out' = [out EXCEPT !.settled = @ + 1]
    /\ UNCHANGED <<pc, batch, todo, clock, reason, timedOut, code, busy, signalled, procVars,
                   pipe, made, writing>>

\* End of file, or an error that ends the reader early.
CloseReader(r) ==
    /\ reader[r] = "open"
    /\ \/ Ended(r) /\ out' = out
       \/ out' = [out EXCEPT !.errors = TRUE]
    /\ reader' = [reader EXCEPT ![r] = "closed"]
    /\ UNCHANGED <<pc, batch, todo, clock, reason, timedOut, code, busy, signalled, procVars,
                   pipe, made, queue, writing, pending>>

TakeLine ==
    /\ pc # "exited" /\ ~writing /\ queue > 0
    /\ queue' = queue - 1 /\ writing' = TRUE
    /\ UNCHANGED <<pc, batch, todo, clock, reason, timedOut, code, busy, signalled, procVars,
                   pipe, reader, made, pending, out>>

\* The write succeeded or failed, which counts as a drop: the line is settled.
WriteLine ==
    /\ pc # "exited" /\ writing
    /\ writing' = FALSE /\ pending' = pending - 1
    /\ out' = [out EXCEPT !.settled = @ + 1]
    /\ UNCHANGED <<pc, batch, todo, clock, reason, timedOut, code, busy, signalled, procVars,
                   pipe, reader, made, queue>>

Reader(r) == pc # "exited" /\ (ReadLine(r) \/ OfferLine(r) \/ CloseReader(r))
-----------------------------------------------------------------------------
(* External: processes and the operator *)

\* A child exits, by itself, because it was asked to or because it was killed.
ChildExits(r) ==
    /\ proc[r] = "running" /\ pc # "exited"
    /\ proc' = [proc EXCEPT ![r] = "exited"] /\ changed' = TRUE
    /\ early' = (early \/ (r = "collector" /\ batch = Services))
    /\ UNCHANGED <<pc, batch, todo, clock, reason, timedOut, code, busy, signalled, group,
                   asked, foreign, leaked, logVars>>

\* Another part of the process reaps the child: its ID may name a stranger now.
LoseChild(r) ==
    /\ r \in Losable /\ proc[r] = "exited" /\ pc # "exited"
    /\ proc' = [proc EXCEPT ![r] = "lost"]
    /\ UNCHANGED <<pc, batch, todo, clock, reason, timedOut, code, busy, signalled, group,
                   asked, changed, foreign, early, leaked, logVars>>

ChildWrites(r) ==
    /\ r \in Loggers /\ proc[r] = "running" /\ made < MaxLines /\ pc # "exited"
    /\ made' = made + 1 /\ pipe' = [pipe EXCEPT ![r] = @ + 1]
    /\ UNCHANGED <<pc, batch, todo, clock, reason, timedOut, code, busy, signalled, procVars,
                   reader, queue, writing, pending, out>>

\* A signal; once the shutdown has begun another one is never read.
Operator ==
    /\ ~signalled /\ pc \notin Stopping \cup {"exited"} /\ signalled' = TRUE
    /\ UNCHANGED <<pc, batch, todo, clock, reason, timedOut, code, busy, procVars, logVars>>

Main == Setup \/ Spawn \/ Watch \/ Select \/ Terminate \/ Wait \/ Blocked \/ Kill \/ Reap
            \/ Drain \/ DrainLogs \/ Recheck \/ Finish
Next ==
    \/ Main \/ Tick \/ TakeLine \/ WriteLine \/ Operator
    \/ \E r \in Roles : Reader(r) \/ ChildExits(r) \/ LoseChild(r) \/ ChildWrites(r)

\* The runtime keeps running the main task and time passes; nothing is assumed of the
\* children, of stderr or of the readers.
Spec == Init /\ [][Next]_vars /\ WF_vars(Main) /\ WF_vars(Tick)
-----------------------------------------------------------------------------
(* Properties *)

\* The collector is asked to stop only when both services are gone and their
\* readers have handled every line, or after the shutdown has been found late
\* (the comment above the recheck, supervisor.rs:614).
CollectorOutlivesServices ==
    "collector" \in asked /\ ~timedOut =>
        \A r \in Services : /\ proc[r] \in {"none", "reaped"}
                            /\ reader[r] \in {"none", "closed"}

\* No signal reaches a process group whose leader this process no longer owns.
NoForeignSignal == ~foreign

\* The counters account for every line taken off a pipe, at every moment of the race
\* between readers and writer; the unsigned pending counter cannot wrap.
Counted(s) == Cardinality({r \in Roles : reader[r] \in s})
LinesAccounted ==
    /\ pending = queue + (IF writing THEN 1 ELSE 0) + Counted({"line", "last"})
    /\ made = pipe["collector"] + pipe["backend"] + pipe["caddy"] + pending
                + out.settled

\* Exit code 0 means an operator's shutdown in which every child was reaped, the
\* collector lived until it was asked to stop and every line reached its end.
ZeroMeansClean ==
    pc = "exited" /\ code = 0 =>
        /\ signalled /\ ~early /\ \A r \in Roles : proc[r] = "reaped"
        /\ pending = 0 /\ (~out.errors => \A r \in Roles : pipe[r] = 0)

\* stop() never sleeps through the exit of the last child it waits for: as long as it
\* is blocked, one still runs or the wake-up is latched.
NoLostWakeup ==
    /\ pc = "blocked" => changed \/ \E r \in batch : proc[r] = "running"
    /\ pc = "select" => changed \/ \A r \in Roles : proc[r] = "running"

\* A shutdown that has begun ends, whatever the children and stderr do.
ShutdownEnds == pc = "term" ~> pc = "exited"
=============================================================================
