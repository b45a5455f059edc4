------------------------------- MODULE Ptrace -------------------------------
(***************************************************************************)
(* Tracing processes (ptrace/lib/Ptrace.rb over ptrace/module/Ptrace.c):   *)
(* Target.attach and launch, the requests of a Target and the waitpid that *)
(* follows most of them, the words of a MemArea and the snapshots of a     *)
(* RegSet, on x86-64.  One thread of the program traces: the kernel takes  *)
(* requests from no other.  The kernel and the traced program are external *)
(* and act between any two steps.                                          *)
(***************************************************************************)
EXTENDS Integers, FiniteSets

CONSTANTS
  Procs,    \* processes
  Targets,  \* identities of Target objects
  RegSets,  \* identities of the RegSet objects the program uses
  Values,   \* contents of a word or register
  Nil

ASSUME ValuesAssumption == {0, -1} \subseteq Values /\ Values \subseteq Int
ASSUME NilAssumption    == Nil \notin [proc: Procs, valid: BOOLEAN]

(* What a stopped process holds: one register of each kind, and a word of memory. *)
General == {"rax", "cs"}   \* in user_regs_struct; cs stands for those set_regs keeps
Kept    == {"cs"}
Float   == {"cwd", "xmm"}  \* in user_fpregs_struct; xmm stands for those no hash has
Unnamed == {"xmm"}
Cells   == General \cup Float \cup {"word"}
Kinds   == {"gen", "fp"}
Names(kind) == IF kind = "gen" THEN General ELSE Float \ Unnamed

VARIABLES
  proc,    \* the kernel's view of the processes
  cell,    \* what they hold
  tgt,     \* the Target objects that were returned to the program
  rs,      \* the RegSet objects, with the history of their hash since it was read
  call,    \* the method that waits in Process.waitpid
  ext,     \* the program has defined the missing constant RegSet::Ext
  sysemu,  \* the system's ptrace has PT_SYSEMU
  last     \* how the last method ended, if the last step ended one

vars == <<proc, cell, tgt, rs, call, ext, sysemu, last>>

NoCall   == [op |-> "none", proc |-> Nil, target |-> Nil]
Silent   == [err |-> "none", proc |-> Nil]
Quiet    == last' = Silent
Err(e, p) == last' = [err |-> e, proc |-> p]
Idle     == call = NoCall

Init ==
  /\ proc \in [Procs -> {[state |-> s, traced |-> FALSE, child |-> FALSE, adrift |-> FALSE] :
                           s \in {"none", "running"}}]
  /\ cell \in [Procs -> [Cells -> {0}]]
  /\ tgt = [t \in Targets |-> Nil] /\ rs = [r \in RegSets |-> Nil]
  /\ call = NoCall /\ ext \in BOOLEAN /\ sysemu \in BOOLEAN /\ last = Silent

---------------------------------------------------------------------------
(* The kernel and the traced program *)

Alive(p)   == proc[p].state \in {"running", "stopped"}
Stopped(p) == proc[p].state = "stopped" /\ proc[p].traced
\* The hash of a RegSet is out of date once its process has run.
Outdated(p) == [r \in RegSets |-> IF rs[r] # Nil /\ rs[r].proc = p
                                  THEN [rs[r] EXCEPT !.current = FALSE] ELSE rs[r]]

Fresh(r) == [rs[r] EXCEPT !.regs = [n \in Names(rs[r].kind) |-> cell[rs[r].proc][n]],
                          !.current = TRUE, !.edited = {}]

\* A trap, a signal, the start or end of a system call, or the SIGSTOP of an attach.
Stops(p) ==
  /\ proc[p].state = "running" /\ proc[p].traced
  /\ proc' = [proc EXCEPT ![p].state = "stopped", ![p].adrift = FALSE]
  /\ \E c \in [Cells -> Values] : cell' = [cell EXCEPT ![p] = c]
  /\ rs' = Outdated(p) /\ Quiet /\ UNCHANGED <<tgt, call, ext, sysemu>>

\* By itself or by a signal from elsewhere, also while it is stopped.  Its parent and its
\* tracer can wait for it.
Dies(p) ==
  /\ Alive(p)
  /\ proc' = [proc EXCEPT ![p].state = IF proc[p].traced \/ proc[p].child THEN "zombie" ELSE "gone"]
  /\ Quiet /\ UNCHANGED <<cell, tgt, rs, call, ext, sysemu>>

Resumed(p) == proc' = [proc EXCEPT ![p].state = "running"]
Reaped(p)  == proc' = [proc EXCEPT ![p].state = "gone", ![p].traced = FALSE]
\* waitpid returns for a stop or a death; it raises Errno::ECHILD for a process that is
\* neither a child nor traced.
WaitReturns(p) == Stopped(p) \/ proc[p].state = "zombie"
WaitFails(p)   == ~proc[p].traced /\ ~proc[p].child
Collected(p)   == IF proc[p].state = "zombie" THEN Reaped(p) ELSE UNCHANGED proc

---------------------------------------------------------------------------
(* Target.attach, Target.launch *)

Unused(t)  == tgt[t] = Nil
Wait(o, p, t) == call' = [op |-> o, proc |-> p, target |-> t]

\* Target.new comes first: without RegSet::Ext it raises before any request is made.
\* Variant for the mutation run: it comes after the request.
AttachLate(t, p) ==
  /\ Idle /\ Unused(t) /\ proc[p].state = "running" /\ ~proc[p].traced
  /\ proc' = [proc EXCEPT ![p].traced = TRUE]
  /\ IF ext THEN Wait("attach", p, t) /\ Quiet ELSE UNCHANGED call /\ Err("NameError", p)
  /\ UNCHANGED <<cell, tgt, rs, ext, sysemu>>
Attach(t, p) ==
  /\ Idle /\ Unused(t) /\ ext /\ proc[p].state = "running" /\ ~proc[p].traced
  /\ proc' = [proc EXCEPT ![p].traced = TRUE]
  /\ Wait("attach", p, t) /\ Quiet /\ UNCHANGED <<cell, tgt, rs, ext, sysemu>>

\* Traced or dead processes, and those of another user, are refused.
AttachFails(p) ==
  /\ Idle
  /\ \/ ~ext /\ Err("NameError", p)
     \/ ext /\ proc[p].state \notin {"none", "gone"} /\ ~(proc[p].child /\ Alive(p) /\ ~proc[p].traced)
        /\ Err("Operation not permitted", p)
     \/ ext /\ proc[p].state \in {"none", "gone"} /\ Err("No such process", p)
  /\ UNCHANGED <<proc, cell, tgt, rs, call, ext, sysemu>>

\* The child asks to be traced, which may be refused, and executes the command; what
\* goes wrong there is raised in the child, and the parent only sees that it dies.
Launch(t, p) ==
  /\ Idle /\ Unused(t) /\ proc[p].state = "none"
  /\ \E b \in BOOLEAN : proc' = [proc EXCEPT ![p].state = "running", ![p].child = TRUE, ![p].traced = b]
  /\ Wait("launch", p, t) /\ Quiet /\ UNCHANGED <<cell, tgt, rs, ext, sysemu>>

\* waitpid does not tell a stop from a death, and a Target is made of either.
Begun ==
  LET p == call.proc IN
  /\ call.op \in {"attach", "launch"} /\ WaitReturns(p) /\ Collected(p) /\ call' = NoCall
  /\ IF ext THEN tgt' = [tgt EXCEPT ![call.target] = [proc |-> p, valid |-> TRUE]] /\ Quiet
     ELSE UNCHANGED tgt /\ Err("NameError", p)
  /\ UNCHANGED <<cell, rs, ext, sysemu>>

---------------------------------------------------------------------------
(* The requests of a Target *)

Resuming == {"step", "syscall", "cont", "syscall_state", "sysemu", "sysemu_step"}
Requests == Resuming \cup {"kill", "detach"}
Commands == IF sysemu THEN Requests ELSE Requests \ {"sysemu", "sysemu_step"}
\* The methods that call Process.waitpid after the request.
\* Variant for the mutation run: cont does not.
WaitsNoCont == Requests \ {"sysemu", "sysemu_step", "cont"}
Waits       == Requests \ {"sysemu", "sysemu_step"}

\* Target#ptrace_send: the checks before the request.  syscall_state rescues only
\* InvalidProcessError.
Refused(t, op) ==
  /\ Idle /\ tgt[t] # Nil
  /\ \/ op \notin Commands /\ Err("not supported", tgt[t].proc)
     \/ op \in Commands /\ ~tgt[t].valid /\ Err("not valid", tgt[t].proc)
  /\ UNCHANGED <<proc, cell, tgt, rs, call, ext, sysemu>>

Accepted(t, op) == Idle /\ tgt[t] # Nil /\ tgt[t].valid /\ op \in Commands
After(op, p, t) == IF op \in Waits THEN Wait(op, p, t) ELSE UNCHANGED call

Resume(t, op) ==
  LET p == tgt[t].proc IN
  /\ op \in Resuming /\ Accepted(t, op) /\ Stopped(p)
  /\ proc' = [proc EXCEPT ![p].state = "running", ![p].adrift = op \in {"sysemu", "sysemu_step"}]
  /\ After(op, p, t) /\ Quiet /\ UNCHANGED <<cell, tgt, rs, ext, sysemu>>

\* PTRACE_KILL is taken for a traced process in any state; one that runs may not notice.
Kill(t) ==
  LET p == tgt[t].proc IN
  /\ Accepted(t, "kill") /\ proc[p].traced
  /\ \/ proc' = [proc EXCEPT ![p].state = "zombie"]
     \/ proc[p].state = "running" /\ UNCHANGED proc
  /\ After("kill", p, t) /\ Quiet /\ UNCHANGED <<cell, tgt, rs, ext, sysemu>>

Detach(t) ==
  LET p == tgt[t].proc IN
  /\ Accepted(t, "detach") /\ Stopped(p)
  /\ proc' = [proc EXCEPT ![p].state = "running", ![p].traced = FALSE]
  /\ After("detach", p, t) /\ Quiet /\ UNCHANGED <<cell, tgt, rs, ext, sysemu>>

\* InvalidProcessError; syscall_state returns what it has instead.
Unknown(t, op) ==
  LET p == tgt[t].proc IN
  /\ Accepted(t, op) /\ IF op = "kill" THEN ~proc[p].traced ELSE ~Stopped(p)
  /\ IF op = "syscall_state" THEN Quiet ELSE Err("No such process", p)
  /\ UNCHANGED <<proc, cell, tgt, rs, call, ext, sysemu>>

Invalidates == {"kill", "detach"}
Returned ==
  LET p == call.proc t == call.target IN
  /\ call.op \in Waits \ {"syscall_state"} /\ WaitReturns(p) /\ Collected(p) /\ call' = NoCall
  /\ tgt' = IF call.op \in Invalidates THEN [tgt EXCEPT ![t].valid = FALSE] ELSE tgt
  /\ Quiet /\ UNCHANGED <<cell, rs, ext, sysemu>>

\* Errno::ECHILD passes the rescue clauses, and @valid stays as it was.
WaitRaises ==
  /\ ~Idle /\ WaitFails(call.proc) /\ call' = NoCall /\ Err("No child processes", call.proc)
  /\ UNCHANGED <<proc, cell, tgt, rs, ext, sysemu>>

\* syscall_state stops at both ends of a system call and reads the registers there.  A
\* process that has exited ends it without an exception.
Refreshed(t) ==
  [r \in RegSets |-> IF rs[r] # Nil /\ rs[r].target = t /\ rs[r].kind = "gen" THEN Fresh(r) ELSE rs[r]]
SyscallStops ==
  LET p == call.proc IN
  /\ call.op \in {"syscall_state", "syscall_out"} /\ WaitReturns(p) /\ Collected(p)
  /\ Wait(IF call.op = "syscall_state" THEN "read_in" ELSE "read_out", p, call.target)
  /\ Quiet /\ UNCHANGED <<cell, tgt, rs, ext, sysemu>>
SyscallReads ==
  LET p == call.proc IN
  /\ call.op \in {"read_in", "read_out"} /\ Stopped(p) /\ rs' = Refreshed(call.target)
  /\ IF call.op = "read_in" THEN Resumed(p) /\ Wait("syscall_out", p, call.target)
     ELSE UNCHANGED proc /\ call' = NoCall
  /\ Quiet /\ UNCHANGED <<cell, tgt, ext, sysemu>>
SyscallExit ==
  /\ call.op \in {"read_in", "read_out"} /\ ~Stopped(call.proc) /\ call' = NoCall
  /\ Quiet /\ UNCHANGED <<proc, cell, tgt, rs, ext, sysemu>>

---------------------------------------------------------------------------
(* MemArea and RegSet: they know the number of the process and nothing of @valid. *)

Known(p) == \E t \in Targets : tgt[t] # Nil /\ tgt[t].proc = p

\* A word -1 is what ptrace returns for an error; errno is 0 then.  An address that the
\* process has not mapped is EIO or EFAULT.
Answer(w) == IF w = -1 THEN "Success" ELSE "none"
Peek(p) ==
  /\ Idle /\ Known(p)
  /\ \/ Stopped(p) /\ Err(Answer(cell[p]["word"]), p)
     \/ Stopped(p) /\ Err("bad address", p)
     \/ ~Stopped(p) /\ Err("No such process", p)
  /\ UNCHANGED <<proc, cell, tgt, rs, call, ext, sysemu>>

Poke(p, v) ==
  /\ Idle /\ Known(p)
  /\ \/ Stopped(p) /\ cell' = [cell EXCEPT ![p]["word"] = v] /\ Quiet
     \/ Stopped(p) /\ UNCHANGED cell /\ Err("bad address", p)
     \/ ~Stopped(p) /\ UNCHANGED cell /\ Err("No such process", p)
  /\ UNCHANGED <<proc, tgt, rs, call, ext, sysemu>>

\* The program takes the regs or fpregs of a Target.
TakeRegs(r, t, kind) ==
  /\ Idle /\ rs[r] = Nil /\ tgt[t] # Nil
  /\ rs' = [rs EXCEPT ![r] = [proc |-> tgt[t].proc, target |-> t, kind |-> kind,
                              regs |-> [n \in {} |-> 0], current |-> FALSE, edited |-> {}]]
  /\ Quiet /\ UNCHANGED <<proc, cell, tgt, call, ext, sysemu>>

Edit(r, n, v) ==
  /\ Idle /\ rs[r] # Nil /\ n \in Names(rs[r].kind)
  /\ rs' = [rs EXCEPT ![r].regs = [k \in DOMAIN @ \cup {n} |-> IF k = n THEN v ELSE @[k]],
                      ![r].edited = @ \cup {n}]
  /\ Quiet /\ UNCHANGED <<proc, cell, tgt, call, ext, sysemu>>
Delete(r, n) ==
  /\ Idle /\ rs[r] # Nil /\ n \in DOMAIN rs[r].regs
  /\ rs' = [rs EXCEPT ![r].regs = [k \in DOMAIN @ \ {n} |-> @[k]], ![r].edited = @ \cup {n}]
  /\ Quiet /\ UNCHANGED <<proc, cell, tgt, call, ext, sysemu>>

NoRegs(r) ==
  /\ Idle /\ rs[r] # Nil /\ ~Stopped(rs[r].proc) /\ Err("No such process", rs[r].proc)
  /\ UNCHANGED <<proc, cell, tgt, rs, call, ext, sysemu>>

ReadRegs(r) ==
  /\ Idle /\ rs[r] # Nil /\ Stopped(rs[r].proc)
  /\ rs' = [rs EXCEPT ![r] = Fresh(r)]
  /\ Quiet /\ UNCHANGED <<proc, cell, tgt, call, ext, sysemu>>

\* Variant for the mutation run: a missing key stays nil.
HashGetNil(h, n) == IF n \in DOMAIN h THEN h[n] ELSE Nil
HashGetInt(h, n) == IF n \in DOMAIN h THEN h[n] ELSE 0

\* Variant for the mutation run: the structure is not read before it is filled in.
SetRegsBlind(old, h) ==
  [n \in Cells |-> IF n \in Kept THEN 0 ELSE IF n \in General THEN HashGetInt(h, n) ELSE old[n]]
\* set_regs fills in what the kernel has; set_fpregs starts from zeros.
SetRegs(old, h)   == [n \in Cells |-> IF n \in General \ Kept THEN HashGetInt(h, n) ELSE old[n]]
SetFpRegs(old, h) == [n \in Cells |-> IF n \in Unnamed THEN 0
                                      ELSE IF n \in Float THEN HashGetInt(h, n) ELSE old[n]]

WriteRegs(r) ==
  LET p == rs[r].proc IN
  /\ Idle /\ rs[r] # Nil /\ Stopped(p)
  /\ cell' = [cell EXCEPT ![p] = IF rs[r].kind = "gen" THEN SetRegs(@, rs[r].regs)
                                 ELSE SetFpRegs(@, rs[r].regs)]
  /\ rs' = [s \in RegSets |-> IF s = r THEN rs[s] ELSE Outdated(p)[s]]
  /\ Quiet /\ UNCHANGED <<proc, tgt, call, ext, sysemu>>

---------------------------------------------------------------------------
Next ==
  \/ \E p \in Procs : Stops(p) \/ Dies(p) \/ AttachFails(p) \/ Peek(p)
  \/ \E p \in Procs, v \in Values : Poke(p, v)
  \/ \E t \in Targets, p \in Procs : Attach(t, p) \/ Launch(t, p)
  \/ Begun \/ Returned \/ WaitRaises \/ SyscallStops \/ SyscallReads \/ SyscallExit
  \/ \E t \in Targets, op \in Requests : Refused(t, op) \/ Resume(t, op) \/ Unknown(t, op)
  \/ \E t \in Targets : Kill(t) \/ Detach(t)
  \/ \E r \in RegSets : NoRegs(r) \/ ReadRegs(r) \/ WriteRegs(r)
  \/ \E r \in RegSets, t \in Targets, kind \in Kinds : TakeRegs(r, t, kind)
  \/ \E r \in RegSets, n \in Cells : Delete(r, n) \/ \E v \in Values : Edit(r, n, v)

Spec == Init /\ [][Next]_vars

---------------------------------------------------------------------------
(* Properties *)

ProcStates == [state: {"none", "running", "stopped", "zombie", "gone"}, traced: BOOLEAN,
               child: BOOLEAN, adrift: BOOLEAN]
Partial(S) == UNION {[D -> Values] : D \in SUBSET S}
RegSetType == [proc: Procs, target: Targets, kind: Kinds, regs: Partial(Cells),
               current: BOOLEAN, edited: SUBSET Cells]

\* Types: whatever a hash lacks, registers and words are numbers (hash_get_int).
TypeOK ==
  /\ proc \in [Procs -> ProcStates] /\ cell \in [Procs -> [Cells -> Values]]
  /\ tgt \in [Targets -> [proc: Procs, valid: BOOLEAN] \cup {Nil}]
  /\ rs \in [RegSets -> RegSetType \cup {Nil}]
  /\ Idle \/ (call.proc \in Procs /\ call.target \in Targets)
  /\ ext \in BOOLEAN /\ sysemu \in BOOLEAN /\ last.proc \in Procs \cup {Nil}

\* Every exception that a method of a Target, MemArea or RegSet passes on is about the
\* process: InvalidProcessError (Ptrace.rb 138-139: "if the target process has exited")
\* comes of a dead process, of one that sysemu let go without waiting, and of an
\* attached one after a detach; "Success" comes of a peek that read -1, and an error
\* about the address only of a stopped process; Errno::ECHILD of the detach of a process
\* that is no child.
ErrorsExplained ==
  LET p == last.proc IN
  /\ last.err = "No such process" =>
       \/ ~Alive(p) \/ proc[p].adrift \/ (~proc[p].traced /\ ~proc[p].child)
  /\ last.err = "Success" => Stopped(p) /\ cell[p]["word"] = -1
  /\ last.err = "bad address" => Stopped(p)
  /\ last.err = "No child processes" => ~proc[p].traced /\ ~proc[p].child
  /\ last.err = "NameError" => ~ext

\* No live process is left under trace without a handle: between two calls a live traced
\* process has a Target that still takes requests.  The exceptions are a launch that was
\* left by the NameError of Target.new, and, with PT_SYSEMU, a process that was set running
\* without waiting for it and then killed while it ran.
TargetsAccounted ==
  Idle => \A p \in Procs : proc[p].traced /\ Alive(p) =>
            \/ \E t \in Targets : tgt[t] # Nil /\ tgt[t].proc = p /\ (tgt[t].valid \/ sysemu)
            \/ proc[p].child /\ ~ext

\* Writing a RegSet that is up to date changes only what the program has edited, and
\* nothing the kernel keeps; but writing fpregs clears the registers no hash names.
EditsOnly ==
  [][\A r \in RegSets : WriteRegs(r) /\ rs[r].current =>
       {n \in Cells : cell'[rs[r].proc][n] # cell[rs[r].proc][n]} \subseteq
         IF rs[r].kind = "gen" THEN rs[r].edited \ Kept ELSE rs[r].edited \cup Unnamed]_vars
=============================================================================
