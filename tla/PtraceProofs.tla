---------------------------- MODULE PtraceProofs ----------------------------
(***************************************************************************)
(* Theorems about Ptrace, for any number of processes, Targets and         *)
(* RegSets.  The inductive invariant says what a process and the waiting   *)
(* method know of each other.                                              *)
(***************************************************************************)
EXTENDS Ptrace, TLAPS

Waiting(p) == ~Idle /\ call.proc = p

\* Only a process that some method waits for runs while it is traced, unless sysemu let it
\* go; an untraced child is always waited for.
AttendedAt(p) ==
  /\ proc[p].state = "stopped" => proc[p].traced
  /\ proc[p].state = "running" /\ proc[p].traced => proc[p].adrift \/ Waiting(p)
  /\ proc[p].state = "running" /\ proc[p].child /\ ~proc[p].traced => Waiting(p)
  /\ proc[p].adrift => sysemu
Attended == \A p \in Procs : AttendedAt(p)

\* What the method that waits has done before.
CallOK ==
  /\ call.op \in {"read_in", "read_out"} => proc[call.proc].state # "running"
  /\ call.op = "attach" => ext
  /\ call.op = "launch" => proc[call.proc].child
  /\ call.op = "detach" => ~proc[call.proc].traced
  /\ call.op = "kill" => ~Alive(call.proc) \/ sysemu
  /\ call.op \in {"attach", "launch"} => tgt[call.target] = Nil
  /\ call.op \notin {"none", "attach", "launch"} =>
       tgt[call.target] # Nil /\ tgt[call.target].proc = call.proc

\* TargetsAccounted with the processes that are waited for.
OwnedAt(p) == proc[p].traced /\ Alive(p) => Known(p) \/ (proc[p].child /\ ~ext) \/ Waiting(p)
TargetAt(t) ==
  tgt[t] # Nil => /\ proc[tgt[t].proc].state # "none"
                  /\ ~tgt[t].valid => ~Alive(tgt[t].proc) \/ sysemu
Owned == (\A p \in Procs : OwnedAt(p)) /\ (\A t \in Targets : TargetAt(t))

IInv == TypeOK /\ Attended /\ CallOK /\ Owned

---------------------------------------------------------------------------
\* A key that a hash lacks is read as 0 (hash_get_int).
LEMMA HashValue ==
  ASSUME NEW S, NEW h \in Partial(S), NEW n PROVE HashGetInt(h, n) \in Values
<1>1. PICK D \in SUBSET S : h \in [D -> Values] BY DEF Partial
<1>2. CASE n \in DOMAIN h BY <1>1, <1>2 DEF HashGetInt
<1>3. CASE n \notin DOMAIN h BY <1>3, ValuesAssumption DEF HashGetInt
<1> QED BY <1>2, <1>3

\* Writing a register set stores numbers.
LEMMA WrittenCells ==
  ASSUME NEW old \in [Cells -> Values], NEW S, NEW h \in Partial(S)
  PROVE  SetRegs(old, h) \in [Cells -> Values] /\ SetFpRegs(old, h) \in [Cells -> Values]
<1>1. \A n : HashGetInt(h, n) \in Values BY HashValue
<1>2. 0 \in Values BY ValuesAssumption
<1> QED BY <1>1, <1>2 DEF SetRegs, SetFpRegs

\* What a read makes of a register set.
LEMMA FreshOK ==
  ASSUME TypeOK, NEW r \in RegSets, rs[r] # Nil
  PROVE  Fresh(r) \in RegSetType
<1> DEFINE p == rs[r].proc  names == Names(rs[r].kind)
<1>1. rs[r] \in RegSetType BY DEF TypeOK
<1>2. p \in Procs /\ names \in SUBSET Cells
  BY <1>1 DEF RegSetType, Names, Cells, General, Float, Kinds
<1>3. [n \in names |-> cell[p][n]] \in [names -> Values] BY <1>2 DEF TypeOK
<1>4. [n \in names |-> cell[p][n]] \in Partial(Cells) BY <1>2, <1>3 DEF Partial
<1> HIDE DEF names
<1>5. PICK f \in Partial(Cells) : f = [n \in names |-> cell[p][n]] BY <1>4
<1>6. Fresh(r) = [rs[r] EXCEPT !.regs = f, !.current = TRUE, !.edited = {}] BY <1>5 DEF Fresh, names
<1> QED BY <1>1, <1>6 DEF RegSetType

\* The steps of a register set.
Snapshot(r) ==
  \/ NoRegs(r) \/ ReadRegs(r) \/ WriteRegs(r)
  \/ \E t \in Targets, kind \in Kinds : TakeRegs(r, t, kind)
  \/ \E n \in Cells : Delete(r, n) \/ \E v \in Values : Edit(r, n, v)

LEMMA SnapshotTypes ==
  ASSUME TypeOK, NEW r \in RegSets, Snapshot(r)
  PROVE  rs' \in [RegSets -> RegSetType \cup {Nil}] /\ cell' \in [Procs -> [Cells -> Values]]
<1>0. \A s \in RegSets : rs[s] # Nil => rs[s] \in RegSetType BY DEF TypeOK
<1>1. CASE NoRegs(r) BY <1>1 DEF NoRegs, TypeOK
<1>2. CASE ReadRegs(r)
  <2>1. Fresh(r) \in RegSetType BY <1>2, FreshOK DEF ReadRegs
  <2> QED BY <1>2, <2>1 DEF ReadRegs, TypeOK
<1>3. CASE WriteRegs(r)
  <2> DEFINE p == rs[r].proc
  <2>1. rs[r] \in RegSetType BY <1>0, <1>3 DEF WriteRegs
  <2>2. p \in Procs /\ rs[r].regs \in Partial(Cells) BY <2>1 DEF RegSetType
  <2>3. cell[p] \in [Cells -> Values] BY <2>2 DEF TypeOK
  <2>4. /\ SetRegs(cell[p], rs[r].regs) \in [Cells -> Values]
        /\ SetFpRegs(cell[p], rs[r].regs) \in [Cells -> Values]
    BY <2>2, <2>3, WrittenCells
  <2>5. cell' \in [Procs -> [Cells -> Values]] BY <1>3, <2>2, <2>4 DEF WriteRegs, TypeOK
  <2>6. \A s \in RegSets : Outdated(p)[s] \in RegSetType \cup {Nil}
    BY <1>0 DEF Outdated, RegSetType
  <2> QED BY <1>3, <2>5, <2>6 DEF WriteRegs, TypeOK
<1>4. ASSUME NEW t \in Targets, NEW kind \in Kinds, TakeRegs(r, t, kind)
      PROVE  rs' \in [RegSets -> RegSetType \cup {Nil}] /\ UNCHANGED cell
  <2>1. tgt[t].proc \in Procs BY <1>4 DEF TakeRegs, TypeOK
  <2>2. [n \in {} |-> 0] \in [{} -> Values] OBVIOUS
  <2>3. [n \in {} |-> 0] \in Partial(Cells) BY <2>2 DEF Partial
  <2>4. PICK f \in Partial(Cells) : f = [n \in {} |-> 0] BY <2>3
  <2>5. rs' = [rs EXCEPT ![r] = [proc |-> tgt[t].proc, target |-> t, kind |-> kind, regs |-> f,
                                 current |-> FALSE, edited |-> {}]]
    BY <1>4, <2>4 DEF TakeRegs
  <2> QED BY <1>4, <2>1, <2>5 DEF TakeRegs, TypeOK, RegSetType
<1>5. ASSUME NEW n \in Cells, NEW v \in Values, Edit(r, n, v)
      PROVE  rs' \in [RegSets -> RegSetType \cup {Nil}] /\ UNCHANGED cell
  <2> DEFINE h == rs[r].regs
             g == [k \in DOMAIN h \cup {n} |-> IF k = n THEN v ELSE h[k]]
  <2>1. rs[r] \in RegSetType BY <1>0, <1>5 DEF Edit
  <2>2. PICK D \in SUBSET Cells : h \in [D -> Values] BY <2>1 DEF RegSetType, Partial
  <2>3. g \in [D \cup {n} -> Values] BY <2>2
  <2>4. g \in Partial(Cells) BY <2>3 DEF Partial
  <2>5. PICK f \in Partial(Cells) : f = g BY <2>4
  <2>6. rs' = [rs EXCEPT ![r] = [rs[r] EXCEPT !.regs = f, !.edited = @ \cup {n}]]
    BY <1>5, <2>1, <2>5 DEF Edit, TypeOK
  <2>7. [rs[r] EXCEPT !.regs = f, !.edited = @ \cup {n}] \in RegSetType BY <2>1 DEF RegSetType
  <2> HIDE DEF g, h
  <2> QED BY <1>5, <2>6, <2>7 DEF Edit, TypeOK
<1>6. ASSUME NEW n \in Cells, Delete(r, n)
      PROVE  rs' \in [RegSets -> RegSetType \cup {Nil}] /\ UNCHANGED cell
  <2> DEFINE h == rs[r].regs
             g == [k \in DOMAIN h \ {n} |-> h[k]]
  <2>1. rs[r] \in RegSetType BY <1>0, <1>6 DEF Delete
  <2>2. PICK D \in SUBSET Cells : h \in [D -> Values] BY <2>1 DEF RegSetType, Partial
  <2>3. g \in [D \ {n} -> Values] BY <2>2
  <2>4. g \in Partial(Cells) BY <2>3 DEF Partial
  <2>5. PICK f \in Partial(Cells) : f = g BY <2>4
  <2>6. rs' = [rs EXCEPT ![r] = [rs[r] EXCEPT !.regs = f, !.edited = @ \cup {n}]]
    BY <1>6, <2>1, <2>5 DEF Delete, TypeOK
  <2>7. [rs[r] EXCEPT !.regs = f, !.edited = @ \cup {n}] \in RegSetType BY <2>1 DEF RegSetType
  <2> HIDE DEF g, h
  <2> QED BY <1>6, <2>6, <2>7 DEF Delete, TypeOK
<1> QED BY <1>1, <1>2, <1>3, <1>4, <1>5, <1>6 DEF Snapshot, TypeOK

---------------------------------------------------------------------------
\* A snapshot step, a peek, a poke and every refusal leave what the rest is about alone.
LEMMA Untouched ==
  ASSUME Attended, CallOK, Owned, UNCHANGED <<proc, tgt, call, ext, sysemu>>
  PROVE  Attended' /\ CallOK' /\ Owned'
BY DEF Attended, AttendedAt, CallOK, Owned, OwnedAt, TargetAt, Waiting, Idle, NoCall, Alive, Known

\* The method that waits, if there is one, waits for a process.
LEMMA CallTyped ==
  ASSUME TypeOK, call.op # "none"
  PROVE  ~Idle /\ call.proc \in Procs /\ call.target \in Targets
BY DEF TypeOK, Idle, NoCall

\* A step that changes one process, which no method or the only one waits for, has to
\* establish what is said of that process.
LEMMA OneProcess ==
  ASSUME IInv, NEW p \in Procs, \A x \in Procs \ {p} : Waiting(x) => Waiting(x)',
         UNCHANGED <<ext, sysemu>>,
         \A x \in Procs \ {p} : proc'[x] = proc[x],
         \A t \in Targets : tgt[t] # Nil => tgt'[t] # Nil /\ tgt'[t].proc = tgt[t].proc,
         \A t \in Targets : tgt'[t] # Nil => tgt'[t].proc \in Procs,
         \A t \in Targets : tgt'[t] # Nil /\ tgt'[t].proc # p => tgt'[t] = tgt[t],
         \A t \in Targets : tgt'[t] # Nil /\ tgt'[t].proc = p => TargetAt(t)',
         AttendedAt(p)', OwnedAt(p)'
  PROVE  Attended' /\ Owned'
<1>1. ASSUME NEW x \in Procs \ {p} PROVE AttendedAt(x)'
  BY <1>1 DEF IInv, Attended, AttendedAt
<1>2. ASSUME NEW x \in Procs \ {p} PROVE OwnedAt(x)'
  <2>1. Known(x) => Known(x)' BY DEF Known
  <2> QED BY <2>1, <1>2 DEF IInv, Owned, OwnedAt, Alive
<1>3. ASSUME NEW t \in Targets PROVE TargetAt(t)'
  <2>1. CASE tgt'[t] # Nil /\ tgt'[t].proc # p
    <3>1. tgt'[t] = tgt[t] /\ TargetAt(t) BY <2>1 DEF IInv, Owned
    <3>2. proc'[tgt'[t].proc] = proc[tgt[t].proc] BY <2>1, <3>1
    <3> QED BY <2>1, <3>1, <3>2 DEF TargetAt, Alive
  <2> QED BY <2>1 DEF TargetAt
<1> QED BY <1>1, <1>2, <1>3 DEF Attended, Owned

\* Stops and deaths, at any time.
LEMMA KernelStep ==
  ASSUME IInv, NEW p \in Procs, Stops(p) \/ Dies(p)
  PROVE  IInv'
<1> DEFINE stopped == [proc[p] EXCEPT !.state = "stopped", !.adrift = FALSE]
           dead(s) == [proc[p] EXCEPT !.state = s]
<1>a. proc \in [Procs -> ProcStates] /\ proc[p] \in ProcStates BY DEF IInv, TypeOK
<1>b. PICK q \in ProcStates : proc' = [proc EXCEPT ![p] = q] /\
          (q = stopped \/ q = dead("zombie") \/ q = dead("gone"))
  <2>1. stopped \in ProcStates /\ dead("zombie") \in ProcStates /\ dead("gone") \in ProcStates
    BY <1>a DEF ProcStates
  <2>2. ASSUME Stops(p) PROVE proc' = [proc EXCEPT ![p] = stopped] BY <1>a, <2>2 DEF Stops
  <2>3. ASSUME Dies(p)
        PROVE  proc' = [proc EXCEPT ![p] = dead("zombie")] \/ proc' = [proc EXCEPT ![p] = dead("gone")]
    BY <1>a, <2>3 DEF Dies
  <2> HIDE DEF stopped, dead
  <2> QED BY <2>1, <2>2, <2>3
<1>0. /\ UNCHANGED <<tgt, call, ext, sysemu>> /\ last' = Silent /\ proc[p] \in ProcStates
      /\ Alive(p) /\ proc' \in [Procs -> ProcStates] /\ \A x \in Procs \ {p} : proc'[x] = proc[x]
  <2>1. UNCHANGED <<tgt, call, ext, sysemu>> /\ last' = Silent /\ Alive(p)
    BY DEF Stops, Dies, Quiet, Alive
  <2> QED BY <1>a, <1>b, <2>1
<1>1. /\ proc'[p].state \in {"stopped", "zombie", "gone"}
      /\ proc'[p].state = "stopped" => proc[p].traced /\ proc'[p].traced
      /\ (proc'[p].child <=> proc[p].child) /\ (proc'[p].traced <=> proc[p].traced)
      /\ proc'[p].adrift => proc[p].adrift
      /\ Alive(p)' => Alive(p)
  BY DEF Stops, Dies, IInv, TypeOK, ProcStates, Alive
<1>2. TypeOK'
  <2>1. ASSUME Stops(p) PROVE cell' \in [Procs -> [Cells -> Values]] /\ rs' = Outdated(p)
    BY <2>1 DEF Stops, IInv, TypeOK
  <2>2. \A r \in RegSets : Outdated(p)[r] \in RegSetType \cup {Nil}
    <3>1. \A r \in RegSets : rs[r] # Nil => rs[r] \in RegSetType BY DEF IInv, TypeOK
    <3> QED BY <3>1 DEF Outdated, RegSetType
  <2>3. Outdated(p) \in [RegSets -> RegSetType \cup {Nil}] BY <2>2 DEF Outdated
  <2>4. ASSUME Dies(p) PROVE UNCHANGED <<cell, rs>> BY <2>4 DEF Dies
  <2>5. cell' \in [Procs -> [Cells -> Values]] /\ rs' \in [RegSets -> RegSetType \cup {Nil}]
    BY <2>1, <2>3, <2>4 DEF IInv, TypeOK
  <2>6. last'.proc \in Procs \cup {Nil} BY <1>0 DEF Silent
  <2> QED BY <1>0, <2>5, <2>6 DEF IInv, TypeOK, Idle
<1>3. AttendedAt(p)' BY <1>0, <1>1 DEF IInv, Attended, AttendedAt
<1>4. OwnedAt(p)'
  <2>1. (Known(p) => Known(p)') /\ (Waiting(p) => Waiting(p)') BY <1>0 DEF Known, Waiting, Idle
  <2> QED BY <1>0, <1>1, <2>1 DEF IInv, Owned, OwnedAt, Known, Waiting, Idle
<1>5. \A t \in Targets : tgt'[t] # Nil /\ tgt'[t].proc = p => TargetAt(t)'
  BY <1>0, <1>1 DEF IInv, Owned, TargetAt, Alive
<1>6. Attended' /\ Owned'
  <2>1. \A t \in Targets : tgt[t] # Nil => tgt[t].proc \in Procs BY DEF IInv, TypeOK
  <2>2. \A x : Waiting(x) => Waiting(x)' BY <1>0 DEF Waiting, Idle
  <2> QED BY <1>0, <1>3, <1>4, <1>5, <2>1, <2>2, OneProcess
<1>7. CallOK'
  <2>1. call.op # "none" => call.proc \in Procs BY CallTyped DEF IInv
  <2>2. call.proc = p /\ Alive(call.proc)' => Alive(call.proc) BY <1>0, <1>1
  <2> QED BY <1>0, <1>1, <2>1, <2>2 DEF IInv, CallOK, Alive
<1> QED BY <1>2, <1>6, <1>7 DEF IInv

\* Attach and launch, up to their waitpid.
LEMMA AttachStep ==
  ASSUME IInv, NEW t \in Targets, NEW p \in Procs, Attach(t, p) \/ Launch(t, p)
  PROVE  IInv'
<1> DEFINE o == IF Attach(t, p) THEN "attach" ELSE "launch"
<1>0. /\ Idle /\ call' = [op |-> o, proc |-> p, target |-> t] /\ last' = Silent /\ tgt[t] = Nil
      /\ UNCHANGED <<cell, tgt, rs, ext, sysemu>>
  BY DEF Attach, Launch, Quiet, Wait, Unused
<1>a. proc \in [Procs -> ProcStates] /\ proc[p] \in ProcStates BY DEF IInv, TypeOK
<1>b. PICK q \in ProcStates :
        /\ proc' = [proc EXCEPT ![p] = q] /\ q.state = "running" /\ q.adrift = proc[p].adrift
        /\ o = "launch" => q.child
  <2>1. CASE Attach(t, p)
    <3> DEFINE q == [proc[p] EXCEPT !.traced = TRUE]
    <3>1. q \in ProcStates /\ q.state = proc[p].state /\ q.adrift = proc[p].adrift
      BY <1>a DEF ProcStates
    <3>2. proc' = [proc EXCEPT ![p] = q] /\ proc[p].state = "running" BY <1>a, <2>1 DEF Attach
    <3> HIDE DEF q
    <3> QED BY <2>1, <3>1, <3>2
  <2>2. CASE Launch(t, p)
    <3>1. PICK b \in BOOLEAN :
            proc' = [proc EXCEPT ![p].state = "running", ![p].child = TRUE, ![p].traced = b]
      BY <2>2 DEF Launch
    <3> DEFINE q == [proc[p] EXCEPT !.state = "running", !.child = TRUE, !.traced = b]
    <3>2. q \in ProcStates /\ q.state = "running" /\ q.adrift = proc[p].adrift /\ q.child
      BY <1>a DEF ProcStates
    <3>3. proc' = [proc EXCEPT ![p] = q] BY <1>a, <3>1
    <3> HIDE DEF q
    <3> QED BY <3>2, <3>3
  <2> QED BY <2>1, <2>2
<1>1. /\ proc' \in [Procs -> ProcStates] /\ \A x \in Procs \ {p} : proc'[x] = proc[x]
      /\ proc'[p].state = "running" /\ (proc'[p].adrift => proc[p].adrift)
      /\ o = "attach" => ext
      /\ o = "launch" => proc'[p].child
  <2>1. o = "attach" => ext BY DEF Attach
  <2> HIDE DEF o
  <2> QED BY <1>a, <1>b, <2>1
<1>2. Waiting(p)' BY <1>0 DEF Waiting, Idle, NoCall
<1>3. TypeOK' BY <1>0, <1>1 DEF IInv, TypeOK, Silent
<1>4. AttendedAt(p)' BY <1>0, <1>1, <1>2 DEF IInv, Attended, AttendedAt
<1>5. OwnedAt(p)' BY <1>2 DEF OwnedAt
<1>6. \A s \in Targets : tgt'[s] # Nil /\ tgt'[s].proc = p => TargetAt(s)'
  <2>1. \A s \in Targets : TargetAt(s) BY DEF IInv, Owned
  <2>2. proc[p].state # "none" => Alive(p)
    BY DEF Attach, Launch, Alive
  <2> QED BY <1>0, <1>1, <2>1, <2>2 DEF TargetAt, Alive
<1>7. Attended' /\ Owned'
  <2>1. \A s \in Targets : tgt[s] # Nil => tgt[s].proc \in Procs BY DEF IInv, TypeOK
  <2>2. \A x : ~Waiting(x) BY <1>0 DEF Waiting
  <2> QED BY <1>0, <1>1, <1>4, <1>5, <1>6, <2>1, <2>2, OneProcess
<1>8. CallOK' BY <1>0, <1>1 DEF CallOK
<1> QED BY <1>3, <1>7, <1>8 DEF IInv

\* What waitpid leaves of the process.
LEMMA AfterWait ==
  ASSUME TypeOK, NEW p \in Procs, WaitReturns(p), Collected(p)
  PROVE  /\ proc' \in [Procs -> ProcStates]
         /\ \A x \in Procs : x # p => proc'[x] = proc[x]
         /\ proc'[p].state \in {"stopped", "gone"}
         /\ proc'[p].state = "stopped" => proc' = proc /\ Stopped(p)
         /\ (proc'[p].child <=> proc[p].child) /\ (proc'[p].adrift <=> proc[p].adrift)
<1>0. proc \in [Procs -> ProcStates] BY DEF TypeOK
<1>1. CASE proc[p].state = "zombie"
  <2>1. proc' = [proc EXCEPT ![p].state = "gone", ![p].traced = FALSE]
    BY <1>1 DEF Collected, Reaped
  <2>2. proc[p] \in ProcStates BY <1>0
  <2> DEFINE q == [proc[p] EXCEPT !.state = "gone", !.traced = FALSE]
  <2>3. proc' = [proc EXCEPT ![p] = q] BY <1>0, <2>1, <2>2
  <2>4. q \in ProcStates /\ q.state = "gone" /\ q.child = proc[p].child /\ q.adrift = proc[p].adrift
    BY <2>2 DEF ProcStates
  <2> HIDE DEF q
  <2> QED BY <1>0, <2>3, <2>4
<1>2. CASE proc[p].state # "zombie"
  BY <1>2 DEF TypeOK, ProcStates, Collected, WaitReturns, Stopped
<1> QED BY <1>1, <1>2

\* The end of a waitpid: nobody waits any more, and the process has stopped or is gone.
LEMMA WaitEnds ==
  ASSUME IInv, ~Idle, NEW p \in Procs, call.proc = p, call' = NoCall,
         UNCHANGED <<ext, sysemu>>,
         WaitReturns(p), Collected(p),
         \A t \in Targets : tgt[t] # Nil => tgt'[t] # Nil /\ tgt'[t].proc = tgt[t].proc,
         \A t \in Targets : tgt'[t] # Nil => tgt'[t].proc \in Procs,
         \A t \in Targets : tgt'[t] # Nil /\ tgt'[t].proc # p => tgt'[t] = tgt[t],
         \A t \in Targets : tgt'[t] # Nil /\ tgt'[t].proc = p /\ ~tgt'[t].valid =>
                              \/ (tgt[t] = tgt'[t])
                              \/ ~Alive(p) \/ sysemu,
         (\E t \in Targets : tgt'[t] # Nil /\ tgt'[t].proc = p) \/ (proc[p].child /\ ~ext)
  PROVE  proc' \in [Procs -> ProcStates] /\ Attended' /\ CallOK' /\ Owned'
<1>1. /\ proc' \in [Procs -> ProcStates] /\ \A x \in Procs : x # p => proc'[x] = proc[x]
      /\ proc'[p].state \in {"stopped", "gone"}
      /\ proc'[p].state = "stopped" => proc' = proc /\ Stopped(p)
      /\ (proc'[p].child <=> proc[p].child) /\ (proc'[p].adrift <=> proc[p].adrift)
  BY AfterWait DEF IInv
<1>2. AttendedAt(p)' BY <1>1 DEF IInv, Attended, AttendedAt, Stopped
<1>3. OwnedAt(p)' BY <1>1 DEF OwnedAt, Known
<1>4. Alive(p)' => Alive(p) BY <1>1 DEF Alive
<1>5. ASSUME NEW t \in Targets, tgt'[t] # Nil /\ tgt'[t].proc = p PROVE TargetAt(t)'
  <2>1. TargetAt(t) BY DEF IInv, Owned
  <2>2. proc'[p].state # "none" BY <1>1
  <2> QED BY <1>4, <1>5, <2>1, <2>2 DEF TargetAt
<1>6. \A x \in Procs \ {p} : ~Waiting(x) BY DEF Waiting
<1>7. Attended' /\ Owned' BY <1>1, <1>2, <1>3, <1>5, <1>6, OneProcess
<1>8. CallOK' BY DEF CallOK, NoCall
<1> QED BY <1>1, <1>7, <1>8

\* Target.new after attach or launch.
LEMMA BegunStep ==
  ASSUME IInv, Begun PROVE IInv'
<1> DEFINE p == call.proc  t == call.target
<1>1. /\ call.op \in {"attach", "launch"} /\ WaitReturns(p) /\ Collected(p) /\ call' = NoCall
      /\ UNCHANGED <<cell, rs, ext, sysemu>>
  BY DEF Begun
<1>2. ~Idle /\ p \in Procs /\ t \in Targets BY <1>1, CallTyped DEF IInv
<1>3. tgt[t] = Nil /\ (~ext => proc[p].child) BY <1>1 DEF IInv, CallOK
<1>4. \A s \in Targets : tgt[s] # Nil => tgt[s].proc \in Procs BY DEF IInv, TypeOK
<1>5. CASE ext
  <2>1. tgt' = [tgt EXCEPT ![t] = [proc |-> p, valid |-> TRUE]] /\ last' = Silent
    BY <1>5 DEF Begun, Quiet
  <2>2. tgt' \in [Targets -> [proc: Procs, valid: BOOLEAN] \cup {Nil}] BY <1>2, <2>1 DEF IInv, TypeOK
  <2>3. tgt'[t] = [proc |-> p, valid |-> TRUE] /\ \A s \in Targets : s # t => tgt'[s] = tgt[s]
    BY <1>2, <2>1 DEF IInv, TypeOK
  <2>4. tgt'[t] # Nil /\ tgt'[t].proc = p /\ tgt'[t].valid
    <3> DEFINE u == [proc |-> p, valid |-> TRUE]
    <3>1. u \in [proc: Procs, valid: BOOLEAN] BY <1>2
    <3>2. u # Nil BY <3>1, NilAssumption
    <3>3. u.proc = p /\ u.valid = TRUE OBVIOUS
    <3>4. tgt'[t] = u BY <2>3
    <3> QED BY <3>2, <3>3, <3>4
  <2>5. proc' \in [Procs -> ProcStates] /\ Attended' /\ CallOK' /\ Owned'
    <3>1. \A s \in Targets : tgt[s] # Nil => tgt'[s] = tgt[s] BY <1>3, <2>3
    <3>2. \A s \in Targets : s = t \/ tgt'[s] = tgt[s] BY <2>3
    <3> HIDE DEF p, t
    <3>3. p = call.proc BY DEF p
    <3>4. \A s \in Targets : tgt'[s] # Nil => tgt'[s].proc \in Procs BY <1>2, <1>4, <2>4, <3>2
    <3>5. \A s \in Targets : tgt'[s] # Nil /\ tgt'[s].proc # p => tgt'[s] = tgt[s] BY <2>4, <3>2
    <3>6. \A s \in Targets : ~tgt'[s].valid => tgt'[s] = tgt[s] BY <2>4, <3>2
    <3> QED BY <1>1, <1>2, <2>4, <3>1, <3>3, <3>4, <3>5, <3>6, WaitEnds
  <2>6. TypeOK'
    <3>1. Idle' /\ last'.proc \in Procs \cup {Nil} BY <1>1, <2>1 DEF Idle, Silent
    <3> QED BY <1>1, <2>2, <2>5, <3>1 DEF IInv, TypeOK
  <2> QED BY <2>5, <2>6 DEF IInv
<1>6. CASE ~ext
  <2>1. tgt' = tgt /\ last' = [err |-> "NameError", proc |-> p] BY <1>6 DEF Begun, Err
  <2>5. proc' \in [Procs -> ProcStates] /\ Attended' /\ CallOK' /\ Owned'
    BY <1>1, <1>2, <1>3, <1>4, <1>6, <2>1, WaitEnds
  <2>6. TypeOK'
    <3>1. Idle' /\ last'.proc \in Procs \cup {Nil} BY <1>1, <1>2, <2>1 DEF Idle
    <3> QED BY <1>1, <2>1, <2>5, <3>1 DEF IInv, TypeOK
  <2> QED BY <2>5, <2>6 DEF IInv
<1> QED BY <1>5, <1>6

\* The waitpid that ends a request.
LEMMA ReturnedStep ==
  ASSUME IInv, Returned PROVE IInv'
<1> DEFINE p == call.proc  t == call.target
<1>1. /\ call.op \in Waits \ {"syscall_state"} /\ WaitReturns(p) /\ Collected(p) /\ call' = NoCall
      /\ last' = Silent /\ UNCHANGED <<cell, rs, ext, sysemu>>
      /\ tgt' = IF call.op \in Invalidates THEN [tgt EXCEPT ![t].valid = FALSE] ELSE tgt
  BY DEF Returned, Quiet
<1>2. call.op \notin {"none", "attach", "launch"}
  BY <1>1 DEF Waits, Requests, Resuming
<1>3. ~Idle /\ p \in Procs /\ t \in Targets BY <1>2, CallTyped DEF IInv
<1>4. tgt[t] # Nil /\ tgt[t].proc = p BY <1>2 DEF IInv, CallOK
<1>5. /\ tgt \in [Targets -> [proc: Procs, valid: BOOLEAN] \cup {Nil}]
      /\ tgt[t] \in [proc: Procs, valid: BOOLEAN]
  BY <1>3, <1>4 DEF IInv, TypeOK
<1>6. CASE call.op \in Invalidates
  <2> DEFINE u == [tgt[t] EXCEPT !.valid = FALSE]
  <2>1. tgt' = [tgt EXCEPT ![t] = u] BY <1>1, <1>3, <1>5, <1>6
  <2>2. u \in [proc: Procs, valid: BOOLEAN] /\ u.proc = p BY <1>4, <1>5
  <2>3. u # Nil BY <2>2, NilAssumption
  <2> HIDE DEF u
  <2>4. tgt' \in [Targets -> [proc: Procs, valid: BOOLEAN] \cup {Nil}] BY <1>5, <2>1, <2>2
  <2>5. tgt'[t] = u /\ \A s \in Targets : s # t => tgt'[s] = tgt[s] BY <1>3, <1>5, <2>1
  <2>6. ~Alive(p) \/ sysemu
    <3>1. CASE call.op = "kill" BY <3>1 DEF IInv, CallOK
    <3>2. CASE call.op = "detach"
      <4>1. ~proc[p].traced BY <3>2 DEF IInv, CallOK
      <4> QED BY <1>1, <4>1 DEF WaitReturns, Stopped, Alive
    <3> QED BY <1>6, <3>1, <3>2 DEF Invalidates
  <2>7. proc' \in [Procs -> ProcStates] /\ Attended' /\ CallOK' /\ Owned'
    <3> HIDE DEF p, t
    <3>1. p = call.proc BY DEF p
    <3>2. \A s \in Targets : tgt[s] # Nil => tgt'[s] # Nil /\ tgt'[s].proc = tgt[s].proc
      BY <1>4, <2>2, <2>3, <2>5
    <3>3. \A s \in Targets : tgt'[s] # Nil => tgt'[s].proc \in Procs
      BY <1>3, <1>5, <2>2, <2>5
    <3>4. \A s \in Targets : tgt'[s] # Nil /\ tgt'[s].proc # p => tgt'[s] = tgt[s] BY <2>2, <2>5
    <3>5. tgt'[t] # Nil /\ tgt'[t].proc = p BY <2>2, <2>3, <2>5
    <3> QED BY <1>1, <1>3, <2>6, <3>1, <3>2, <3>3, <3>4, <3>5, WaitEnds
  <2>8. TypeOK'
    <3>1. Idle' /\ last'.proc \in Procs \cup {Nil} BY <1>1 DEF Idle, Silent
    <3> QED BY <1>1, <2>4, <2>7, <3>1 DEF IInv, TypeOK
  <2> QED BY <2>7, <2>8 DEF IInv
<1>7. CASE call.op \notin Invalidates
  <2>1. tgt' = tgt BY <1>1, <1>7
  <2>2. \A s \in Targets : tgt[s] # Nil => tgt[s].proc \in Procs BY <1>5
  <2>3. proc' \in [Procs -> ProcStates] /\ Attended' /\ CallOK' /\ Owned'
    BY <1>1, <1>3, <1>4, <2>1, <2>2, WaitEnds
  <2>4. TypeOK'
    <3>1. Idle' /\ last'.proc \in Procs \cup {Nil} BY <1>1 DEF Idle, Silent
    <3> QED BY <1>1, <2>1, <2>3, <3>1 DEF IInv, TypeOK
  <2> QED BY <2>3, <2>4 DEF IInv
<1> QED BY <1>6, <1>7

\* A method that returns without a further wait.
LEMMA CallLeaves ==
  ASSUME IInv, ~Idle, NEW p \in Procs, call.proc = p, call' = NoCall,
         UNCHANGED <<proc, tgt, ext, sysemu>>,
         WaitFails(p) \/ (proc[p].state # "running" /\ Known(p))
  PROVE  Attended' /\ CallOK' /\ Owned'
<1>1. AttendedAt(p)' BY DEF IInv, Attended, AttendedAt, WaitFails
<1>2. OwnedAt(p)' BY DEF OwnedAt, Known, WaitFails
<1>3. \A t \in Targets : TargetAt(t)' BY DEF IInv, Owned, TargetAt, Alive
<1>4. \A x \in Procs \ {p} : ~Waiting(x) BY DEF Waiting
<1>5. \A t \in Targets : tgt[t] # Nil => tgt[t].proc \in Procs BY DEF IInv, TypeOK
<1>6. Attended' /\ Owned' BY <1>1, <1>2, <1>3, <1>4, <1>5, OneProcess
<1>7. CallOK' BY DEF CallOK, NoCall
<1> QED BY <1>6, <1>7

\* Errno::ECHILD.
LEMMA WaitRaisesStep ==
  ASSUME IInv, WaitRaises PROVE IInv'
<1> DEFINE p == call.proc
<1>1. /\ ~Idle /\ WaitFails(p) /\ call' = NoCall /\ last' = [err |-> "No child processes", proc |-> p]
      /\ UNCHANGED <<proc, cell, tgt, rs, ext, sysemu>>
  BY DEF WaitRaises, Err
<1>2. p \in Procs BY <1>1 DEF IInv, TypeOK
<1>3. Attended' /\ CallOK' /\ Owned' BY <1>1, <1>2, CallLeaves
<1>4. TypeOK' BY <1>1, <1>2 DEF IInv, TypeOK, Idle
<1> QED BY <1>3, <1>4 DEF IInv

\* syscall_state, from the first stop to its return.
LEMMA SyscallStep ==
  ASSUME IInv, SyscallStops \/ SyscallReads \/ SyscallExit PROVE IInv'
<1>1. call.op \in {"syscall_state", "syscall_out", "read_in", "read_out"} /\ last' = Silent
      /\ UNCHANGED <<cell, tgt, ext, sysemu>>
  BY DEF SyscallStops, SyscallReads, SyscallExit, Quiet
<1>a. ~Idle /\ call.proc \in Procs /\ call.target \in Targets BY <1>1, CallTyped DEF IInv
<1>b. PICK p \in Procs, t \in Targets : p = call.proc /\ t = call.target BY <1>a
<1>2. ~Idle /\ p \in Procs /\ t \in Targets BY <1>a
<1>3. tgt[t] # Nil /\ tgt[t].proc = p BY <1>1, <1>b DEF IInv, CallOK
<1>4. Known(p) BY <1>2, <1>3 DEF Known
<1>5. /\ proc \in [Procs -> ProcStates] /\ cell \in [Procs -> [Cells -> Values]]
      /\ tgt \in [Targets -> [proc: Procs, valid: BOOLEAN] \cup {Nil}]
      /\ rs \in [RegSets -> RegSetType \cup {Nil}]
      /\ ext \in BOOLEAN /\ sysemu \in BOOLEAN
  BY DEF IInv, TypeOK
<1>6. \A s \in Targets : tgt[s] # Nil => tgt[s].proc \in Procs BY <1>5
<1>7. \A x \in Procs \ {p} : ~Waiting(x) BY <1>b DEF Waiting
<1>8. \A s \in Targets : TargetAt(s) BY DEF IInv, Owned
<1>9. AttendedAt(p) BY <1>2 DEF IInv, Attended
<1>10. last'.proc \in Procs \cup {Nil} BY <1>1 DEF Silent
<1>11. CASE SyscallStops
  <2> DEFINE o == IF call.op = "syscall_state" THEN "read_in" ELSE "read_out"
  <2>1. /\ WaitReturns(p) /\ Collected(p) /\ call' = [op |-> o, proc |-> p, target |-> t]
        /\ UNCHANGED rs
    BY <1>11, <1>b DEF SyscallStops, Wait
  <2>2. /\ proc' \in [Procs -> ProcStates] /\ \A x \in Procs : x # p => proc'[x] = proc[x]
        /\ proc'[p].state \in {"stopped", "gone"}
        /\ proc'[p].state = "stopped" => proc' = proc /\ Stopped(p)
        /\ (proc'[p].child <=> proc[p].child) /\ (proc'[p].adrift <=> proc[p].adrift)
    BY <1>2, <2>1, AfterWait DEF IInv
  <2>3. AttendedAt(p)' BY <1>1, <1>9, <2>2 DEF AttendedAt, Stopped
  <2>4. OwnedAt(p)' BY <1>1, <1>4 DEF OwnedAt, Known
  <2>5. Alive(p)' => Alive(p) BY <2>2 DEF Alive
  <2>6. \A s \in Targets : tgt'[s] # Nil /\ tgt'[s].proc = p => TargetAt(s)'
    BY <1>1, <1>8, <2>2, <2>5 DEF TargetAt
  <2>7. Attended' /\ Owned'
    <3> QED BY <1>1, <1>2, <1>6, <1>7, <2>2, <2>3, <2>4, <2>6, OneProcess
  <2>8. o \in {"read_in", "read_out"} OBVIOUS
  <2>9. CallOK'
    <3> HIDE DEF o
    <3> QED BY <1>1, <1>3, <2>1, <2>2, <2>8 DEF CallOK
  <2>10. TypeOK' BY <1>1, <1>2, <1>5, <1>10, <2>1, <2>2 DEF TypeOK
  <2> QED BY <2>7, <2>9, <2>10 DEF IInv
<1>12. CASE SyscallReads
  <2>1. Stopped(p) /\ rs' = Refreshed(t) BY <1>12, <1>b DEF SyscallReads
  <2>2. rs' \in [RegSets -> RegSetType \cup {Nil}]
    <3>1. \A r \in RegSets : rs[r] # Nil => Fresh(r) \in RegSetType BY FreshOK DEF IInv
    <3>2. \A r \in RegSets : Refreshed(t)[r] \in RegSetType \cup {Nil}
      BY <1>5, <3>1 DEF Refreshed
    <3> QED BY <2>1, <3>2 DEF Refreshed
  <2>3. CASE call.op = "read_in"
    <3> DEFINE q == [proc[p] EXCEPT !.state = "running"]
    <3>1. /\ proc' = [proc EXCEPT ![p].state = "running"]
          /\ call' = [op |-> "syscall_out", proc |-> p, target |-> t]
      BY <1>12, <1>b, <2>3 DEF SyscallReads, Resumed, Wait
    <3>2. q \in ProcStates /\ q.state = "running" /\ q.traced = proc[p].traced /\ q.adrift = proc[p].adrift
      BY <1>2, <1>5 DEF ProcStates
    <3>3. proc' = [proc EXCEPT ![p] = q] BY <1>2, <1>5, <3>1
    <3> HIDE DEF q
    <3>4. /\ proc' \in [Procs -> ProcStates] /\ \A x \in Procs : x # p => proc'[x] = proc[x]
          /\ proc'[p] = q
      BY <1>2, <1>5, <3>2, <3>3
    <3>5. Waiting(p)' BY <3>1 DEF Waiting, Idle, NoCall
    <3>6. AttendedAt(p)' BY <1>1, <1>9, <3>2, <3>4, <3>5 DEF AttendedAt
    <3>7. OwnedAt(p)' BY <3>5 DEF OwnedAt
    <3>8. \A s \in Targets : tgt'[s] # Nil /\ tgt'[s].proc = p => TargetAt(s)'
      BY <1>1, <1>8, <2>1, <3>2, <3>4 DEF TargetAt, Alive, Stopped
    <3>9. Attended' /\ Owned'
      <4> QED BY <1>1, <1>2, <1>6, <1>7, <3>4, <3>6, <3>7, <3>8, OneProcess
    <3>10. CallOK' BY <1>1, <1>3, <3>1 DEF CallOK
    <3>11. TypeOK' BY <1>1, <1>2, <1>5, <1>10, <2>2, <3>1, <3>4 DEF TypeOK
    <3> QED BY <3>9, <3>10, <3>11 DEF IInv
  <2>4. CASE call.op # "read_in"
    <3>1. UNCHANGED proc /\ call' = NoCall BY <1>12, <2>4 DEF SyscallReads
    <3>2. Attended' /\ CallOK' /\ Owned'
      BY <1>1, <1>2, <1>4, <1>b, <2>1, <3>1, CallLeaves DEF Stopped
    <3>3. TypeOK' BY <1>1, <1>5, <1>10, <2>2, <3>1 DEF TypeOK, Idle
    <3> QED BY <3>2, <3>3 DEF IInv
  <2> QED BY <2>3, <2>4
<1>13. CASE SyscallExit
  <2>1. call' = NoCall /\ UNCHANGED <<proc, rs>> /\ call.op \in {"read_in", "read_out"}
    BY <1>13 DEF SyscallExit
  <2>2. proc[p].state # "running" BY <2>1, <1>b DEF IInv, CallOK
  <2>3. Attended' /\ CallOK' /\ Owned' BY <1>1, <1>2, <1>4, <1>b, <2>1, <2>2, CallLeaves
  <2>4. TypeOK' BY <1>1, <1>5, <1>10, <2>1 DEF TypeOK, Idle
  <2> QED BY <2>3, <2>4 DEF IInv
<1> QED BY <1>11, <1>12, <1>13

\* A request that was taken, with what it makes of the process.
LEMMA RequestTaken ==
  ASSUME IInv, Idle, NEW t \in Targets, tgt[t] # Nil, NEW p \in Procs, tgt[t].proc = p,
         NEW op \in Requests, NEW q \in ProcStates,
         proc' = [proc EXCEPT ![p] = q], After(op, p, t), last' = Silent,
         UNCHANGED <<cell, tgt, rs, ext, sysemu>>,
         q.state \in {"running", "zombie"}, q.adrift => sysemu,
         Alive(p) \/ q.state = "zombie",
         q.state = "running" /\ (q.traced \/ q.child) => op \in Waits \/ (q.adrift /\ q.traced),
         op = "detach" => ~q.traced, op = "kill" => q.state = "zombie" \/ sysemu
  PROVE  IInv'
<1>1. /\ proc \in [Procs -> ProcStates]
      /\ tgt \in [Targets -> [proc: Procs, valid: BOOLEAN] \cup {Nil}]
  BY DEF IInv, TypeOK
<1>2. /\ proc' \in [Procs -> ProcStates] /\ \A x \in Procs : x # p => proc'[x] = proc[x]
      /\ proc'[p] = q
  BY <1>1
<1>3. call' = IF op \in Waits THEN [op |-> op, proc |-> p, target |-> t] ELSE NoCall
  BY DEF After, Wait, Idle
<1>4. op \in Waits => Waiting(p)'
  <2>1. "none" \notin Waits BY DEF Waits, Requests, Resuming
  <2> QED BY <1>3, <2>1 DEF Waiting, Idle, NoCall
<1>5. AttendedAt(p)' BY <1>2, <1>4 DEF AttendedAt
<1>6. OwnedAt(p)' BY DEF OwnedAt, Known
<1>7. \A s \in Targets : tgt'[s] # Nil /\ tgt'[s].proc = p => TargetAt(s)'
  <2>1. \A s \in Targets : TargetAt(s) BY DEF IInv, Owned
  <2> QED BY <1>2, <2>1 DEF TargetAt, Alive
<1>8. Attended' /\ Owned'
  <2>1. \A s \in Targets : tgt[s] # Nil => tgt[s].proc \in Procs BY <1>1
  <2>2. \A x \in Procs : ~Waiting(x) BY DEF Waiting
  <2> QED BY <1>2, <1>5, <1>6, <1>7, <2>1, <2>2, OneProcess
<1>9. CallOK'
  <2>1. op \notin {"none", "attach", "launch", "read_in", "read_out"}
    BY DEF Requests, Resuming
  <2>2. CASE op \in Waits
    <3>1. call' = [op |-> op, proc |-> p, target |-> t] BY <1>3, <2>2
    <3> QED BY <1>2, <2>1, <3>1 DEF CallOK, Alive
  <2>3. CASE op \notin Waits BY <1>3, <2>3 DEF CallOK, NoCall
  <2> QED BY <2>2, <2>3
<1>10. TypeOK'
  <2>1. Idle' \/ (call'.proc \in Procs /\ call'.target \in Targets) BY <1>3 DEF Idle
  <2>2. last'.proc \in Procs \cup {Nil} BY DEF Silent
  <2> QED BY <1>2, <2>1, <2>2 DEF IInv, TypeOK
<1> QED BY <1>8, <1>9, <1>10 DEF IInv

\* Every request a process takes.
LEMMA RequestStep ==
  ASSUME IInv, NEW t \in Targets, Kill(t) \/ Detach(t) \/ (\E op \in Requests : Resume(t, op))
  PROVE  IInv'
<1>1. /\ Idle /\ tgt[t] # Nil /\ last' = Silent /\ UNCHANGED <<cell, tgt, rs, ext, sysemu>>
  BY DEF Kill, Detach, Resume, Accepted, Quiet
<1>2. /\ proc \in [Procs -> ProcStates] /\ tgt[t].proc \in Procs
  BY <1>1 DEF IInv, TypeOK
<1>3. PICK p \in Procs : tgt[t].proc = p BY <1>2
<1>4. proc[p] \in ProcStates BY <1>2
<1>5. AttendedAt(p) /\ ~Waiting(p) BY <1>1 DEF IInv, Attended, Waiting
<1>6. CASE Kill(t)
  <2>1. proc[p].traced /\ After("kill", p, t) BY <1>3, <1>6 DEF Kill
  <2>2. CASE proc' = [proc EXCEPT ![p].state = "zombie"]
    <3> DEFINE q == [proc[p] EXCEPT !.state = "zombie"]
    <3>1. q \in ProcStates /\ q.state = "zombie" /\ q.adrift = proc[p].adrift
      BY <1>4 DEF ProcStates
    <3>2. proc' = [proc EXCEPT ![p] = q] BY <1>2, <2>2
    <3>3. proc[p].adrift => sysemu BY <1>5 DEF AttendedAt
    <3>4. "kill" \in Requests BY DEF Requests
    <3> HIDE DEF q
    <3> QED BY <1>1, <1>3, <2>1, <3>1, <3>2, <3>3, <3>4, RequestTaken
  <2>3. CASE proc[p].state = "running" /\ UNCHANGED proc
    <3>1. proc' = [proc EXCEPT ![p] = proc[p]] BY <1>2, <2>3
    <3>2. proc[p].adrift /\ sysemu BY <1>5, <2>1, <2>3 DEF AttendedAt
    <3>3. "kill" \in Requests BY DEF Requests
    <3>4. Alive(p) BY <2>3 DEF Alive
    <3> QED BY <1>1, <1>3, <1>4, <2>1, <2>3, <3>1, <3>2, <3>3, <3>4, RequestTaken
  <2> QED BY <1>3, <1>6, <2>2, <2>3 DEF Kill
<1>7. CASE Detach(t)
  <2> DEFINE q == [proc[p] EXCEPT !.state = "running", !.traced = FALSE]
  <2>1. /\ Stopped(p) /\ After("detach", p, t)
        /\ proc' = [proc EXCEPT ![p].state = "running", ![p].traced = FALSE]
    BY <1>3, <1>7 DEF Detach
  <2>2. /\ q \in ProcStates /\ q.state = "running" /\ q.adrift = proc[p].adrift /\ q.traced = FALSE
    BY <1>4 DEF ProcStates
  <2>3. proc' = [proc EXCEPT ![p] = q] BY <1>2, <1>4, <2>1
  <2>4. Alive(p) /\ (proc[p].adrift => sysemu) BY <1>5, <2>1 DEF AttendedAt, Stopped, Alive
  <2>5. "detach" \in Requests /\ "detach" \in Waits BY DEF Requests, Waits
  <2> HIDE DEF q
  <2> QED BY <1>1, <1>3, <2>1, <2>2, <2>3, <2>4, <2>5, RequestTaken
<1>8. ASSUME NEW op \in Requests, Resume(t, op) PROVE IInv'
  <2> DEFINE a == op \in {"sysemu", "sysemu_step"}
             q == [proc[p] EXCEPT !.state = "running", !.adrift = a]
  <2>1. /\ Stopped(p) /\ After(op, p, t) /\ op \in Resuming /\ op \in Commands
        /\ proc' = [proc EXCEPT ![p].state = "running", ![p].adrift = a]
    BY <1>3, <1>8 DEF Resume, Accepted
  <2>2. a \in BOOLEAN OBVIOUS
  <2>3. a => sysemu BY <2>1 DEF Commands
  <2>4. op \in Waits \/ a BY DEF Waits
  <2>5. op \notin {"kill", "detach"} BY <2>1 DEF Resuming
  <2> HIDE DEF a
  <2>6. /\ q \in ProcStates /\ q.state = "running" /\ q.adrift = a /\ q.traced = proc[p].traced
    BY <1>4, <2>2 DEF ProcStates
  <2>7. proc' = [proc EXCEPT ![p] = q] BY <1>2, <1>4, <2>1
  <2>8. Alive(p) /\ proc[p].traced BY <2>1 DEF Stopped, Alive
  <2> HIDE DEF q
  <2> QED BY <1>1, <1>3, <2>1, <2>3, <2>4, <2>5, <2>6, <2>7, <2>8, RequestTaken
<1> QED BY <1>6, <1>7, <1>8

\* How a step ends a method.
LEMMA Ends ==
  (\A e, p : Err(e, p) => last'.proc = p) /\ (Quiet => last'.proc = Nil)
BY DEF Err, Quiet, Silent

\* The refusals, and the words of memory.
LEMMA LocalStep ==
  ASSUME IInv,
         \/ \E p \in Procs : AttachFails(p) \/ Peek(p) \/ \E v \in Values : Poke(p, v)
         \/ \E t \in Targets, op \in Requests : Refused(t, op) \/ Unknown(t, op)
  PROVE  IInv'
<1>1. /\ Idle /\ UNCHANGED <<proc, tgt, rs, call, ext, sysemu>>
  BY DEF AttachFails, Peek, Poke, Refused, Unknown, Accepted
<1>2. last'.proc \in Procs \cup {Nil} /\ cell' \in [Procs -> [Cells -> Values]]
  <2>0. cell \in [Procs -> [Cells -> Values]] BY DEF IInv, TypeOK
  <2>1. ASSUME NEW p \in Procs, AttachFails(p) PROVE last'.proc = p /\ cell' = cell
    BY <2>1, Ends DEF AttachFails
  <2>2. ASSUME NEW p \in Procs, Peek(p) PROVE last'.proc = p /\ cell' = cell
    BY <2>2, Ends DEF Peek
  <2>3. ASSUME NEW p \in Procs, NEW v \in Values, Poke(p, v)
        PROVE  last'.proc \in {p, Nil} /\ cell' \in [Procs -> [Cells -> Values]]
    <3>1. CASE cell' = [cell EXCEPT ![p]["word"] = v] /\ Quiet
      <4>1. last'.proc = Nil BY <3>1, Ends
      <4> QED BY <2>0, <3>1, <4>1 DEF Cells
    <3>2. CASE cell' = cell /\ \E e : Err(e, p)
      <4>1. last'.proc = p BY <3>2, Ends
      <4> QED BY <2>0, <3>2, <4>1
    <3> QED BY <2>3, <3>1, <3>2 DEF Poke
  <2>4. ASSUME NEW t \in Targets, NEW op \in Requests, Refused(t, op) \/ Unknown(t, op)
        PROVE  last'.proc \in {tgt[t].proc, Nil} /\ cell' = cell /\ tgt[t].proc \in Procs
    <3>1. tgt[t] # Nil BY <2>4 DEF Refused, Unknown, Accepted
    <3>2. tgt[t].proc \in Procs BY <3>1 DEF IInv, TypeOK
    <3> QED BY <2>4, <3>2, Ends DEF Refused, Unknown
  <2> QED BY <2>0, <2>1, <2>2, <2>3, <2>4
<1>3. TypeOK' BY <1>1, <1>2 DEF IInv, TypeOK, Idle
<1> QED BY <1>1, <1>3, Untouched DEF IInv

\* Register sets.
LEMMA SnapshotStep ==
  ASSUME IInv, NEW r \in RegSets, Snapshot(r) PROVE IInv'
<1>1. UNCHANGED <<proc, tgt, call, ext, sysemu>>
  BY DEF Snapshot, NoRegs, ReadRegs, WriteRegs, TakeRegs, Delete, Edit
<1>2. rs' \in [RegSets -> RegSetType \cup {Nil}] /\ cell' \in [Procs -> [Cells -> Values]]
  BY SnapshotTypes DEF IInv
<1>3. last'.proc \in Procs \cup {Nil}
  <2>1. CASE NoRegs(r)
    <3>1. rs[r] \in RegSetType BY <2>1 DEF NoRegs, IInv, TypeOK
    <3> QED BY <2>1, <3>1, Ends DEF NoRegs, RegSetType
  <2>2. CASE ~NoRegs(r)
    <3>1. Quiet BY <2>2 DEF Snapshot, ReadRegs, WriteRegs, TakeRegs, Delete, Edit
    <3> QED BY <3>1, Ends
  <2> QED BY <2>1, <2>2
<1>4. TypeOK' BY <1>1, <1>2, <1>3 DEF IInv, TypeOK, Idle
<1> QED BY <1>1, <1>4, Untouched DEF IInv

---------------------------------------------------------------------------
LEMMA Initially == Init => IInv
<1> SUFFICES ASSUME Init PROVE IInv OBVIOUS
<1> DEFINE state(s) == [state |-> s, traced |-> FALSE, child |-> FALSE, adrift |-> FALSE]
<1>a. proc \in [Procs -> {state(s) : s \in {"none", "running"}}] BY DEF Init
<1>b. \A s \in {"none", "running"} :
        /\ state(s) \in ProcStates /\ state(s).state = s
        /\ ~state(s).traced /\ ~state(s).child /\ ~state(s).adrift
  BY DEF ProcStates
<1> HIDE DEF state
<1>1. \A p \in Procs : /\ proc[p].state \in {"none", "running"}
                     /\ ~proc[p].traced /\ ~proc[p].child /\ ~proc[p].adrift
  BY <1>a, <1>b
<1>2. proc \in [Procs -> ProcStates] BY <1>a, <1>b
<1>3. cell \in [Procs -> [Cells -> Values]] BY ValuesAssumption DEF Init
<1>4. TypeOK BY <1>2, <1>3 DEF Init, TypeOK, Idle, Silent
<1>5. Attended BY <1>1 DEF Attended, AttendedAt
<1>6. CallOK BY DEF Init, CallOK, NoCall
<1>7. Owned
  <2>1. \A p \in Procs : OwnedAt(p) BY <1>1 DEF OwnedAt
  <2>2. \A t \in Targets : TargetAt(t) BY DEF Init, TargetAt
  <2> QED BY <2>1, <2>2 DEF Owned
<1> QED BY <1>4, <1>5, <1>6, <1>7 DEF IInv

LEMMA Inductive == IInv /\ [Next]_vars => IInv'
<1> SUFFICES ASSUME IInv, [Next]_vars PROVE IInv' OBVIOUS
<1>1. ASSUME NEW p \in Procs, Stops(p) \/ Dies(p) PROVE IInv' BY <1>1, KernelStep
<1>2. ASSUME NEW t \in Targets, NEW p \in Procs, Attach(t, p) \/ Launch(t, p) PROVE IInv'
  BY <1>2, AttachStep
<1>3. CASE Begun BY <1>3, BegunStep
<1>4. CASE Returned BY <1>4, ReturnedStep
<1>5. CASE WaitRaises BY <1>5, WaitRaisesStep
<1>6. CASE SyscallStops \/ SyscallReads \/ SyscallExit BY <1>6, SyscallStep
<1>7. ASSUME NEW t \in Targets, Kill(t) \/ Detach(t) \/ \E op \in Requests : Resume(t, op) PROVE IInv'
  BY <1>7, RequestStep
<1>8. ASSUME NEW p \in Procs, AttachFails(p) \/ Peek(p) \/ \E v \in Values : Poke(p, v) PROVE IInv'
  BY <1>8, LocalStep
<1>9. ASSUME NEW t \in Targets, NEW op \in Requests, Refused(t, op) \/ Unknown(t, op) PROVE IInv'
  BY <1>9, LocalStep
<1>10. ASSUME NEW r \in RegSets, Snapshot(r) PROVE IInv' BY <1>10, SnapshotStep
<1>11. CASE UNCHANGED vars
  <2>1. UNCHANGED <<proc, tgt, call, ext, sysemu>> BY <1>11 DEF vars
  <2>2. TypeOK' BY <1>11 DEF vars, IInv, TypeOK, Idle
  <2> QED BY <2>1, <2>2, Untouched DEF IInv
<1> QED
  BY <1>1, <1>2, <1>3, <1>4, <1>5, <1>6, <1>7, <1>8, <1>9, <1>10, <1>11 DEF Next, Snapshot

\* The inductive invariant.
THEOREM Invariant == Spec => []IInv
BY Initially, Inductive, PTL DEF Spec

\* The types; in particular registers and words stay numbers whatever a program does to
\* the hash of a RegSet (hash_get_int).
THEOREM TypeCorrect == Spec => []TypeOK
<1>1. IInv => TypeOK BY DEF IInv
<1> QED BY <1>1, Invariant, PTL

\* Between two methods, a live traced process has a Target that still takes requests
\* (Ptrace.rb, Target.attach, launch, detach and kill).
THEOREM TargetsStayAccounted == Spec => []TargetsAccounted
<1>1. IInv => TargetsAccounted
  <2> SUFFICES ASSUME IInv, Idle, NEW p \in Procs, proc[p].traced, Alive(p),
                      ~(proc[p].child /\ ~ext)
               PROVE  \E t \in Targets : tgt[t] # Nil /\ tgt[t].proc = p /\ (tgt[t].valid \/ sysemu)
    BY DEF TargetsAccounted
  <2>1. OwnedAt(p) /\ ~Waiting(p) BY DEF IInv, Owned, Waiting
  <2>2. PICK t \in Targets : tgt[t] # Nil /\ tgt[t].proc = p BY <2>1 DEF OwnedAt, Known
  <2>3. TargetAt(t) BY DEF IInv, Owned
  <2> QED BY <2>2, <2>3 DEF TargetAt
<1> QED BY <1>1, Invariant, PTL

---------------------------------------------------------------------------
(* Exceptions.  Only steps that leave the processes as they were raise one. *)

\* A request is refused to a process that is dead, adrift, or neither traced nor a child.
LEMMA Lost ==
  ASSUME IInv, Idle, NEW p \in Procs, ~Stopped(p)
  PROVE  ~Alive(p) \/ proc[p].adrift \/ (~proc[p].traced /\ ~proc[p].child)
<1>1. AttendedAt(p) /\ ~Waiting(p) BY DEF IInv, Attended, Waiting
<1> QED BY <1>1 DEF AttendedAt, Alive, Stopped

LEMMA ErrorLost ==
  ASSUME IInv, Idle, NEW p \in Procs, ~Stopped(p), Err("No such process", p), UNCHANGED proc
  PROVE  ErrorsExplained'
<1>1. ~Alive(p) \/ proc[p].adrift \/ (~proc[p].traced /\ ~proc[p].child) BY Lost
<1>2. last'.err = "No such process" /\ last'.proc = p BY DEF Err
<1> QED BY <1>1, <1>2 DEF ErrorsExplained, Alive

LEMMA ErrorNone ==
  ASSUME NEW e, NEW p,
         \/ Quiet
         \/ Err(e, p) /\ e \in {"not supported", "not valid", "Operation not permitted", "none"}
  PROVE  ErrorsExplained'
<1>1. last'.err \in {"not supported", "not valid", "Operation not permitted", "none"}
  <2>1. CASE Quiet BY <2>1 DEF Quiet, Silent
  <2>2. CASE Err(e, p) /\ e \in {"not supported", "not valid", "Operation not permitted", "none"}
    <3>1. last'.err = e BY <2>2 DEF Err
    <3> QED BY <2>2, <3>1
  <2> QED BY <2>1, <2>2
<1> QED BY <1>1 DEF ErrorsExplained

LEMMA ErrorName ==
  ASSUME NEW p, Err("NameError", p), ~ext, UNCHANGED ext
  PROVE  ErrorsExplained'
<1>1. last'.err = "NameError" BY DEF Err
<1> QED BY <1>1 DEF ErrorsExplained

LEMMA ErrorAddress ==
  ASSUME NEW p, Stopped(p), Err("bad address", p), UNCHANGED proc
  PROVE  ErrorsExplained'
<1>1. last'.err = "bad address" /\ last'.proc = p BY DEF Err
<1> QED BY <1>1 DEF ErrorsExplained, Stopped

LEMMA ErrorStep == ASSUME IInv, Next PROVE ErrorsExplained'
<1>1. CASE Quiet BY <1>1, ErrorNone
<1>2. ASSUME NEW p \in Procs, AttachFails(p) PROVE ErrorsExplained'
  <2>1. Idle /\ UNCHANGED <<proc, ext>> BY <1>2 DEF AttachFails
  <2>2. CASE ~ext /\ Err("NameError", p) BY <2>1, <2>2, ErrorName
  <2>3. CASE Err("Operation not permitted", p) BY <2>3, ErrorNone
  <2>4. CASE proc[p].state \in {"none", "gone"} /\ Err("No such process", p)
    <3>1. ~Stopped(p) BY <2>4 DEF Stopped
    <3> QED BY <2>1, <2>4, <3>1, ErrorLost
  <2> QED BY <1>2, <2>2, <2>3, <2>4 DEF AttachFails
<1>3. ASSUME NEW p \in Procs, Peek(p) PROVE ErrorsExplained'
  <2>1. Idle /\ UNCHANGED <<proc, cell>> BY <1>3 DEF Peek
  <2>2. CASE Stopped(p) /\ Err(Answer(cell[p]["word"]), p)
    <3>1. CASE cell[p]["word"] = -1
      <4>1. last'.err = "Success" /\ last'.proc = p BY <2>2, <3>1 DEF Err, Answer
      <4> QED BY <2>1, <2>2, <3>1, <4>1 DEF ErrorsExplained, Stopped
    <3>2. CASE cell[p]["word"] # -1
      <4>1. Err("none", p) BY <2>2, <3>2 DEF Answer
      <4> QED BY <4>1, ErrorNone
    <3> QED BY <3>1, <3>2
  <2>3. CASE Stopped(p) /\ Err("bad address", p) BY <2>1, <2>3, ErrorAddress
  <2>4. CASE ~Stopped(p) /\ Err("No such process", p) BY <2>1, <2>4, ErrorLost
  <2> QED BY <1>3, <2>2, <2>3, <2>4 DEF Peek
<1>4. ASSUME NEW p \in Procs, NEW v \in Values, Poke(p, v) PROVE ErrorsExplained'
  <2>1. Idle /\ UNCHANGED proc BY <1>4 DEF Poke
  <2>2. CASE Quiet BY <1>1, <2>2
  <2>3. CASE Stopped(p) /\ Err("bad address", p) BY <2>1, <2>3, ErrorAddress
  <2>4. CASE ~Stopped(p) /\ Err("No such process", p) BY <2>1, <2>4, ErrorLost
  <2> QED BY <1>4, <2>2, <2>3, <2>4 DEF Poke
<1>5. ASSUME NEW t \in Targets, NEW op \in Requests, Refused(t, op) PROVE ErrorsExplained'
  BY <1>5, ErrorNone DEF Refused
<1>6. ASSUME NEW t \in Targets, NEW op \in Requests, Unknown(t, op) PROVE ErrorsExplained'
  <2>1. Idle /\ tgt[t] # Nil /\ UNCHANGED proc BY <1>6 DEF Unknown, Accepted
  <2>2. tgt[t].proc \in Procs /\ ~Stopped(tgt[t].proc)
    BY <1>6, <2>1 DEF Unknown, Stopped, IInv, TypeOK
  <2> QED BY <1>1, <1>6, <2>1, <2>2, ErrorLost DEF Unknown
<1>7. CASE Begun
  <2>1. CASE ext BY <1>1, <1>7, <2>1 DEF Begun
  <2>2. CASE ~ext BY <1>7, <2>2, ErrorName DEF Begun
  <2> QED BY <2>1, <2>2
<1>8. CASE WaitRaises
  <2>1. WaitFails(call.proc) /\ UNCHANGED proc /\ Err("No child processes", call.proc)
    BY <1>8 DEF WaitRaises
  <2>2. last'.err = "No child processes" /\ last'.proc = call.proc BY <2>1 DEF Err
  <2> QED BY <2>1, <2>2 DEF ErrorsExplained, WaitFails
<1>9. ASSUME NEW r \in RegSets, NoRegs(r) PROVE ErrorsExplained'
  <2>1. rs[r].proc \in Procs BY <1>9 DEF NoRegs, IInv, TypeOK, RegSetType
  <2> QED BY <1>9, <2>1, ErrorLost DEF NoRegs
<1>10. ASSUME NEW p \in Procs, Stops(p) \/ Dies(p) PROVE Quiet BY <1>10 DEF Stops, Dies
<1>11. ASSUME NEW t \in Targets, NEW p \in Procs, Attach(t, p) \/ Launch(t, p) PROVE Quiet
  BY <1>11 DEF Attach, Launch
<1>12. ASSUME Returned \/ SyscallStops \/ SyscallReads \/ SyscallExit PROVE Quiet
  BY <1>12 DEF Returned, SyscallStops, SyscallReads, SyscallExit
<1>13. ASSUME NEW t \in Targets, Kill(t) \/ Detach(t) \/ \E op \in Requests : Resume(t, op) PROVE Quiet
  BY <1>13 DEF Kill, Detach, Resume
<1>14. ASSUME NEW r \in RegSets, Snapshot(r), ~NoRegs(r) PROVE Quiet
  BY <1>14 DEF Snapshot, ReadRegs, WriteRegs, TakeRegs, Delete, Edit
<1> QED
  BY <1>1, <1>2, <1>3, <1>4, <1>5, <1>6, <1>7, <1>8, <1>9, <1>10, <1>11, <1>12, <1>13, <1>14
  DEF Next, Snapshot

\* Every exception of a request says something true of its process (Ptrace.rb 138-139).
THEOREM ErrorsStayExplained == Spec => []ErrorsExplained
<1>1. Init => ErrorsExplained
  <2> SUFFICES ASSUME Init PROVE ErrorsExplained OBVIOUS
  <2>1. last.err = "none" BY DEF Init, Silent
  <2> QED BY <2>1 DEF ErrorsExplained
<1>2. ErrorsExplained /\ IInv /\ [Next]_vars => ErrorsExplained'
  <2>1. CASE Next BY <2>1, ErrorStep
  <2>2. CASE UNCHANGED vars BY <2>2 DEF vars, ErrorsExplained, Alive, Stopped
  <2> QED BY <2>1, <2>2
<1> QED BY <1>1, <1>2, Invariant, PTL DEF Spec

---------------------------------------------------------------------------
(* Register sets: an up-to-date hash differs from the process only where it was edited. *)

UpToDate(r) ==
  rs[r] # Nil /\ rs[r].current =>
    \A n \in Names(rs[r].kind) \ rs[r].edited :
      n \in DOMAIN rs[r].regs /\ rs[r].regs[n] = cell[rs[r].proc][n]
Current == \A r \in RegSets : UpToDate(r)

\* No hash has a name for the word of memory.
LEMMA NamesOK ==
  ASSUME NEW kind \in Kinds
  PROVE  Names(kind) \subseteq Cells /\ "word" \notin Names(kind)
BY DEF Names, Kinds, General, Float, Cells

\* Writing a register set that is up to date.
LEMMA WriteKeeps ==
  ASSUME IInv, Current, NEW r \in RegSets, WriteRegs(r), rs[r].current, NEW n \in Cells
  PROVE  /\ n \in Names(rs[r].kind) \ rs[r].edited => cell'[rs[r].proc][n] = cell[rs[r].proc][n]
         /\ n \notin Names(rs[r].kind) /\ (rs[r].kind = "gen" \/ n \notin Unnamed) =>
              cell'[rs[r].proc][n] = cell[rs[r].proc][n]
         /\ rs[r].kind = "gen" /\ n \in Kept => cell'[rs[r].proc][n] = cell[rs[r].proc][n]
<1> DEFINE h == rs[r].regs
<1>1. PICK p \in Procs : p = rs[r].proc /\ rs[r] # Nil /\ rs[r].kind \in Kinds
  BY DEF IInv, TypeOK, WriteRegs, RegSetType
<1>2. \A k \in Names(rs[r].kind) \ rs[r].edited : HashGetInt(h, k) = cell[p][k]
  BY <1>1 DEF Current, UpToDate, HashGetInt
<1>3. cell'[p] = IF rs[r].kind = "gen" THEN SetRegs(cell[p], h) ELSE SetFpRegs(cell[p], h)
  BY <1>1 DEF WriteRegs, IInv, TypeOK
<1> HIDE DEF h
<1>4. CASE rs[r].kind = "gen"
  <2>1. cell'[p][n] = IF n \in General \ Kept THEN HashGetInt(h, n) ELSE cell[p][n]
    BY <1>3, <1>4 DEF SetRegs
  <2> QED BY <1>1, <1>2, <1>4, <2>1 DEF Names
<1>5. CASE rs[r].kind = "fp"
  <2>1. cell'[p][n] = IF n \in Unnamed THEN 0 ELSE IF n \in Float THEN HashGetInt(h, n) ELSE cell[p][n]
    BY <1>3, <1>5 DEF SetFpRegs
  <2> QED BY <1>1, <1>2, <1>5, <2>1 DEF Names
<1> QED BY <1>1, <1>4, <1>5 DEF Kinds

LEMMA CurrentStep == ASSUME IInv, Current, Next PROVE Current'
<1>0. /\ \A r \in RegSets : rs[r] # Nil => rs[r] \in RegSetType
      /\ rs \in [RegSets -> RegSetType \cup {Nil}]
      /\ cell \in [Procs -> [Cells -> Values]]
  BY DEF IInv, TypeOK
<1>1. CASE UNCHANGED <<cell, rs>> BY <1>1 DEF Current, UpToDate
<1>2. ASSUME NEW p \in Procs, Stops(p) PROVE Current'
  <2>1. /\ rs' = Outdated(p)
        /\ \A x \in Procs : x # p => cell'[x] = cell[x]
    BY <1>0, <1>2 DEF Stops
  <2>2. ASSUME NEW r \in RegSets PROVE UpToDate(r)'
    <3>1. CASE rs[r] # Nil /\ rs[r].proc = p
      <4>1. rs'[r] = [rs[r] EXCEPT !.current = FALSE] BY <2>1, <3>1 DEF Outdated
      <4>2. ~rs'[r].current BY <1>0, <3>1, <4>1 DEF RegSetType
      <4> QED BY <4>2 DEF UpToDate
    <3>2. CASE ~(rs[r] # Nil /\ rs[r].proc = p)
      <4>1. rs'[r] = rs[r] BY <2>1, <3>2 DEF Outdated
      <4>2. rs[r] # Nil => rs[r].proc \in Procs BY <1>0 DEF RegSetType
      <4> QED BY <2>1, <3>2, <4>1, <4>2 DEF Current, UpToDate
    <3> QED BY <3>1, <3>2
  <2> QED BY <2>2 DEF Current
<1>3. ASSUME NEW p \in Procs, NEW v \in Values, Poke(p, v) PROVE Current'
  <2>1. /\ rs' = rs /\ \A x \in Procs, n \in Cells \ {"word"} : cell'[x][n] = cell[x][n]
    BY <1>0, <1>3 DEF Poke
  <2>2. ASSUME NEW r \in RegSets PROVE UpToDate(r)'
    <3>1. rs[r] # Nil => rs[r].proc \in Procs /\ Names(rs[r].kind) \subseteq Cells \ {"word"}
      BY <1>0, NamesOK DEF RegSetType
    <3> QED BY <2>1, <3>1 DEF Current, UpToDate
  <2> QED BY <2>2 DEF Current
<1>4. ASSUME NEW r \in RegSets, rs[r] # Nil PROVE \A n \in Names(rs[r].kind) :
               n \in DOMAIN Fresh(r).regs /\ Fresh(r).regs[n] = cell[rs[r].proc][n]
                 /\ Fresh(r).proc = rs[r].proc /\ Fresh(r).kind = rs[r].kind
  <2>1. rs[r] \in RegSetType BY <1>0, <1>4
  <2>2. /\ Fresh(r).regs = [n \in Names(rs[r].kind) |-> cell[rs[r].proc][n]]
        /\ Fresh(r).proc = rs[r].proc /\ Fresh(r).kind = rs[r].kind
    BY <2>1 DEF Fresh, RegSetType
  <2> QED BY <2>2
<1>5. ASSUME NEW r \in RegSets, rs[r] # Nil, UNCHANGED cell, rs'[r] = Fresh(r) PROVE UpToDate(r)'
  <2>1. rs[r] \in RegSetType BY <1>0, <1>5
  <2>2. Fresh(r).kind = rs[r].kind BY <2>1 DEF Fresh, RegSetType
  <2> QED BY <1>4, <1>5, <2>2 DEF UpToDate
<1>6. CASE SyscallReads
  <2>1. rs' = Refreshed(call.target) /\ UNCHANGED cell BY <1>6 DEF SyscallReads
  <2>2. ASSUME NEW r \in RegSets PROVE UpToDate(r)'
    <3>1. CASE rs[r] # Nil /\ rs'[r] = Fresh(r) BY <1>5, <2>1, <3>1
    <3>2. CASE rs'[r] = rs[r] BY <2>1, <3>2 DEF Current, UpToDate
    <3>3. rs'[r] = rs[r] \/ (rs[r] # Nil /\ rs'[r] = Fresh(r)) BY <2>1 DEF Refreshed
    <3> QED BY <3>1, <3>2, <3>3
  <2> QED BY <2>2 DEF Current
<1>7. ASSUME NEW r \in RegSets, ReadRegs(r) PROVE Current'
  <2>1. rs[r] # Nil /\ rs'[r] = Fresh(r) /\ UNCHANGED cell
        /\ \A s \in RegSets : s # r => rs'[s] = rs[s]
    BY <1>0, <1>7 DEF ReadRegs
  <2>2. UpToDate(r)' BY <1>5, <2>1
  <2>3. \A s \in RegSets : s # r => UpToDate(s)' BY <2>1 DEF Current, UpToDate
  <2> QED BY <2>2, <2>3 DEF Current
<1>8. ASSUME NEW r \in RegSets, NEW t \in Targets, NEW kind \in Kinds, TakeRegs(r, t, kind)
      PROVE  Current'
  <2>1. ~rs'[r].current /\ UNCHANGED cell /\ \A s \in RegSets : s # r => rs'[s] = rs[s]
    BY <1>0, <1>8 DEF TakeRegs
  <2> QED BY <2>1 DEF Current, UpToDate
<1>9. ASSUME NEW r \in RegSets, NEW n \in Cells, Delete(r, n) \/ \E v \in Values : Edit(r, n, v)
      PROVE  Current'
  <2>1. /\ rs[r] # Nil /\ rs[r] \in RegSetType /\ UNCHANGED cell
        /\ \A s \in RegSets : s # r => rs'[s] = rs[s]
    BY <1>0, <1>9 DEF Delete, Edit
  <2>2. /\ rs'[r].proc = rs[r].proc /\ rs'[r].kind = rs[r].kind /\ rs'[r].current = rs[r].current
        /\ rs'[r].edited = rs[r].edited \cup {n}
    BY <1>0, <1>9, <2>1 DEF Delete, Edit, RegSetType
  <2>3. \A k \in DOMAIN rs[r].regs : k # n => k \in DOMAIN rs'[r].regs /\ rs'[r].regs[k] = rs[r].regs[k]
    BY <1>0, <1>9, <2>1 DEF Delete, Edit, RegSetType
  <2>4. UpToDate(r)' BY <2>1, <2>2, <2>3 DEF Current, UpToDate
  <2>5. \A s \in RegSets : s # r => UpToDate(s)' BY <2>1 DEF Current, UpToDate
  <2> QED BY <2>4, <2>5 DEF Current
<1>10. ASSUME NEW r \in RegSets, WriteRegs(r) PROVE Current'
  <2>1. rs[r] # Nil /\ rs[r] \in RegSetType BY <1>0, <1>10 DEF WriteRegs
  <2>2. PICK p \in Procs : p = rs[r].proc BY <2>1 DEF RegSetType
  <2>3. \A x \in Procs : x # p => cell'[x] = cell[x] BY <1>0, <1>10, <2>2 DEF WriteRegs
  <2>4. rs'[r] = rs[r] /\ \A s \in RegSets : s # r => rs'[s] = Outdated(p)[s]
    BY <1>10, <2>2 DEF WriteRegs
  <2>5. UpToDate(r)'
    <3>1. SUFFICES ASSUME rs[r].current, NEW n \in Names(rs[r].kind) \ rs[r].edited
                   PROVE  n \in DOMAIN rs[r].regs /\ rs[r].regs[n] = cell'[rs[r].proc][n]
      BY <2>4 DEF UpToDate
    <3>2. n \in Cells BY <2>1, NamesOK DEF RegSetType
    <3>3. cell'[rs[r].proc][n] = cell[rs[r].proc][n] BY <1>10, <3>1, <3>2, WriteKeeps
    <3> QED BY <2>1, <3>1, <3>3 DEF Current, UpToDate
  <2>6. ASSUME NEW s \in RegSets, s # r PROVE UpToDate(s)'
    <3>1. CASE rs[s] # Nil /\ rs[s].proc = p
      <4>1. rs'[s] = [rs[s] EXCEPT !.current = FALSE] BY <2>4, <2>6, <3>1 DEF Outdated
      <4>2. ~rs'[s].current BY <1>0, <3>1, <4>1 DEF RegSetType
      <4> QED BY <4>2 DEF UpToDate
    <3>2. CASE ~(rs[s] # Nil /\ rs[s].proc = p)
      <4>1. rs'[s] = rs[s] BY <2>4, <2>6, <3>2 DEF Outdated
      <4>2. rs[s] # Nil => rs[s].proc \in Procs BY <1>0 DEF RegSetType
      <4> QED BY <2>3, <3>2, <4>1, <4>2 DEF Current, UpToDate
    <3> QED BY <3>1, <3>2
  <2> QED BY <2>5, <2>6 DEF Current
<1>11. ASSUME NEW p \in Procs, Dies(p) \/ AttachFails(p) \/ Peek(p) PROVE UNCHANGED <<cell, rs>>
  BY <1>11 DEF Dies, AttachFails, Peek
<1>12. ASSUME NEW t \in Targets, NEW p \in Procs, Attach(t, p) \/ Launch(t, p)
       PROVE  UNCHANGED <<cell, rs>>
  BY <1>12 DEF Attach, Launch
<1>13. ASSUME Begun \/ Returned \/ WaitRaises \/ SyscallStops \/ SyscallExit
       PROVE  UNCHANGED <<cell, rs>>
  BY <1>13 DEF Begun, Returned, WaitRaises, SyscallStops, SyscallExit
<1>14. ASSUME NEW t \in Targets,
              \/ Kill(t) \/ Detach(t)
              \/ \E op \in Requests : Refused(t, op) \/ Resume(t, op) \/ Unknown(t, op)
       PROVE  UNCHANGED <<cell, rs>>
  BY <1>14 DEF Kill, Detach, Refused, Resume, Unknown
<1>15. ASSUME NEW r \in RegSets, NoRegs(r) PROVE UNCHANGED <<cell, rs>> BY <1>15 DEF NoRegs
<1> QED
  BY <1>1, <1>2, <1>3, <1>6, <1>7, <1>8, <1>9, <1>10, <1>11, <1>12, <1>13, <1>14, <1>15 DEF Next

\* Writing back a RegSet that was read since the process last ran changes what the
\* program has edited and nothing else (set_regs, set_fpregs).
THEOREM WritesOnlyEdits == Spec => EditsOnly
<1>1. Init => Current BY DEF Init, Current, UpToDate
<1>2. Current /\ IInv /\ [Next]_vars => Current'
  <2>1. CASE Next BY <2>1, CurrentStep
  <2>2. CASE UNCHANGED vars BY <2>2 DEF vars, Current, UpToDate
  <2> QED BY <2>1, <2>2
<1> DEFINE Only(r) == {n \in Cells : cell'[rs[r].proc][n] # cell[rs[r].proc][n]} \subseteq
                        IF rs[r].kind = "gen" THEN rs[r].edited \ Kept ELSE rs[r].edited \cup Unnamed
<1>3. IInv /\ Current => [\A r \in RegSets : WriteRegs(r) /\ rs[r].current => Only(r)]_vars
  <2>1. SUFFICES ASSUME IInv, Current, NEW r \in RegSets, WriteRegs(r), rs[r].current,
                        NEW n \in Cells, cell'[rs[r].proc][n] # cell[rs[r].proc][n]
                 PROVE  n \in IF rs[r].kind = "gen" THEN rs[r].edited \ Kept
                              ELSE rs[r].edited \cup Unnamed
    OBVIOUS
  <2>2. /\ ~(n \in Names(rs[r].kind) \ rs[r].edited)
        /\ ~(n \notin Names(rs[r].kind) /\ (rs[r].kind = "gen" \/ n \notin Unnamed))
        /\ ~(rs[r].kind = "gen" /\ n \in Kept)
    BY <2>1, WriteKeeps
  <2> QED BY <2>2
<1> QED BY <1>1, <1>2, <1>3, Invariant, PTL DEF Spec, EditsOnly

=============================================================================
