-------------------------------- MODULE Bfd --------------------------------
(***************************************************************************)
(* Bfd targets, their sections and symbols (bfd/module/BFD.c, bfd/lib/     *)
(* BFD.rb): opening from a path, an IO and a buffer, the tables and the    *)
(* contents that are loaded on first use, and what is left when the        *)
(* collector has closed a target.  A Section or Symbol holds a pointer     *)
(* into its target and does not keep it alive; a target made of an IO      *)
(* shares the descriptor of the IO, and both close it.  Symbols and        *)
(* contents are read late, through whatever the descriptor then refers to. *)
(***************************************************************************)
EXTENDS Integers, FiniteSets, SequencesExt

CONSTANTS
  Targets, Ios,  \* identities of Target and IO objects
  Fds,           \* numbers of descriptors
  Temps,         \* temporary files
  Files,
  Layout,        \* what libbfd finds in a file
  Addresses,     \* addresses programs ask for
  MaxOpens,      \* bound: files opened
  Nil

\* bound is the sign of bfd_get_symtab_upper_bound; names is Nil if the table cannot be
\* read although it has a size.
Tables  == [bound: {-1, 0, 1}, names: Seq(STRING) \cup {Nil}]
Layouts == [object: BOOLEAN, hasSyms: BOOLEAN, static: Tables, dynamic: Tables,
            sections: Seq([name: STRING, vma: Nat, size: Nat])]

ASSUME NilAssumption ==
  Nil \notin Files \cup Fds \cup {"done", "lost", "unlink raised"} \cup [fd: Fds, file: Files]
ASSUME LayoutAssumption == MaxOpens \in Nat /\ DOMAIN Layout = Files
ASSUME FileAssumption   == \A f \in Files : Layout[f] \in Layouts

VARIABLES
  fds,       \* the file that a descriptor refers to, Nil if closed
  io,        \* the number and the file of an open IO object of the program, or Nil
  tgt,       \* the Target objects
  contents,  \* @contents of the sections: the file they were read from
  call,      \* the call of from_buffer that is in progress
  temp,      \* state of the temporary files
  tempFile,  \* @temp_file of the class
  fault,     \* why the process has crashed
  opens,     \* files opened so far
  rejected,  \* descriptors of files opened by path and found to be no object
  shared,    \* history: descriptors given to Target.new as an IO
  finalized, \* history: temporary files deleted by the collector
  unlinked,  \* history: temporary files deleted by Target#close
  result     \* history: how the calls of from_buffer ended

files == <<fds, opens, io, rejected, shared>>
temps == <<call, temp, tempFile, finalized, unlinked, result>>
vars  == <<files, temps, tgt, contents, fault>>

NoTarget == [state |-> "none", fd |-> Nil, file |-> Nil, sections |-> Nil, symbols |-> Nil,
             temp_file |-> Nil]
NoCall   == [pc |-> "idle", temp |-> Nil, file |-> Nil, block |-> FALSE, target |-> Nil]

\* Sections are known by their position in the file.
Sections(t) == DOMAIN Layout[tgt[t].file].sections
Positions   == UNION {DOMAIN Layout[f].sections : f \in Files}

Init ==
  /\ fds = [n \in Fds |-> Nil] /\ io = [i \in Ios |-> Nil]
  /\ tgt = [t \in Targets |-> NoTarget] /\ contents = [x \in Targets \X Positions |-> Nil]
  /\ call = NoCall /\ temp = [k \in Temps |-> "none"] /\ tempFile = Nil
  /\ fault = "none" /\ opens = 0 /\ rejected = {} /\ shared = {} /\ finalized = {}
  /\ unlinked = {} /\ result = [k \in Temps |-> Nil]

---------------------------------------------------------------------------
(* The Ruby hashes of sections and symbols, in the order of their keys *)

Aset(h, key, value) ==
  IF \E i \in DOMAIN h : h[i].key = key
  THEN [i \in DOMAIN h |-> IF h[i].key = key THEN [key |-> key, value |-> value] ELSE h[i]]
  ELSE Append(h, [key |-> key, value |-> value])

\* The hash h after the pairs are put into it, one after the other.
Filled(h, pairs) ==
  LET after[n \in 0 .. Len(pairs)] ==
        IF n = 0 THEN h ELSE Aset(after[n - 1], pairs[n].key, pairs[n].value)
  IN  after[Len(pairs)]

\* Variant for the mutation run: a section whose name is known is left out.
SectionHashFirst(secs) ==
  Filled(<<>>, [k \in DOMAIN secs |->
    [key |-> secs[k].name, value |-> SelectInSeq(secs, LAMBDA s : s.name = secs[k].name)]])
SectionHash(secs) == Filled(<<>>, [k \in DOMAIN secs |-> [key |-> secs[k].name, value |-> k]])

\* A size of -1 is taken as unsigned: malloc fails and the table is left out.  The answer
\* -1 for the number of symbols is taken as unsigned too.
Unreadable(table) == table.bound = 1 /\ table.names = Nil
AddSymbols(h, table, binding) ==
  IF table.bound # 1 THEN h
  ELSE Filled(h, [i \in DOMAIN table.names |-> [key |-> table.names[i], value |-> binding]])
SymbolHash(l) ==
  IF ~l.hasSyms THEN <<>>
  ELSE AddSymbols(AddSymbols(<<>>, l.static, "static"), l.dynamic, "dynamic")
Crashes(l) == l.hasSyms /\ (Unreadable(l.static) \/ Unreadable(l.dynamic))

\* libbfd knows flags and sizes of a file from its headers, read when it was opened, and
\* reads the symbols through the descriptor: from a closed one none, from that of
\* another file none or those of that file.
NamesSeen(now, which) == {Nil} \cup {Layout[g][which].names : g \in {now} \ {Nil}}
WithNames(l, static, dynamic) ==
  [l EXCEPT !.static = [@ EXCEPT !.names = static], !.dynamic = [@ EXCEPT !.names = dynamic]]
LayoutsSeen(f, now) ==
  IF now = f THEN {Layout[f]}
  ELSE {WithNames(Layout[f], a, b) : a \in NamesSeen(now, "static"), b \in NamesSeen(now, "dynamic")}

\* section_for_vma: nil has no method "values" before the sections are loaded.
NotFound == 0
Raises   == -1
Covers(s, vma) == s.vma <= vma /\ vma < s.vma + s.size
SectionForVma(t, vma) ==
  LET h == tgt[t].sections
      hits == {i \in DOMAIN h : Covers(Layout[tgt[t].file].sections[h[i].value], vma)}
  IN  IF h = Nil THEN Raises
      ELSE IF hits = {} THEN NotFound
      ELSE h[CHOOSE i \in hits : \A j \in hits : i <= j].value

---------------------------------------------------------------------------
(* Files of the program *)

\* The operating system gives a number that is free.
Opened(n, f) ==
  /\ opens < MaxOpens /\ opens' = opens + 1
  /\ fds[n] = Nil /\ fds' = [fds EXCEPT ![n] = f]

OpenIo(i, f, n) ==
  /\ io[i] = Nil /\ Opened(n, f) /\ io' = [io EXCEPT ![i] = [fd |-> n, file |-> f]]
  /\ UNCHANGED <<rejected, shared, temps, tgt, contents, fault>>

\* By the program, or by the collector when the program has dropped the IO.
CloseIo(i) ==
  /\ io[i] # Nil
  /\ fds' = [fds EXCEPT ![io[i].fd] = Nil] /\ io' = [io EXCEPT ![i] = Nil]
  /\ UNCHANGED <<opens, rejected, shared, temps, tgt, contents, fault>>

---------------------------------------------------------------------------
(* Opening and closing targets *)

Object(f) == f # Nil /\ Layout[f].object
Made(t, n, f) ==
  /\ tgt[t].state = "none"
  /\ tgt' = [tgt EXCEPT ![t] = [NoTarget EXCEPT !.state = "live", !.fd = n, !.file = f]]

\* bfd_openr takes a descriptor of its own.  A file that is no object makes
\* new_target_for_bfd raise; nobody closes it.
Rejected(n, f) == Opened(n, f) /\ ~Object(f) /\ rejected' = rejected \cup {n}

NewFromPath(t, f, n) ==
  /\ Opened(n, f) /\ Object(f) /\ Made(t, n, f)
  /\ UNCHANGED <<io, rejected, shared, temps, contents, fault>>
PathRejected(f, n) ==
  /\ Rejected(n, f) /\ UNCHANGED <<io, shared, temps, tgt, contents, fault>>

\* bfd_fdopenr reads through the descriptor of the IO.  A closed or foreign one is
\* refused and stays the IO's, and nothing changes.
NewFromIo(t, i) ==
  /\ io[i] # Nil /\ Object(fds[io[i].fd]) /\ Made(t, io[i].fd, fds[io[i].fd])
  /\ shared' = shared \cup {io[i].fd}
  /\ UNCHANGED <<fds, opens, io, rejected, temps, contents, fault>>

\* Variant for the mutation run: the object is made without a free function.
CollectOnly(t) ==
  /\ tgt[t].state = "live" /\ call.target # t
  /\ tgt' = [tgt EXCEPT ![t].state = "gone"]
  /\ UNCHANGED <<files, temps, contents, fault>>
\* The program has dropped the target and the collector frees it: bfd_close closes the number it has.
Collect(t) ==
  /\ tgt[t].state = "live" /\ call.target # t
  /\ tgt' = [tgt EXCEPT ![t].state = "gone"] /\ fds' = [fds EXCEPT ![tgt[t].fd] = Nil]
  /\ UNCHANGED <<opens, io, rejected, shared, temps, contents, fault>>

\* Variant for the mutation run: the file is closed and the object kept.
CloseNow(t) ==
  /\ tgt[t].state = "live" /\ fds' = [fds EXCEPT ![tgt[t].fd] = Nil]
  /\ UNCHANGED <<opens, io, rejected, shared, temps, tgt, contents, fault>>
\* temp_file= of a target, which only programs call: with a File of the path that
\* filename gives for a target made by from_buffer, or nil.
SetTempFile(t, k) ==
  /\ tgt[t].state = "live"
  /\ k # Nil => temp[k] = "disk" /\ (call.pc = "written" => k # call.temp)
  /\ tgt' = [tgt EXCEPT ![t].temp_file = k]
  /\ UNCHANGED <<files, temps, contents, fault>>

\* Target#close: nothing, unless @temp_file of the target was set.  A file that is
\* gone makes File.unlink raise and @temp_file stay.
Close(t) ==
  LET k == tgt[t].temp_file
      deletes == k # Nil /\ temp[k] = "disk"
  IN  /\ tgt[t].state = "live"
      /\ tgt' = IF deletes THEN [tgt EXCEPT ![t].temp_file = Nil] ELSE tgt
      /\ temp' = IF deletes THEN [temp EXCEPT ![k] = "deleted"] ELSE temp
      /\ unlinked' = IF deletes THEN unlinked \cup {k} ELSE unlinked
      /\ UNCHANGED <<files, call, tempFile, finalized, result, contents, fault>>

---------------------------------------------------------------------------
(* Loading on first use *)

LoadSections(t) ==
  /\ tgt[t].state = "live" /\ tgt[t].sections = Nil
  /\ tgt' = [tgt EXCEPT ![t].sections = SectionHash(Layout[tgt[t].file].sections)]
  /\ UNCHANGED <<files, temps, contents, fault>>

LoadSymbols(t) ==
  /\ tgt[t].state = "live" /\ tgt[t].symbols = Nil
  /\ \E l \in LayoutsSeen(tgt[t].file, fds[tgt[t].fd]) :
       IF Crashes(l) THEN fault' = "symbol table" /\ UNCHANGED tgt
       ELSE tgt' = [tgt EXCEPT ![t].symbols = SymbolHash(l)] /\ UNCHANGED fault
  /\ UNCHANGED <<files, temps, contents>>

Known(t, k) == tgt[t].sections # Nil /\ \E i \in DOMAIN tgt[t].sections : tgt[t].sections[i].value = k

\* Section#contents: what cannot be read is not remembered.
Read(t, k) ==
  /\ tgt[t].state = "live" /\ Known(t, k) /\ contents[<<t, k>>] = Nil
  /\ contents' = [contents EXCEPT ![<<t, k>>] = fds[tgt[t].fd]]
  /\ UNCHANGED <<files, temps, tgt, fault>>

\* A Section or Symbol of a target that is gone: its contents, if they were not
\* loaded, or as the target of a disassembly.
UseStale(t) ==
  /\ tgt[t].state = "gone" /\ (tgt[t].sections # Nil \/ tgt[t].symbols # Nil)
  /\ fault' = "stale pointer"
  /\ UNCHANGED <<files, temps, tgt, contents>>

---------------------------------------------------------------------------
(* Target.from_buffer.  The descriptor of the File that writes the buffer is left out. *)

\* Tempfile.new, close, and the same path opened as a File: the Tempfile is garbage.
FromBuffer(k, f, block) ==
  /\ call.pc = "idle" /\ temp[k] = "none"
  /\ temp' = [temp EXCEPT ![k] = "disk"]
  /\ call' = [NoCall EXCEPT !.pc = "written", !.temp = k, !.file = f, !.block = block]
  /\ UNCHANGED <<files, tempFile, finalized, unlinked, result, tgt, contents, fault>>

\* The finalizer of the Tempfile deletes its path.
Finalize(k) ==
  /\ temp[k] = "disk" /\ k \notin finalized
  /\ temp' = [temp EXCEPT ![k] = "deleted"] /\ finalized' = finalized \cup {k}
  /\ UNCHANGED <<files, call, tempFile, unlinked, result, tgt, contents, fault>>

\* Variant for the mutation run: no return before the part for the block.
EndsFalling(how) == call' = [call EXCEPT !.pc = "yield"] /\ result' = [result EXCEPT ![call.temp] = how]
Ends(how) == call' = NoCall /\ result' = [result EXCEPT ![call.temp] = how]

BufferTarget(t, n) ==
  /\ call.pc = "written" /\ temp[call.temp] = "disk"
  /\ Opened(n, call.file) /\ Object(call.file) /\ Made(t, n, call.file)
  /\ IF call.block
     THEN call' = [call EXCEPT !.pc = "yield", !.target = t] /\ UNCHANGED <<tempFile, result>>
     ELSE Ends("target") /\ tempFile' = call.temp
  /\ UNCHANGED <<io, rejected, shared, temp, finalized, unlinked, contents, fault>>
BufferRejected(n) ==
  /\ call.pc = "written" /\ temp[call.temp] = "disk" /\ Rejected(n, call.file) /\ Ends("rejected")
  /\ UNCHANGED <<io, shared, temp, tempFile, finalized, unlinked, tgt, contents, fault>>
BufferLost ==
  /\ call.pc = "written" /\ temp[call.temp] # "disk" /\ Ends("lost")
  /\ UNCHANGED <<files, temp, tempFile, finalized, unlinked, tgt, contents, fault>>

\* Variant for the mutation run: the file is closed and not deleted.
BlockReturnsKeeping ==
  /\ call.pc = "yield" /\ Ends("done")
  /\ UNCHANGED <<files, temp, tempFile, finalized, unlinked, tgt, contents, fault>>
\* File.unlink raises if the finalizer was faster.
BlockReturns ==
  /\ call.pc = "yield"
  /\ Ends(IF temp[call.temp] = "disk" THEN "done" ELSE "unlink raised")
  /\ temp' = [temp EXCEPT ![call.temp] = "deleted"]
  /\ UNCHANGED <<files, tempFile, finalized, unlinked, tgt, contents, fault>>
BlockRaises ==
  /\ call.pc = "yield" /\ Ends("block raised")
  /\ UNCHANGED <<files, temp, tempFile, finalized, unlinked, tgt, contents, fault>>

Next ==
  /\ fault = "none"
  /\ \/ \E i \in Ios, f \in Files, n \in Fds : OpenIo(i, f, n)
     \/ \E i \in Ios : CloseIo(i)
     \/ \E t \in Targets, f \in Files, n \in Fds : NewFromPath(t, f, n)
     \/ \E f \in Files, n \in Fds : PathRejected(f, n)
     \/ \E t \in Targets, i \in Ios : NewFromIo(t, i)
     \/ \E t \in Targets : Close(t) \/ Collect(t) \/ LoadSections(t) \/ LoadSymbols(t) \/ UseStale(t)
     \/ \E t \in Targets, k \in Positions : Read(t, k)
     \/ \E t \in Targets, k \in Temps \cup {Nil} : SetTempFile(t, k)
     \/ \E k \in Temps, f \in Files, block \in BOOLEAN : FromBuffer(k, f, block)
     \/ \E k \in Temps : Finalize(k)
     \/ \E t \in Targets, n \in Fds : BufferTarget(t, n)
     \/ \E n \in Fds : BufferRejected(n)
     \/ BufferLost \/ BlockReturns \/ BlockRaises

Spec == Init /\ [][Next]_vars

---------------------------------------------------------------------------
(* Properties *)

Live(t) == tgt[t].state = "live"

TargetType ==
  [state: {"none", "live", "gone"}, fd: Fds \cup {Nil}, file: Files \cup {Nil},
   sections: Seq([key: STRING, value: Positions]) \cup {Nil},
   symbols: Seq([key: STRING, value: {"static", "dynamic"}]) \cup {Nil},
   temp_file: Temps \cup {Nil}]

\* Types; a target that was made has a number and an object file.
TypeOK ==
  /\ fds \in [Fds -> Files \cup {Nil}] /\ opens \in 0 .. MaxOpens
  /\ io \in [Ios -> [fd: Fds, file: Files] \cup {Nil}]
  /\ tgt \in [Targets -> TargetType]
  /\ \A t \in Targets :
       tgt[t].state # "none" => tgt[t].fd \in Fds /\ Object(tgt[t].file)
  /\ contents \in [Targets \X Positions -> Files \cup {Nil}]
  /\ call \in [pc: {"idle", "written", "yield"}, temp: Temps \cup {Nil}, file: Files \cup {Nil},
               block: BOOLEAN, target: Targets \cup {Nil}]
  /\ call.pc # "idle" => call.temp \in Temps /\ call.file \in Files
  /\ call.pc = "yield" => call.target \in Targets
  /\ temp \in [Temps -> {"none", "disk", "deleted"}] /\ tempFile \in Temps \cup {Nil}
  /\ fault \in {"none", "symbol table", "stale pointer"}
  /\ rejected \subseteq Fds /\ shared \subseteq Fds /\ finalized \subseteq Temps
  /\ unlinked \subseteq Temps
  /\ result \in [Temps -> {Nil, "target", "rejected", "lost", "done", "unlink raised", "block raised"}]

\* The number of a target or of an IO refers to another file than the one it was
\* opened for, or to none, only if that number was given to Target.new as part of an
\* IO: whatever is opened by path is safe from every order of closing,
\* collecting and reusing numbers until it comes to bear such a number.  So are the
\* contents of its sections.  About cls_target_new, the free function of
\* new_target_for_bfd and cls_section_contents (BFD.c).
OwnFile ==
  /\ \A t \in Targets : Live(t) => fds[tgt[t].fd] = tgt[t].file \/ tgt[t].fd \in shared
  /\ \A i \in Ios : io[i] # Nil => fds[io[i].fd] = io[i].file \/ io[i].fd \in shared
  /\ \A t \in Targets, k \in Positions :
       contents[<<t, k>>] \in {Nil, tgt[t].file} \/ tgt[t].fd \in shared

\* Every open descriptor is that of an open IO, of a target that is there, or of a
\* file that was refused.  About new_target_for_bfd (BFD.c), which raises
\* without bfd_close, and the collector.
DescriptorsAccounted ==
  \A n \in Fds : fds[n] # Nil =>
    \/ n \in rejected \/ \E t \in Targets : Live(t) /\ tgt[t].fd = n
    \/ \E i \in Ios : io[i] # Nil /\ io[i].fd = n

\* section_for_vma gives a section that contains the address, and after sections was
\* called gives nil only if every section of the file that contains it shares its name
\* with a later one.  symbols holds each name that a table of the file has, as dynamic
\* exactly if the dynamic table has it, unless the target's number is that of an IO
\* passed to Target.new, so that the symbols may be another file's.  About
\* add_section_to_hash, load_static_syms, load_dyn_syms (BFD.c) and section_for_vma (BFD.rb).
TablesSound ==
  \A t \in Targets :
    LET l == Layout[tgt[t].file]
        Names(table) == IF l.hasSyms /\ table.bound = 1 THEN ToSet(table.names) ELSE {}
    IN  /\ Live(t) /\ tgt[t].sections # Nil => \A vma \in Addresses :
             LET a == SectionForVma(t, vma) IN
             IF a # NotFound THEN Covers(l.sections[a], vma)
             ELSE \A k \in DOMAIN l.sections : Covers(l.sections[k], vma) =>
                    \E j \in DOMAIN l.sections : k < j /\ l.sections[j].name = l.sections[k].name
        /\ Live(t) /\ tgt[t].symbols # Nil /\ tgt[t].fd \notin shared =>
             {tgt[t].symbols[i] : i \in DOMAIN tgt[t].symbols} =
               {[key |-> s, value |-> IF s \in Names(l.dynamic) THEN "dynamic" ELSE "static"] :
                  s \in Names(l.static) \cup Names(l.dynamic)}

\* Nothing is deleted but by a block that returns, by close of a target whose temp_file
\* is set, or by the collector, so that a call that raises keeps its file.  from_buffer
\* loses its file before it has opened it only to the collector; a block that returned
\* finds it missing only if the collector or close deleted it.  About
\* Target.from_buffer and Target#close (BFD.rb).
TempAccounted ==
  \A k \in Temps :
    /\ result[k] = "done" => temp[k] = "deleted"
    /\ result[k] = "lost" => k \in finalized
    /\ result[k] = "unlink raised" => k \in finalized \cup unlinked
    /\ temp[k] = "deleted" => k \in finalized \cup unlinked \/ result[k] = "done"
=============================================================================
