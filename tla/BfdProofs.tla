----------------------------- MODULE BfdProofs -----------------------------
(***************************************************************************)
(* Theorems about Bfd, for any number of targets, IO objects, descriptors, *)
(* temporary files and any layout of the files.  There are two inductive   *)
(* invariants, one for the descriptors and one for the temporary files.    *)
(***************************************************************************)
EXTENDS Bfd, TLAPS

\* What the tables of a target hold is left open.
Fields == {"state", "fd", "file", "sections", "symbols", "temp_file"}
Shapes ==
  /\ fds \in [Fds -> Files \cup {Nil}]
  /\ io \in [Ios -> [fd: Fds, file: Files] \cup {Nil}]
  /\ DOMAIN tgt = Targets /\ DOMAIN contents = Targets \X Positions
  /\ \A t \in Targets :
       /\ DOMAIN tgt[t] = Fields /\ tgt[t].state \in {"none", "live", "gone"}
       /\ tgt[t].state = "none" => tgt[t].fd = Nil /\ tgt[t].file = Nil
       /\ tgt[t].state # "none" => tgt[t].fd \in Fds /\ tgt[t].file \in Files
  /\ shared \subseteq Fds

\* A number that was never passed to Target.new as part of an IO has one owner.
OneOwner ==
  /\ \A t, u \in Targets : t # u /\ Live(t) /\ Live(u) /\ tgt[t].fd = tgt[u].fd => tgt[t].fd \in shared
  /\ \A t \in Targets, i \in Ios : Live(t) /\ io[i] # Nil /\ io[i].fd = tgt[t].fd => io[i].fd \in shared
  /\ \A i, j \in Ios : i # j /\ io[i] # Nil /\ io[j] # Nil /\ io[i].fd = io[j].fd => io[i].fd \in shared

FilesInv == Shapes /\ OneOwner /\ OwnFile /\ DescriptorsAccounted

---------------------------------------------------------------------------
\* Everything that opens a file gets a number that nobody has, unless it was shared.
LEMMA FreeNumber ==
  ASSUME FilesInv, NEW n \in Fds, fds[n] = Nil, n \notin shared
  PROVE  /\ \A t \in Targets : Live(t) => tgt[t].fd # n
         /\ \A i \in Ios : io[i] # Nil => io[i].fd # n
<1>1. ASSUME NEW t \in Targets, Live(t), tgt[t].fd = n PROVE FALSE
  <2>1. fds[n] = tgt[t].file BY <1>1 DEF FilesInv, OwnFile
  <2>2. tgt[t].file \in Files BY <1>1 DEF FilesInv, Shapes, Live
  <2> QED BY <2>1, <2>2, NilAssumption
<1>2. ASSUME NEW i \in Ios, io[i] # Nil, io[i].fd = n PROVE FALSE
  <2>1. fds[n] = io[i].file BY <1>2 DEF FilesInv, OwnFile
  <2>2. io[i].file \in Files BY <1>2 DEF FilesInv, Shapes
  <2> QED BY <2>1, <2>2, NilAssumption
<1> QED BY <1>1, <1>2

LEMMA OpenIoStep ==
  ASSUME FilesInv, NEW i \in Ios, NEW f \in Files, NEW n \in Fds, OpenIo(i, f, n)
  PROVE  FilesInv'
<1>1. /\ fds[n] = Nil /\ fds' = [fds EXCEPT ![n] = f] /\ io[i] = Nil
      /\ io' = [io EXCEPT ![i] = [fd |-> n, file |-> f]]
      /\ UNCHANGED <<rejected, shared, tgt, contents>>
  BY DEF OpenIo, Opened
<1>2. /\ fds'[n] = f /\ \A x \in Fds : x # n => fds'[x] = fds[x]
      /\ io'[i].fd = n /\ io'[i].file = f /\ \A j \in Ios : j # i => io'[j] = io[j]
  BY <1>1 DEF FilesInv, Shapes
<1>3. io'[i] # Nil
  <2>1. [fd |-> n, file |-> f] # Nil
    <3>1. [fd |-> n, file |-> f] \in [fd: Fds, file: Files] OBVIOUS
    <3> QED BY <3>1, NilAssumption
  <2>2. io'[i] = [fd |-> n, file |-> f] BY <1>1 DEF FilesInv, Shapes
  <2> QED BY <2>1, <2>2
<1>4. Shapes' BY <1>1 DEF FilesInv, Shapes
<1>5. n \notin shared => /\ \A t \in Targets : Live(t) => tgt[t].fd # n
                         /\ \A j \in Ios : io[j] # Nil => io[j].fd # n
  BY <1>1, FreeNumber
<1>6. OneOwner' BY <1>1, <1>2, <1>5 DEF FilesInv, OneOwner, Live
<1>7. OwnFile' BY <1>1, <1>2, <1>5 DEF FilesInv, Shapes, OwnFile, Live
<1>8. DescriptorsAccounted' BY <1>1, <1>2, <1>3 DEF FilesInv, DescriptorsAccounted, Live
<1> QED BY <1>4, <1>6, <1>7, <1>8 DEF FilesInv

\* What Made puts into a Target.
LEMMA MadeOK ==
  ASSUME FilesInv, NEW t \in Targets, NEW n \in Fds, NEW f \in Files, Made(t, n, f)
  PROVE  /\ ~Live(t) /\ tgt[t].state = "none" /\ DOMAIN tgt' = Targets /\ DOMAIN tgt'[t] = Fields
         /\ tgt'[t].state = "live" /\ tgt'[t].fd = n /\ tgt'[t].file = f
         /\ \A u \in Targets : u # t => tgt'[u] = tgt[u]
<1>1. /\ tgt[t].state = "none"
      /\ tgt' = [tgt EXCEPT ![t] = [NoTarget EXCEPT !.state = "live", !.fd = n, !.file = f]]
  BY DEF Made
<1> DEFINE r == [NoTarget EXCEPT !.state = "live", !.fd = n, !.file = f]
<1>2. DOMAIN r = Fields /\ r.state = "live" /\ r.fd = n /\ r.file = f BY DEF NoTarget, Fields
<1>3. DOMAIN tgt = Targets BY DEF FilesInv, Shapes
<1> HIDE DEF r
<1>4. tgt' = [tgt EXCEPT ![t] = r] BY <1>1 DEF r
<1> QED BY <1>1, <1>2, <1>3, <1>4 DEF Live

\* A target with a descriptor of its own: Target.new of a path, also of that of a buffer.
LEMMA OwnTargetStep ==
  ASSUME FilesInv, NEW t \in Targets, NEW f \in Files, NEW n \in Fds,
         Opened(n, f), Made(t, n, f), UNCHANGED <<io, rejected, shared, contents>>
  PROVE  FilesInv'
<1>1. fds[n] = Nil /\ fds'[n] = f /\ (\A x \in Fds : x # n => fds'[x] = fds[x])
      /\ fds' \in [Fds -> Files \cup {Nil}]
  BY DEF Opened, FilesInv, Shapes
<1>2. /\ ~Live(t) /\ tgt[t].state = "none" /\ DOMAIN tgt' = Targets /\ DOMAIN tgt'[t] = Fields
      /\ tgt'[t].state = "live" /\ tgt'[t].fd = n /\ tgt'[t].file = f
      /\ \A u \in Targets : u # t => tgt'[u] = tgt[u]
  BY MadeOK
<1>3. n \notin shared => /\ \A u \in Targets : Live(u) => tgt[u].fd # n
                         /\ \A j \in Ios : io[j] # Nil => io[j].fd # n
  BY <1>1, FreeNumber
<1>4. Shapes' BY <1>1, <1>2 DEF FilesInv, Shapes
<1>5. Live(t)' /\ \A u \in Targets : u # t => (Live(u)' <=> Live(u)) BY <1>2 DEF Live
<1>6. OneOwner' BY <1>1, <1>2, <1>3, <1>5 DEF FilesInv, OneOwner
<1>7. OwnFile'
  <2>1. \A u \in Targets : Live(u)' => fds'[tgt'[u].fd] = tgt'[u].file \/ tgt'[u].fd \in shared'
    <3>1. ASSUME NEW u \in Targets, Live(u), u # t
          PROVE  fds'[tgt'[u].fd] = tgt'[u].file \/ tgt'[u].fd \in shared'
      <4>1. tgt[u].fd \in Fds /\ tgt'[u] = tgt[u] BY <1>2, <3>1 DEF FilesInv, Shapes, Live
      <4>2. tgt[u].fd = n => n \in shared BY <1>3, <3>1
      <4>3. fds[tgt[u].fd] = tgt[u].file \/ tgt[u].fd \in shared BY <3>1 DEF FilesInv, OwnFile
      <4> QED BY <1>1, <4>1, <4>2, <4>3
    <3> QED BY <1>1, <1>2, <1>5, <3>1
  <2>2. \A i \in Ios : io'[i] # Nil => fds'[io'[i].fd] = io'[i].file \/ io'[i].fd \in shared'
    BY <1>1, <1>3 DEF FilesInv, Shapes, OwnFile
  <2>3. \A u \in Targets, k \in Positions :
          contents'[<<u, k>>] \in {Nil, tgt'[u].file} \/ tgt'[u].fd \in shared'
    <3>1. \A k \in Positions : contents[<<t, k>>] = Nil
      <4>1. tgt[t].fd = Nil /\ tgt[t].file = Nil BY <1>2 DEF FilesInv, Shapes
      <4>2. Nil \notin shared BY NilAssumption DEF FilesInv, Shapes
      <4> QED BY <4>1, <4>2 DEF FilesInv, OwnFile
    <3> QED BY <1>2, <3>1 DEF FilesInv, OwnFile
  <2> QED BY <2>1, <2>2, <2>3 DEF OwnFile
<1>8. DescriptorsAccounted' BY <1>1, <1>2, <1>5 DEF FilesInv, DescriptorsAccounted
<1> QED BY <1>4, <1>6, <1>7, <1>8 DEF FilesInv

\* A file that is no object.
LEMMA RejectedStep ==
  ASSUME FilesInv, NEW f \in Files, NEW n \in Fds, Rejected(n, f), UNCHANGED <<io, shared, tgt, contents>>
  PROVE  FilesInv'
<1>1. fds[n] = Nil /\ fds'[n] = f /\ (\A x \in Fds : x # n => fds'[x] = fds[x])
      /\ fds' \in [Fds -> Files \cup {Nil}] /\ rejected' = rejected \cup {n}
  BY DEF Rejected, Opened, FilesInv, Shapes
<1>2. n \notin shared => /\ \A u \in Targets : Live(u) => tgt[u].fd # n
                         /\ \A j \in Ios : io[j] # Nil => io[j].fd # n
  BY <1>1, FreeNumber
<1>3. Shapes' BY <1>1 DEF FilesInv, Shapes
<1>4. OneOwner' BY DEF FilesInv, OneOwner, Live
<1>5. OwnFile' BY <1>1, <1>2 DEF FilesInv, Shapes, OwnFile, Live
<1>6. DescriptorsAccounted' BY <1>1 DEF FilesInv, DescriptorsAccounted, Live
<1> QED BY <1>3, <1>4, <1>5, <1>6 DEF FilesInv

\* Target.new of an IO: both own its descriptor from then on.
LEMMA NewFromIoStep ==
  ASSUME FilesInv, NEW t \in Targets, NEW i \in Ios, NewFromIo(t, i)
  PROVE  FilesInv'
<1>1. /\ io[i] # Nil /\ Object(fds[io[i].fd]) /\ Made(t, io[i].fd, fds[io[i].fd])
      /\ shared' = shared \cup {io[i].fd} /\ UNCHANGED <<fds, io, rejected, contents>>
  BY DEF NewFromIo
<1>2. PICK n \in Fds, f \in Files : n = io[i].fd /\ f = fds[n]
  BY <1>1 DEF FilesInv, Shapes, Object
<1>3. /\ ~Live(t) /\ tgt[t].state = "none" /\ DOMAIN tgt' = Targets /\ DOMAIN tgt'[t] = Fields
      /\ tgt'[t].state = "live" /\ tgt'[t].fd = n /\ tgt'[t].file = f
      /\ \A u \in Targets : u # t => tgt'[u] = tgt[u]
  BY <1>1, <1>2, MadeOK
<1>4. Shapes' BY <1>1, <1>2, <1>3 DEF FilesInv, Shapes
<1>5. Live(t)' /\ \A u \in Targets : u # t => (Live(u)' <=> Live(u)) BY <1>3 DEF Live
<1>6. OneOwner' BY <1>1, <1>2, <1>3, <1>5 DEF FilesInv, OneOwner
<1>7. OwnFile' BY <1>1, <1>2, <1>3, <1>5 DEF FilesInv, OwnFile
<1>8. DescriptorsAccounted' BY <1>1, <1>3, <1>5 DEF FilesInv, DescriptorsAccounted
<1> QED BY <1>4, <1>6, <1>7, <1>8 DEF FilesInv

\* The program or the collector closes an IO.
LEMMA CloseIoStep ==
  ASSUME FilesInv, NEW i \in Ios, CloseIo(i) PROVE FilesInv'
<1>1. /\ io[i] # Nil /\ fds' = [fds EXCEPT ![io[i].fd] = Nil] /\ io' = [io EXCEPT ![i] = Nil]
      /\ UNCHANGED <<rejected, shared, tgt, contents>>
  BY DEF CloseIo
<1>2. PICK n \in Fds : n = io[i].fd BY <1>1 DEF FilesInv, Shapes
<1>3. /\ fds'[n] = Nil /\ (\A x \in Fds : x # n => fds'[x] = fds[x]) /\ io'[i] = Nil
      /\ \A j \in Ios : j # i => io'[j] = io[j]
  BY <1>1, <1>2 DEF FilesInv, Shapes
<1>4. Shapes' BY <1>1, <1>2 DEF FilesInv, Shapes
<1>5. OneOwner' BY <1>1, <1>3 DEF FilesInv, OneOwner, Live
<1>6. OwnFile' BY <1>1, <1>2, <1>3 DEF FilesInv, Shapes, OneOwner, OwnFile, Live
<1>7. DescriptorsAccounted' BY <1>1, <1>2, <1>3 DEF FilesInv, DescriptorsAccounted, Live
<1> QED BY <1>4, <1>5, <1>6, <1>7 DEF FilesInv

\* The collector closes a target.
LEMMA CollectStep ==
  ASSUME FilesInv, NEW t \in Targets, Collect(t) PROVE FilesInv'
<1>1. /\ Live(t) /\ tgt' = [tgt EXCEPT ![t].state = "gone"] /\ fds' = [fds EXCEPT ![tgt[t].fd] = Nil]
      /\ UNCHANGED <<io, rejected, shared, contents>>
  BY DEF Collect, Live
<1>2. PICK n \in Fds : n = tgt[t].fd BY <1>1 DEF FilesInv, Shapes, Live
<1>3. DOMAIN tgt = Targets /\ DOMAIN tgt[t] = Fields BY DEF FilesInv, Shapes
<1>4. /\ fds'[n] = Nil /\ (\A x \in Fds : x # n => fds'[x] = fds[x])
      /\ fds' \in [Fds -> Files \cup {Nil}]
  BY <1>1, <1>2 DEF FilesInv, Shapes
<1>5. /\ DOMAIN tgt' = Targets /\ DOMAIN tgt'[t] = Fields /\ tgt'[t].state = "gone"
      /\ tgt'[t].fd = n /\ tgt'[t].file = tgt[t].file /\ \A u \in Targets : u # t => tgt'[u] = tgt[u]
  BY <1>1, <1>2, <1>3 DEF Fields
<1>6. Shapes' BY <1>1, <1>2, <1>4, <1>5 DEF FilesInv, Shapes, Live
<1>7. ~Live(t)' /\ \A u \in Targets : u # t => (Live(u)' <=> Live(u)) BY <1>5 DEF Live
<1>8. OneOwner' BY <1>1, <1>5, <1>7 DEF FilesInv, OneOwner
<1>9. OwnFile'
  <2>1. \A u \in Targets : Live(u)' => fds'[tgt'[u].fd] = tgt'[u].file \/ tgt'[u].fd \in shared'
    <3>1. ASSUME NEW u \in Targets, Live(u), u # t
          PROVE  fds'[tgt'[u].fd] = tgt'[u].file \/ tgt'[u].fd \in shared'
      <4>1. tgt[u].fd \in Fds /\ tgt'[u] = tgt[u] BY <1>5, <3>1 DEF FilesInv, Shapes, Live
      <4>2. tgt[u].fd = n => n \in shared BY <1>1, <1>2, <3>1 DEF FilesInv, OneOwner
      <4>3. fds[tgt[u].fd] = tgt[u].file \/ tgt[u].fd \in shared BY <3>1 DEF FilesInv, OwnFile
      <4> QED BY <1>1, <1>4, <4>1, <4>2, <4>3
    <3> QED BY <1>7, <3>1
  <2>2. \A i \in Ios : io'[i] # Nil => fds'[io'[i].fd] = io'[i].file \/ io'[i].fd \in shared'
    BY <1>1, <1>2, <1>4 DEF FilesInv, Shapes, OneOwner, OwnFile
  <2>3. \A u \in Targets : tgt'[u].file = tgt[u].file /\ tgt'[u].fd = tgt[u].fd BY <1>2, <1>5
  <2> QED BY <1>1, <2>1, <2>2, <2>3 DEF FilesInv, OwnFile
<1>10. DescriptorsAccounted' BY <1>1, <1>2, <1>4, <1>5, <1>7 DEF FilesInv, DescriptorsAccounted
<1> QED BY <1>6, <1>8, <1>9, <1>10 DEF FilesInv

\* Tables that are loaded, and temp_file, change nothing else of a target.
Changes(t) == LoadSections(t) \/ LoadSymbols(t) \/ Close(t) \/ \E k \in Temps \cup {Nil} : SetTempFile(t, k)
LEMMA ChangesOnly ==
  ASSUME NEW t \in Targets, Changes(t)
  PROVE  /\ \/ tgt' = tgt \/ \E v : tgt' = [tgt EXCEPT ![t].sections = v]
            \/ \E v : tgt' = [tgt EXCEPT ![t].symbols = v]
            \/ \E v : tgt' = [tgt EXCEPT ![t].temp_file = v]
         /\ UNCHANGED <<fds, io, rejected, shared, contents>>
<1>1. CASE LoadSections(t) BY <1>1 DEF LoadSections, files
<1>2. CASE LoadSymbols(t) BY <1>2 DEF LoadSymbols, files
<1>3. CASE Close(t) BY <1>3 DEF Close, files
<1>4. CASE \E k \in Temps \cup {Nil} : SetTempFile(t, k) BY <1>4 DEF SetTempFile, files
<1> QED BY <1>1, <1>2, <1>3, <1>4 DEF Changes

LEMMA ChangesStep ==
  ASSUME FilesInv, NEW t \in Targets, Changes(t) PROVE FilesInv'
<1>1. UNCHANGED <<fds, io, rejected, shared, contents>> BY ChangesOnly
<1>2. \A u \in Targets : DOMAIN tgt[u] = Fields BY DEF FilesInv, Shapes
<1>3. DOMAIN tgt = Targets BY DEF FilesInv, Shapes
<1>4. /\ DOMAIN tgt' = Targets
      /\ \A u \in Targets : /\ DOMAIN tgt'[u] = Fields /\ tgt'[u].state = tgt[u].state
                            /\ tgt'[u].fd = tgt[u].fd /\ tgt'[u].file = tgt[u].file
  <2>1. ASSUME NEW v, tgt' = [tgt EXCEPT ![t].sections = v] PROVE <1>4 BY <1>2, <1>3, <2>1 DEF Fields
  <2>2. ASSUME NEW v, tgt' = [tgt EXCEPT ![t].symbols = v] PROVE <1>4 BY <1>2, <1>3, <2>2 DEF Fields
  <2>3. ASSUME NEW v, tgt' = [tgt EXCEPT ![t].temp_file = v] PROVE <1>4 BY <1>2, <1>3, <2>3 DEF Fields
  <2>4. CASE tgt' = tgt BY <1>2, <1>3, <2>4
  <2> QED BY <2>1, <2>2, <2>3, <2>4, ChangesOnly
<1>5. Shapes' BY <1>1, <1>4 DEF FilesInv, Shapes
<1>6. OneOwner' /\ OwnFile' /\ DescriptorsAccounted'
  BY <1>1, <1>4 DEF FilesInv, OneOwner, OwnFile, DescriptorsAccounted, Live
<1> QED BY <1>5, <1>6 DEF FilesInv

\* The contents of a section.
LEMMA ReadStep ==
  ASSUME FilesInv, NEW t \in Targets, NEW k \in Positions, Read(t, k) PROVE FilesInv'
<1>1. /\ Live(t) /\ contents' = [contents EXCEPT ![<<t, k>>] = fds[tgt[t].fd]]
      /\ UNCHANGED <<fds, io, rejected, shared, tgt>>
  BY DEF Read, Live, files
<1>2. /\ contents'[<<t, k>>] = fds[tgt[t].fd]
      /\ \A u \in Targets, j \in Positions : <<u, j>> # <<t, k>> => contents'[<<u, j>>] = contents[<<u, j>>]
  BY <1>1 DEF FilesInv, Shapes
<1>3. Shapes' BY <1>1 DEF FilesInv, Shapes
<1>4. OneOwner' /\ DescriptorsAccounted' BY <1>1 DEF FilesInv, OneOwner, DescriptorsAccounted, Live
<1>5. OwnFile'
  <2>1. fds[tgt[t].fd] = tgt[t].file \/ tgt[t].fd \in shared BY <1>1 DEF FilesInv, OwnFile
  <2> QED BY <1>1, <1>2, <2>1 DEF FilesInv, OwnFile, Live
<1> QED BY <1>3, <1>4, <1>5 DEF FilesInv

---------------------------------------------------------------------------
(* Temporary files *)

TempShapes ==
  /\ temp \in [Temps -> {"none", "disk", "deleted"}]
  /\ DOMAIN result = Temps
  /\ DOMAIN call = {"pc", "temp", "file", "block", "target"}
  /\ call.pc # "idle" => call.temp \in Temps /\ call.file \in Files

\* A file that was not made has no history; that of the running call has no outcome yet.
TempFrame ==
  /\ \A k \in Temps : temp[k] = "none" => result[k] = Nil /\ k \notin finalized /\ k \notin unlinked
  /\ call.pc # "idle" => temp[call.temp] # "none" /\ result[call.temp] = Nil
  /\ call.pc = "written" => call.temp \notin unlinked

\* No target was given the file that is being written.
NotWritten(k) == k # Nil => temp[k] # "none" /\ (call.pc = "written" => k # call.temp)
TempFiles ==
  /\ DOMAIN tgt = Targets
  /\ \A t \in Targets : /\ DOMAIN tgt[t] = Fields /\ tgt[t].temp_file \in Temps \cup {Nil}
                        /\ NotWritten(tgt[t].temp_file)

TempsInv == TempShapes /\ TempFrame /\ TempFiles /\ TempAccounted

\* The targets of a step that gives none of them a file.
NoneGiven ==
  /\ DOMAIN tgt' = Targets
  /\ \A t \in Targets : DOMAIN tgt'[t] = Fields /\ tgt'[t].temp_file \in {tgt[t].temp_file, Nil}

LEMMA TempFilesKept ==
  ASSUME TempFiles, NoneGiven, \A k \in Temps : temp[k] # "none" => temp'[k] # "none",
         call'.pc = "written" => call.pc = "written" /\ call'.temp = call.temp
  PROVE  TempFiles'
<1> SUFFICES ASSUME NEW t \in Targets, tgt'[t].temp_file # Nil
             PROVE  /\ tgt'[t].temp_file \in Temps /\ temp'[tgt'[t].temp_file] # "none"
                    /\ call'.pc = "written" => tgt'[t].temp_file # call'.temp
  BY DEF TempFiles, NotWritten, NoneGiven
<1>1. tgt'[t].temp_file = tgt[t].temp_file BY DEF NoneGiven
<1> QED BY <1>1 DEF TempFiles, NotWritten

LEMMA TempsUntouched ==
  ASSUME TempsInv, NoneGiven, UNCHANGED temps PROVE TempsInv'
<1>1. TempShapes' /\ TempFrame' /\ TempAccounted'
  BY DEF TempsInv, TempShapes, TempFrame, TempAccounted, temps
<1>2. TempFiles' BY TempFilesKept DEF TempsInv, temps
<1> QED BY <1>1, <1>2 DEF TempsInv

\* A call that ends, and perhaps deletes its file.
LEMMA EndsStep ==
  ASSUME TempsInv, NEW how, call.pc # "idle", Ends(how), UNCHANGED <<finalized, unlinked>>, NoneGiven,
         \/ temp' = temp /\ how \notin {"done", "unlink raised"}
         \/ temp' = [temp EXCEPT ![call.temp] = "deleted"] /\ how = "done"
         \/ /\ temp' = [temp EXCEPT ![call.temp] = "deleted"] /\ temp[call.temp] # "disk"
            /\ how = "unlink raised",
         how = "lost" => temp[call.temp] # "disk" /\ call.pc = "written"
  PROVE  TempsInv'
<1>1. PICK k \in Temps : k = call.temp BY DEF TempsInv, TempShapes
<1>2. /\ call' = NoCall /\ result' = [result EXCEPT ![k] = how] /\ temp[k] # "none" /\ result[k] = Nil
      /\ call.pc = "written" => k \notin unlinked
  BY <1>1 DEF Ends, TempsInv, TempFrame
<1>3. /\ DOMAIN result' = Temps /\ result'[k] = how /\ \A j \in Temps : j # k => result'[j] = result[j]
  BY <1>2 DEF TempsInv, TempShapes
<1>4. /\ temp' \in [Temps -> {"none", "disk", "deleted"}] /\ temp'[k] # "none"
      /\ \A j \in Temps : j # k => temp'[j] = temp[j]
      /\ how \notin {"done", "unlink raised"} => temp'[k] = temp[k]
      /\ how \in {"done", "unlink raised"} => temp'[k] = "deleted"
      /\ how = "unlink raised" => temp[k] # "disk"
  BY <1>1, <1>2 DEF TempsInv, TempShapes
<1>5. temp[k] # "disk" => k \in finalized \cup unlinked
  <2>1. temp[k] # "disk" => temp[k] = "deleted" BY <1>2 DEF TempsInv, TempShapes
  <2>2. result[k] # "done" BY <1>2, NilAssumption
  <2> QED BY <2>1, <2>2 DEF TempsInv, TempAccounted
<1>6. TempShapes' BY <1>2, <1>3, <1>4 DEF TempShapes, NoCall
<1>7. TempFrame' BY <1>2, <1>3, <1>4 DEF TempsInv, TempFrame, NoCall
<1> DEFINE Right(j) == /\ result[j] = "done" => temp[j] = "deleted"
                       /\ result[j] = "lost" => j \in finalized
                       /\ result[j] = "unlink raised" => j \in finalized \cup unlinked
                       /\ temp[j] = "deleted" => j \in finalized \cup unlinked \/ result[j] = "done"
<1>8. TempAccounted'
  <2>1. ASSUME NEW j \in Temps, j # k PROVE Right(j)'
    <3>1. Right(j) BY DEF TempsInv, TempAccounted
    <3> QED BY <1>3, <1>4, <2>1, <3>1
  <2>2. Right(k)'
    <3>1. how = "lost" => k \in finalized
      <4>1. how = "lost" => temp[k] # "disk" /\ k \notin unlinked BY <1>1, <1>2
      <4> QED BY <1>5, <4>1
    <3>2. finalized' = finalized /\ unlinked' = unlinked OBVIOUS
    <3>3. how = "done" => temp'[k] = "deleted" BY <1>4
    <3>4. how = "unlink raised" => k \in finalized \cup unlinked BY <1>4, <1>5
    <3>5. temp'[k] = "deleted" => k \in finalized \cup unlinked \/ how = "done" BY <1>4, <1>5
    <3> QED BY <1>3, <3>1, <3>2, <3>3, <3>4, <3>5
  <2>3. \A j \in Temps : Right(j)'
    <3> HIDE DEF Right
    <3> QED BY <2>1, <2>2
  <2> QED BY <2>3 DEF TempAccounted
<1>9. TempFiles'
  <2>1. call'.pc # "written" BY <1>2 DEF NoCall
  <2>2. \A j \in Temps : temp[j] # "none" => temp'[j] # "none" BY <1>4
  <2> QED BY <2>1, <2>2, TempFilesKept DEF TempsInv
<1> QED BY <1>6, <1>7, <1>8, <1>9 DEF TempsInv

LEMMA TempsInit == Init => TempsInv
<1> SUFFICES ASSUME Init PROVE TempsInv OBVIOUS
<1>1. /\ call = NoCall /\ temp = [k \in Temps |-> "none"] /\ finalized = {} /\ unlinked = {}
      /\ result = [k \in Temps |-> Nil] /\ tgt = [t \in Targets |-> NoTarget]
  BY DEF Init
<1>2. TempShapes BY <1>1 DEF TempShapes, NoCall
<1>3. TempFrame BY <1>1 DEF TempFrame, NoCall
<1>4. TempAccounted BY <1>1, NilAssumption DEF TempAccounted
<1>5. TempFiles
  <2>1. DOMAIN NoTarget = Fields /\ NoTarget.temp_file = Nil BY DEF NoTarget, Fields
  <2> QED BY <1>1, <2>1 DEF TempFiles, NotWritten
<1> QED BY <1>2, <1>3, <1>4, <1>5 DEF TempsInv

\* Targets that are made, collected or loaded are given no file.
LEMMA MadeGivesNone ==
  ASSUME TempsInv, NEW t \in Targets, NEW n, NEW f, Made(t, n, f) PROVE NoneGiven
<1> DEFINE r == [NoTarget EXCEPT !.state = "live", !.fd = n, !.file = f]
<1>1. DOMAIN r = Fields /\ r.temp_file = Nil BY DEF NoTarget, Fields
<1> HIDE DEF r
<1>2. tgt' = [tgt EXCEPT ![t] = r] BY DEF Made, r
<1> QED BY <1>1, <1>2 DEF TempsInv, TempFiles, NoneGiven

LEMMA SameGivesNone == ASSUME TempsInv, tgt' = tgt PROVE NoneGiven
BY DEF TempsInv, TempFiles, NoneGiven

LEMMA OthersGiveNone ==
  ASSUME TempsInv, NEW t \in Targets, Collect(t) \/ LoadSections(t) \/ LoadSymbols(t) PROVE NoneGiven
<1>1. \/ tgt' = [tgt EXCEPT ![t].state = "gone"] \/ \E v : tgt' = [tgt EXCEPT ![t].sections = v]
      \/ \E v : tgt' = [tgt EXCEPT ![t].symbols = v] \/ tgt' = tgt
  BY DEF Collect, LoadSections, LoadSymbols
<1>2. DOMAIN tgt = Targets /\ \A u \in Targets : DOMAIN tgt[u] = Fields BY DEF TempsInv, TempFiles
<1>3. CASE tgt' = [tgt EXCEPT ![t].state = "gone"] BY <1>2, <1>3 DEF NoneGiven, Fields
<1>4. ASSUME NEW v, tgt' = [tgt EXCEPT ![t].sections = v] PROVE NoneGiven
  BY <1>2, <1>4 DEF NoneGiven, Fields
<1>5. ASSUME NEW v, tgt' = [tgt EXCEPT ![t].symbols = v] PROVE NoneGiven
  BY <1>2, <1>5 DEF NoneGiven, Fields
<1> QED BY <1>1, <1>3, <1>4, <1>5, SameGivesNone

\* temp_file= : a file that is there and not the one being written.
LEMMA SetTempFileStep ==
  ASSUME TempsInv, NEW t \in Targets, NEW k \in Temps \cup {Nil}, SetTempFile(t, k) PROVE TempsInv'
<1>1. /\ k # Nil => temp[k] = "disk" /\ (call.pc = "written" => k # call.temp)
      /\ tgt' = [tgt EXCEPT ![t].temp_file = k] /\ UNCHANGED temps
  BY DEF SetTempFile
<1>2. TempShapes' /\ TempFrame' /\ TempAccounted'
  BY <1>1 DEF TempsInv, TempShapes, TempFrame, TempAccounted, temps
<1>3. /\ DOMAIN tgt' = Targets /\ tgt'[t].temp_file = k /\ \A u \in Targets : DOMAIN tgt'[u] = Fields
      /\ \A u \in Targets : u # t => tgt'[u] = tgt[u]
  BY <1>1 DEF TempsInv, TempFiles, Fields
<1>4. NotWritten(k)' BY <1>1 DEF NotWritten, temps
<1>5. ASSUME NEW u \in Targets, u # t
      PROVE  tgt'[u].temp_file \in Temps \cup {Nil} /\ NotWritten(tgt[u].temp_file)'
  BY <1>1, <1>3, <1>5 DEF TempsInv, TempFiles, NotWritten, temps
<1>6. TempFiles' BY <1>3, <1>4, <1>5 DEF TempFiles
<1> QED BY <1>2, <1>6 DEF TempsInv

\* Target#close deletes the file that the target was given, or does nothing.
LEMMA CloseStep ==
  ASSUME TempsInv, NEW t \in Targets, Close(t) PROVE TempsInv'
<1>1. PICK k : k = tgt[t].temp_file OBVIOUS
<1>2. UNCHANGED <<call, tempFile, finalized, result>> BY DEF Close
<1>3. CASE ~(k # Nil /\ temp[k] = "disk")
  BY <1>1, <1>3, SameGivesNone, TempsUntouched DEF Close, temps
<1>4. CASE k # Nil /\ temp[k] = "disk"
  <2>1. /\ tgt' = [tgt EXCEPT ![t].temp_file = Nil] /\ temp' = [temp EXCEPT ![k] = "deleted"]
        /\ unlinked' = unlinked \cup {k}
    BY <1>1, <1>4 DEF Close
  <2>2. k \in Temps /\ (call.pc = "written" => k # call.temp)
    BY <1>1, <1>4 DEF TempsInv, TempFiles, NotWritten
  <2>3. NoneGiven
    <3>1. DOMAIN tgt = Targets /\ \A u \in Targets : DOMAIN tgt[u] = Fields BY DEF TempsInv, TempFiles
    <3> QED BY <2>1, <3>1 DEF NoneGiven, Fields
  <2>4. /\ temp' \in [Temps -> {"none", "disk", "deleted"}] /\ temp'[k] = "deleted"
        /\ \A j \in Temps : j # k => temp'[j] = temp[j]
    BY <2>1, <2>2 DEF TempsInv, TempShapes
  <2>5. TempShapes' BY <1>2, <2>4 DEF TempsInv, TempShapes
  <2>6. TempFrame' BY <1>2, <2>1, <2>2, <2>4 DEF TempsInv, TempFrame
  <2>7. TempAccounted' BY <1>2, <2>1, <2>2, <2>4 DEF TempsInv, TempAccounted
  <2>8. TempFiles'
    <3>1. \A j \in Temps : temp[j] # "none" => temp'[j] # "none" BY <2>4
    <3> QED BY <1>2, <2>3, <3>1, TempFilesKept DEF TempsInv
  <2> QED BY <2>5, <2>6, <2>7, <2>8 DEF TempsInv
<1> QED BY <1>3, <1>4

LEMMA TempsNext == TempsInv /\ [Next]_vars => TempsInv'
<1> SUFFICES ASSUME TempsInv, [Next]_vars PROVE TempsInv' OBVIOUS
<1>1. ASSUME NEW k \in Temps, NEW f \in Files, NEW block \in BOOLEAN, FromBuffer(k, f, block)
      PROVE  TempsInv'
  <2>1. /\ temp[k] = "none" /\ temp' = [temp EXCEPT ![k] = "disk"]
        /\ call' = [NoCall EXCEPT !.pc = "written", !.temp = k, !.file = f, !.block = block]
        /\ UNCHANGED <<finalized, unlinked, result, tgt>>
    BY <1>1 DEF FromBuffer
  <2>2. /\ DOMAIN call' = {"pc", "temp", "file", "block", "target"} /\ call'.temp = k /\ call'.file = f
    BY <2>1 DEF NoCall
  <2>3. /\ temp' \in [Temps -> {"none", "disk", "deleted"}] /\ temp'[k] = "disk"
        /\ \A j \in Temps : j # k => temp'[j] = temp[j]
    BY <2>1 DEF TempsInv, TempShapes
  <2>4. result[k] = Nil /\ k \notin unlinked BY <2>1 DEF TempsInv, TempFrame
  <2>5. TempShapes' BY <2>1, <2>2, <2>3 DEF TempsInv, TempShapes
  <2>6. TempFrame' BY <2>1, <2>2, <2>3, <2>4 DEF TempsInv, TempFrame
  <2>7. result[k] # "done" BY <2>4, NilAssumption
  <2>8. TempAccounted' BY <2>1, <2>3, <2>7 DEF TempsInv, TempAccounted
  <2>9. TempFiles' BY <2>1, <2>2, <2>3 DEF TempsInv, TempFiles, NotWritten
  <2> QED BY <2>5, <2>6, <2>8, <2>9 DEF TempsInv
<1>2. ASSUME NEW k \in Temps, Finalize(k) PROVE TempsInv'
  <2>1. /\ temp[k] = "disk" /\ temp' = [temp EXCEPT ![k] = "deleted"] /\ finalized' = finalized \cup {k}
        /\ UNCHANGED <<call, unlinked, result, tgt>>
    BY <1>2 DEF Finalize
  <2>2. /\ temp' \in [Temps -> {"none", "disk", "deleted"}] /\ temp'[k] = "deleted"
        /\ \A j \in Temps : j # k => temp'[j] = temp[j]
    BY <2>1 DEF TempsInv, TempShapes
  <2>3. TempShapes' /\ TempFrame' BY <2>1, <2>2 DEF TempsInv, TempShapes, TempFrame
  <2>4. TempAccounted' BY <2>1, <2>2 DEF TempsInv, TempAccounted
  <2>5. TempFiles'
    <3>1. \A j \in Temps : temp[j] # "none" => temp'[j] # "none" BY <2>2
    <3> QED BY <2>1, <3>1, SameGivesNone, TempFilesKept DEF TempsInv
  <2> QED BY <2>3, <2>4, <2>5 DEF TempsInv
<1>3. ASSUME NEW t \in Targets, NEW n \in Fds, BufferTarget(t, n) PROVE TempsInv'
  <2>1. /\ call.pc = "written" /\ temp[call.temp] = "disk" /\ UNCHANGED <<temp, finalized, unlinked>>
        /\ Made(t, n, call.file)
    BY <1>3 DEF BufferTarget
  <2>2. NoneGiven BY <2>1, MadeGivesNone
  <2>3. CASE call.block
    <3>1. call' = [call EXCEPT !.pc = "yield", !.target = t] /\ UNCHANGED result
      BY <1>3, <2>3 DEF BufferTarget
    <3>2. /\ DOMAIN call' = {"pc", "temp", "file", "block", "target"} /\ call'.temp = call.temp
          /\ call'.file = call.file /\ call'.pc = "yield"
      BY <3>1 DEF TempsInv, TempShapes
    <3>3. TempShapes' /\ TempFrame' BY <2>1, <3>1, <3>2 DEF TempsInv, TempShapes, TempFrame
    <3>4. TempAccounted' BY <2>1, <3>1 DEF TempsInv, TempAccounted
    <3>5. TempFiles' BY <2>1, <2>2, <3>2, TempFilesKept DEF TempsInv
    <3> QED BY <3>3, <3>4, <3>5 DEF TempsInv
  <2>4. CASE ~call.block
    <3>1. Ends("target") BY <1>3, <2>4 DEF BufferTarget
    <3> QED BY <2>1, <2>2, <3>1, EndsStep
  <2> QED BY <2>3, <2>4
<1>4. ASSUME NEW n \in Fds, BufferRejected(n) PROVE TempsInv'
  BY <1>4, SameGivesNone, EndsStep DEF BufferRejected
<1>5. CASE BufferLost BY <1>5, SameGivesNone, EndsStep DEF BufferLost
<1>6. CASE BlockReturns
  <2>1. CASE temp[call.temp] = "disk"
    <3>1. Ends("done") BY <1>6, <2>1 DEF BlockReturns
    <3> QED BY <1>6, <3>1, SameGivesNone, EndsStep DEF BlockReturns
  <2>2. CASE temp[call.temp] # "disk"
    <3>1. Ends("unlink raised") BY <1>6, <2>2 DEF BlockReturns
    <3> QED BY <1>6, <2>2, <3>1, SameGivesNone, EndsStep DEF BlockReturns
  <2> QED BY <2>1, <2>2
<1>7. CASE BlockRaises BY <1>7, SameGivesNone, EndsStep DEF BlockRaises
<1>8. ASSUME NEW i \in Ios, CloseIo(i) \/ \E f \in Files, n \in Fds : OpenIo(i, f, n)
      PROVE  UNCHANGED temps /\ NoneGiven
  BY <1>8, SameGivesNone DEF CloseIo, OpenIo
<1>9. ASSUME NEW f \in Files, NEW n \in Fds, PathRejected(f, n)
      PROVE  UNCHANGED temps /\ NoneGiven
  BY <1>9, SameGivesNone DEF PathRejected
<1>10. ASSUME NEW t \in Targets,
              \/ \E f \in Files, n \in Fds : NewFromPath(t, f, n)
              \/ \E i \in Ios : NewFromIo(t, i)
       PROVE  UNCHANGED temps /\ NoneGiven
  BY <1>10, MadeGivesNone DEF NewFromPath, NewFromIo
<1>11. ASSUME NEW t \in Targets, Collect(t) \/ LoadSections(t) \/ LoadSymbols(t)
       PROVE  UNCHANGED temps /\ NoneGiven
  <2>1. UNCHANGED temps BY <1>11 DEF Collect, LoadSections, LoadSymbols
  <2> QED BY <1>11, <2>1, OthersGiveNone
<1>12. ASSUME NEW t \in Targets, UseStale(t) \/ \E k \in Positions : Read(t, k)
       PROVE  UNCHANGED temps /\ NoneGiven
  BY <1>12, SameGivesNone DEF UseStale, Read
<1>13. UNCHANGED vars => UNCHANGED temps /\ NoneGiven BY SameGivesNone DEF vars
<1> QED
  BY <1>1, <1>2, <1>3, <1>4, <1>5, <1>6, <1>7, <1>8, <1>9, <1>10, <1>11, <1>12, <1>13,
     CloseStep, SetTempFileStep, TempsUntouched DEF Next

LEMMA TempsInvariant == Spec => []TempsInv
BY TempsInit, TempsNext, PTL DEF Spec

---------------------------------------------------------------------------
(* Descriptors *)

\* The rest of a step leaves this part alone.
LEMMA FilesUntouched ==
  ASSUME FilesInv, UNCHANGED <<fds, io, rejected, shared, tgt, contents>> PROVE FilesInv'
BY DEF FilesInv, Shapes, OneOwner, OwnFile, DescriptorsAccounted, Live

LEMMA FilesInit == Init => FilesInv
<1> SUFFICES ASSUME Init PROVE FilesInv OBVIOUS
<1>1. /\ fds = [n \in Fds |-> Nil] /\ io = [i \in Ios |-> Nil] /\ tgt = [t \in Targets |-> NoTarget]
      /\ contents = [x \in Targets \X Positions |-> Nil] /\ shared = {}
  BY DEF Init
<1>2. DOMAIN NoTarget = Fields /\ NoTarget.state = "none" /\ NoTarget.fd = Nil /\ NoTarget.file = Nil
  BY DEF NoTarget, Fields
<1>3. Shapes BY <1>1, <1>2 DEF Shapes
<1>4. OneOwner /\ OwnFile /\ DescriptorsAccounted
  BY <1>1, <1>2 DEF OneOwner, OwnFile, DescriptorsAccounted, Live
<1> QED BY <1>3, <1>4 DEF FilesInv

LEMMA FilesNext == FilesInv /\ TempsInv /\ [Next]_vars => FilesInv'
<1> SUFFICES ASSUME FilesInv, TempsInv, [Next]_vars PROVE FilesInv' OBVIOUS
<1>1. ASSUME NEW i \in Ios, NEW f \in Files, NEW n \in Fds, OpenIo(i, f, n) PROVE FilesInv'
  BY <1>1, OpenIoStep
<1>2. ASSUME NEW i \in Ios, CloseIo(i) PROVE FilesInv' BY <1>2, CloseIoStep
<1>3. ASSUME NEW t \in Targets, NEW f \in Files, NEW n \in Fds, NewFromPath(t, f, n) PROVE FilesInv'
  BY <1>3, OwnTargetStep DEF NewFromPath
<1>4. ASSUME NEW f \in Files, NEW n \in Fds, PathRejected(f, n) PROVE FilesInv'
  BY <1>4, RejectedStep DEF PathRejected
<1>5. ASSUME NEW t \in Targets, NEW i \in Ios, NewFromIo(t, i) PROVE FilesInv' BY <1>5, NewFromIoStep
<1>6. ASSUME NEW t \in Targets, Collect(t) PROVE FilesInv' BY <1>6, CollectStep
<1>7. ASSUME NEW t \in Targets,
             LoadSections(t) \/ LoadSymbols(t) \/ Close(t) \/ \E k \in Temps \cup {Nil} : SetTempFile(t, k)
      PROVE  FilesInv'
  BY <1>7, ChangesStep DEF Changes
<1>8. ASSUME NEW t \in Targets, NEW k \in Positions, Read(t, k) PROVE FilesInv' BY <1>8, ReadStep
<1>9. ASSUME NEW t \in Targets, NEW n \in Fds, BufferTarget(t, n) PROVE FilesInv'
  <2>1. Opened(n, call.file) /\ Object(call.file) /\ Made(t, n, call.file)
        /\ UNCHANGED <<io, rejected, shared, contents>>
    BY <1>9 DEF BufferTarget
  <2>2. call.file \in Files BY <1>9 DEF BufferTarget, TempsInv, TempShapes
  <2> QED BY <2>1, <2>2, OwnTargetStep
<1>10. ASSUME NEW n \in Fds, BufferRejected(n) PROVE FilesInv'
  <2>1. Rejected(n, call.file) /\ UNCHANGED <<io, shared, tgt, contents>>
    BY <1>10 DEF BufferRejected
  <2>2. call.file \in Files BY <1>10 DEF BufferRejected, TempsInv, TempShapes
  <2> QED BY <2>1, <2>2, RejectedStep
<1>11. ASSUME UNCHANGED vars \/ \E t \in Targets : UseStale(t)
       PROVE  UNCHANGED <<fds, io, rejected, shared, tgt, contents>>
  BY <1>11 DEF UseStale, vars, files
<1>12. ASSUME \/ \E k \in Temps, f \in Files, block \in BOOLEAN : FromBuffer(k, f, block)
              \/ \E k \in Temps : Finalize(k)
              \/ BufferLost \/ BlockReturns \/ BlockRaises
       PROVE  UNCHANGED <<fds, io, rejected, shared, tgt, contents>>
  BY <1>12 DEF FromBuffer, Finalize, BufferLost, BlockReturns, BlockRaises, files
<1> QED
  BY <1>1, <1>2, <1>3, <1>4, <1>5, <1>6, <1>7, <1>8, <1>9, <1>10, <1>11, <1>12, FilesUntouched DEF Next

LEMMA FilesInvariant == Spec => []FilesInv
BY FilesInit, FilesNext, TempsInvariant, PTL DEF Spec

---------------------------------------------------------------------------
\* However targets and IO objects are opened, closed and collected, and descriptors given
\* again, one that was opened by path keeps its file, and so do the contents read through
\* it, until its number comes from an IO that was passed to Target.new (cls_target_new).
THEOREM FilesKept == Spec => []OwnFile
<1>1. FilesInv => OwnFile BY DEF FilesInv
<1> QED BY <1>1, FilesInvariant, PTL

\* No descriptor is leaked but by the exception of new_target_for_bfd.
THEOREM DescriptorsCounted == Spec => []DescriptorsAccounted
<1>1. FilesInv => DescriptorsAccounted BY DEF FilesInv
<1> QED BY <1>1, FilesInvariant, PTL

\* Who deletes the temporary files of Target.from_buffer, a program that sets temp_file=
\* included, and when from_buffer loses one.
THEOREM TempFilesCounted == Spec => []TempAccounted
<1>1. TempsInv => TempAccounted BY DEF TempsInv
<1> QED BY <1>1, TempsInvariant, PTL

=============================================================================
