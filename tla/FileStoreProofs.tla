---------------------------- MODULE FileStoreProofs -----------------------------
(* That a commit which was reported as saved is flushed and read back or the    *)
(* files are refused, for every number of heights, failed calls and stops.      *)
EXTENDS FileStore, FiniteSetTheorems, TLAPS

\* What a file shows of the first n heights, unless one of its lines is damaged.
Undamaged(f) == \A i \in 1 .. Len(f) : f[i].whole
Has(f, n) == \A h \in 1 .. n : \E i \in 1 .. Len(f) : f[i].height = h
Shows(f, n) == Undamaged(f) => Has(f, n)
UpTo(f, n) == \A i \in 1 .. Len(f) : f[i].height <= n

\* g holds the lines of f, some of them damaged, and perhaps more.
Continues(f, g) ==
  /\ Len(f) <= Len(g)
  /\ \A i \in 1 .. Len(f) : ~ g[i].whole \/ (f[i].whole /\ g[i].height = f[i].height)

\* The two files, against the heights that the process knows, has applied and has
\* reported: a call that is past the flush, or that finds its height in s.commits,
\* has flushed the line, and a node is never ahead of its log by more than a commit.
StoreInv ==
  /\ TypeOK
  /\ pc # "idle" => applied < MaxHeight
  /\ acked <= applied
  /\ acked <= stateFile /\ acked <= stateDisk
  /\ Continues(disk, log)
  /\ UpTo(log, applied + 1) /\ UpTo(disk, applied + 1)
  /\ Shows(log, acked) /\ Shows(disk, acked)
  /\ status = "up" => /\ applied <= known /\ known <= applied + 1
                      /\ Shows(log, known)
                      /\ known = applied + 1 => Shows(disk, known)
  /\ pc = "append" => known = applied
  /\ pc = "sync" => known = applied /\ Shows(log, applied + 1)
  /\ pc \in {"state", "syncDir"} => known = applied + 1
  /\ pc = "syncDir" => stateFile = applied + 1

--------------------------------------------------------------------------------
(* The log.                                                                 *)

LEMMA LineFields ==
  ASSUME NEW l \in Line
  PROVE  /\ l.height \in 1 .. MaxHeight /\ l.height \in Nat /\ l.whole \in BOOLEAN
         /\ [l EXCEPT !.whole = FALSE] \in Line
         /\ [l EXCEPT !.whole = FALSE].height = l.height /\ ~ [l EXCEPT !.whole = FALSE].whole
         /\ [l EXCEPT !.ended = FALSE] \in Line
         /\ [l EXCEPT !.ended = FALSE].height = l.height
<1> DEFINE H == 1 .. MaxHeight
<1>1. l \in [height : H, whole : BOOLEAN, ended : BOOLEAN]
  BY DEF Line
<1>2. H \subseteq Nat
  BY FileStoreAssumption
<1> HIDE DEF H
<1>3. /\ l.height \in H /\ l.whole \in BOOLEAN
      /\ [l EXCEPT !.whole = FALSE] \in [height : H, whole : BOOLEAN, ended : BOOLEAN]
      /\ [l EXCEPT !.whole = FALSE].height = l.height /\ ~ [l EXCEPT !.whole = FALSE].whole
      /\ [l EXCEPT !.ended = FALSE] \in [height : H, whole : BOOLEAN, ended : BOOLEAN]
      /\ [l EXCEPT !.ended = FALSE].height = l.height
  BY <1>1, Zenon
<1> QED BY <1>2, <1>3 DEF Line, H

LEMMA LineType ==
  ASSUME NEW h \in 1 .. MaxHeight
  PROVE  /\ Written(h) \in Line /\ Written(h).height = h
         /\ NoNewline(h) \in Line /\ NoNewline(h).height = h
         /\ Torn(h) \in Line /\ Torn(h).height = h
  BY Zenon DEF Written, NoNewline, Torn, Line

\* An append damages the last line, or adds one to the file.
Appended(f, line, g) ==
  /\ g \in Seq(Line)
  /\ Len(f) <= Len(g) /\ Len(g) \in 1 .. Len(f) + 1
  /\ \A i \in 1 .. Len(f) : g[i] = f[i] \/ (~ g[i].whole /\ g[i].height = line.height)
  /\ \A i \in 1 .. Len(g) : i \in 1 .. Len(f) \/ g[i] = line
  /\ g[Len(g)].height = line.height

LEMMA AppendedLine ==
  ASSUME NEW f \in Seq(Line), NEW line \in Line, NEW g, g = appendJSONLine(f, line)
  PROVE  Appended(f, line, g)
<1>1. CASE f # << >> /\ ~ f[Len(f)].ended
  <2> DEFINE l == [line EXCEPT !.whole = FALSE]
  <2>1. g = [f EXCEPT ![Len(f)] = l]
    BY <1>1 DEF appendJSONLine
  <2>2. l \in Line /\ ~ l.whole /\ l.height = line.height
    BY LineFields, Zenon
  <2>3. Len(f) \in Nat /\ Len(f) >= 1 /\ f \in [1 .. Len(f) -> Line]
    BY <1>1
  <2> HIDE DEF l
  <2>4. g \in Seq(Line) /\ Len(g) = Len(f)
    BY <2>1, <2>2, <2>3
  <2>5. \A i \in 1 .. Len(f) : g[i] = IF i = Len(f) THEN l ELSE f[i]
    BY <2>1, <2>3
  <2>6. \A i \in 1 .. Len(f) : g[i] = f[i] \/ (~ g[i].whole /\ g[i].height = line.height)
    BY <2>2, <2>5, Zenon
  <2>7. g[Len(g)] = l /\ Len(g) \in 1 .. Len(f) + 1
    <3>1. Len(f) \in 1 .. Len(f) /\ Len(f) \in 1 .. Len(f) + 1
      BY <2>3
    <3> QED BY <2>4, <2>5, <3>1, Zenon
  <2> QED BY <2>2, <2>3, <2>4, <2>6, <2>7 DEF Appended
<1>2. CASE ~ (f # << >> /\ ~ f[Len(f)].ended)
  <2>1. g = Append(f, line)
    BY <1>2 DEF appendJSONLine
  <2> QED BY <2>1 DEF Appended
<1> QED BY <1>1, <1>2

\* An append for the next height keeps what the file shows, and ends with the height.
LEMMA AppendShows ==
  ASSUME NEW f \in Seq(Line), NEW line \in Line, NEW g, g = appendJSONLine(f, line),
         NEW n \in Nat, line.height = n + 1, UpTo(f, n + 1), Shows(f, n)
  PROVE  /\ UpTo(g, n + 1)
         /\ Shows(g, n + 1)
<1>0. Len(f) \in Nat
  OBVIOUS
<1>1. /\ Len(f) <= Len(g) /\ Len(g) \in 1 .. Len(f) + 1
      /\ \A i \in 1 .. Len(f) : g[i] = f[i] \/ (~ g[i].whole /\ g[i].height = line.height)
      /\ \A i \in 1 .. Len(g) : i \in 1 .. Len(f) \/ g[i] = line
      /\ g[Len(g)].height = line.height
  <2>1. Appended(f, line, g)
    BY AppendedLine, Zenon
  <2> QED BY <2>1 DEF Appended
<1>2. UpTo(g, n + 1)
  BY <1>0, <1>1 DEF UpTo
<1>3. ASSUME Undamaged(g), NEW h \in 1 .. n + 1
      PROVE  \E i \in 1 .. Len(g) : g[i].height = h
  <2>1. CASE h = n + 1
    BY <1>0, <1>1, <2>1
  <2>2. CASE h \in 1 .. n
    <3>1. \A i \in 1 .. Len(f) : i \in 1 .. Len(g) /\ g[i] = f[i]
      BY <1>0, <1>1, <1>3 DEF Undamaged
    <3>2. Has(f, n)
      BY <1>3, <3>1 DEF Undamaged, Shows
    <3> QED BY <2>2, <3>1, <3>2, Zenon DEF Has
  <2> QED BY <2>1, <2>2
<1> QED BY <1>2, <1>3, Zenon DEF Shows, Has

LEMMA ContinuesAppend ==
  ASSUME NEW d \in Seq(Line), NEW f \in Seq(Line), Continues(d, f),
         NEW line \in Line, NEW g, g = appendJSONLine(f, line)
  PROVE  Continues(d, g)
<1>1. /\ Len(f) <= Len(g) /\ Len(g) \in Nat /\ Len(f) \in Nat /\ Len(d) \in Nat
      /\ \A i \in 1 .. Len(f) : g[i] = f[i] \/ ~ g[i].whole
  <2>1. Len(f) \in Nat /\ Len(d) \in Nat
    OBVIOUS
  <2>2. /\ g \in Seq(Line) /\ Len(f) <= Len(g)
        /\ \A i \in 1 .. Len(f) : g[i] = f[i] \/ ~ g[i].whole
    <3>1. Appended(f, line, g)
      BY AppendedLine, Zenon
    <3> QED BY <3>1, Zenon DEF Appended
  <2> QED BY <2>1, <2>2
<1> QED BY <1>1 DEF Continues

LEMMA ContinuesShows ==
  ASSUME NEW f \in Seq(Line), NEW g \in Seq(Line), Continues(f, g), NEW n \in Nat, Shows(f, n)
  PROVE  Shows(g, n)
<1> SUFFICES ASSUME Undamaged(g) PROVE Has(g, n)
  BY DEF Shows
<1>1. Len(f) \in Nat /\ Len(g) \in Nat /\ Len(f) <= Len(g)
  BY DEF Continues
<1>2. \A i \in 1 .. Len(f) : i \in 1 .. Len(g) /\ f[i].whole /\ g[i].height = f[i].height
  BY <1>1 DEF Continues, Undamaged
<1>3. Has(f, n)
  BY <1>2 DEF Shows, Undamaged
<1> QED BY <1>2, <1>3, Zenon DEF Has

LEMMA ShowsFewer ==
  ASSUME NEW f, NEW n \in Nat, NEW m \in Nat, m <= n, Shows(f, n)
  PROVE  Shows(f, m)
  BY DEF Shows, Has

LEMMA UpToMore ==
  ASSUME NEW f \in Seq(Line), NEW n \in Nat, NEW m \in Nat, n <= m, UpTo(f, n)
  PROVE  UpTo(f, m)
<1>1. \A i \in 1 .. Len(f) : f[i] \in Line
  OBVIOUS
<1>2. \A i \in 1 .. Len(f) : f[i].height \in Nat
  BY <1>1, LineFields, Zenon
<1> QED BY <1>2 DEF UpTo

LEMMA ContinuesItself == ASSUME NEW f \in Seq(Line) PROVE Continues(f, f)
  BY DEF Continues

\* What a loss of power leaves of the lines that were not flushed.
LEMMA CutLines ==
  ASSUME NEW d \in Seq(Line), log \in Seq(Line), Continues(d, log),
         NEW k \in Len(d) + 1 .. Len(log), NEW g \in Cut(k)
  PROVE  /\ g \in Seq(Line)
         /\ Continues(d, g)
         /\ \A n \in Nat : UpTo(log, n) => UpTo(g, n)
<1> DEFINE f == SubSeq(log, 1, k)
<1>1. k \in Nat /\ k >= 1 /\ k <= Len(log) /\ Len(d) < k /\ Len(d) \in Nat /\ Len(log) \in Nat
  OBVIOUS
<1>2. f \in Seq(Line) /\ Len(f) = k /\ \A i \in 1 .. k : f[i] = log[i] /\ f[i] \in Line
  BY <1>1
<1>3. g = f \/ g = [f EXCEPT ![k] = Torn(f[k].height)] \/ g = [f EXCEPT ![k].ended = FALSE]
  BY <1>1 DEF Cut
<1> HIDE DEF f
<1>4. /\ g \in Seq(Line) /\ Len(g) = k
      /\ \A i \in 1 .. k : g[i].height = log[i].height
      /\ \A i \in 1 .. Len(d) : g[i] = log[i]
  <2>1. CASE g = f
    BY <1>1, <1>2, <2>1
  <2>2. ASSUME NEW l \in Line, l.height = f[k].height, g = [f EXCEPT ![k] = l]
        PROVE  /\ g \in Seq(Line) /\ Len(g) = k
               /\ \A i \in 1 .. k : g[i].height = log[i].height
               /\ \A i \in 1 .. Len(d) : g[i] = log[i]
    BY <1>1, <1>2, <2>2
  <2>3. Torn(f[k].height) \in Line /\ Torn(f[k].height).height = f[k].height
    <3>1. f[k] \in Line
      BY <1>1, <1>2
    <3> QED BY <3>1, LineFields, LineType, Zenon
  <2>4. [f[k] EXCEPT !.ended = FALSE] \in Line
        /\ [f[k] EXCEPT !.ended = FALSE].height = f[k].height
    <3>1. f[k] \in Line
      BY <1>1, <1>2
    <3> QED BY <3>1, LineFields, Zenon
  <2>5. [f EXCEPT ![k].ended = FALSE] = [f EXCEPT ![k] = [f[k] EXCEPT !.ended = FALSE]]
    OBVIOUS
  <2> QED BY <1>3, <2>1, <2>2, <2>3, <2>4, <2>5, Zenon
<1>5. Continues(d, g)
  BY <1>1, <1>4 DEF Continues
<1>6. \A n \in Nat : UpTo(log, n) => UpTo(g, n)
  <2>1. \A i \in 1 .. k : i \in 1 .. Len(log)
    BY <1>1
  <2> QED BY <1>4, <2>1, Zenon DEF UpTo
<1> QED BY <1>4, <1>5, <1>6

--------------------------------------------------------------------------------
(* The steps.                                                               *)

LEMMA Numbers ==
  ASSUME TypeOK
  PROVE  /\ MaxHeight \in Nat /\ MaxFaults \in Nat
         /\ \A x \in {stateFile, stateDisk, known, applied, acked} : x \in Nat /\ x <= MaxHeight
         /\ faults \in Nat /\ faults <= MaxFaults
  BY FileStoreAssumption DEF TypeOK

\* A failed call leaves the files of the invariant and the process as they were.
LEMMA CallFails ==
  ASSUME StoreInv, status = "up", returnError, UNCHANGED << disk, stateDisk >>,
         log' \in Seq(Line), stateFile' \in 0 .. MaxHeight, acked <= stateFile',
         Continues(disk, log'), UpTo(log', applied + 1), Shows(log', known)
  PROVE  StoreInv'
<1>1. /\ pc' = "idle" /\ faults' = faults + 1 /\ faults < MaxFaults
      /\ UNCHANGED << known, applied, acked, status, disk, stateDisk >>
  BY DEF returnError, Fault, process
<1>2. TypeOK'
  BY <1>1, Numbers DEF TypeOK, StoreInv
<1>3. Shows(log', acked)
  BY Numbers, ShowsFewer DEF StoreInv
<1> QED BY <1>1, <1>2, <1>3 DEF StoreInv

LEMMA BeginSaveKeeps == ASSUME StoreInv, BeginSave PROVE StoreInv'
<1>1. /\ UNCHANGED << log, disk, stateFile, stateDisk, known, applied, acked, status, faults >>
      /\ status = "up" /\ applied < MaxHeight
      /\ pc' = IF applied + 1 <= known THEN "state" ELSE "append"
  BY DEF BeginSave, files, process
<1>2. TypeOK'
  BY <1>1 DEF TypeOK, StoreInv
<1>3. /\ pc' = "append" => known = applied
      /\ pc' \in {"state", "syncDir"} => known = applied + 1
      /\ pc' \notin {"sync", "syncDir"}
  BY <1>1, Numbers DEF StoreInv
<1> QED BY <1>1, <1>2, <1>3 DEF StoreInv

LEMMA WriteLineKeeps == ASSUME StoreInv, WriteLine PROVE StoreInv'
<1> DEFINE h == applied + 1
<1>0. /\ pc = "append" /\ status = "up" /\ known = applied /\ h \in 1 .. MaxHeight
      /\ applied \in Nat /\ acked \in Nat /\ acked <= applied /\ log \in Seq(Line) /\ disk \in Seq(Line)
      /\ UNCHANGED << disk, stateFile, stateDisk >>
  BY Numbers DEF WriteLine, StoreInv, TypeOK
<1>1. ASSUME NEW line \in Line, line.height = h, NEW g, g = appendJSONLine(log, line)
      PROVE  g \in Seq(Line) /\ Continues(disk, g) /\ UpTo(g, h) /\ Shows(g, h) /\ Shows(g, applied)
             /\ Shows(g, acked)
  <2>1. Appended(log, line, g)
    BY <1>0, <1>1, AppendedLine, Zenon
  <2>2. UpTo(g, applied + 1) /\ Shows(g, applied + 1)
    BY <1>0, <1>1, AppendShows DEF StoreInv
  <2>3. Continues(disk, g)
    BY <1>0, <1>1, ContinuesAppend DEF StoreInv
  <2>4. Shows(g, applied) /\ Shows(g, acked)
    BY <1>0, <2>2, ShowsFewer
  <2> QED BY <2>1, <2>2, <2>3, <2>4 DEF Appended
<1>2. CASE /\ log' = appendJSONLine(log, Written(h)) /\ pc' = "sync"
           /\ UNCHANGED << process, faults >>
  <2>1. Written(h) \in Line /\ Written(h).height = h
    BY <1>0, LineType
  <2>2. log' \in Seq(Line) /\ Continues(disk, log') /\ UpTo(log', h) /\ Shows(log', h)
        /\ Shows(log', applied) /\ Shows(log', acked)
    BY <1>1, <1>2, <2>1
  <2>3. UNCHANGED << known, applied, acked, status, faults >>
    BY <1>2 DEF process
  <2>4. TypeOK'
    BY <1>0, <1>2, <2>2, <2>3 DEF TypeOK, StoreInv
  <2> QED BY <1>0, <1>2, <2>2, <2>3, <2>4 DEF StoreInv
<1>3. ASSUME NEW line \in {Torn(h), NoNewline(h)}, log' \in {log, appendJSONLine(log, line)},
             returnError
      PROVE  StoreInv'
  <2>1. line \in Line /\ line.height = h
    BY <1>0, LineType
  <2>2. log' \in Seq(Line) /\ Continues(disk, log') /\ UpTo(log', applied + 1) /\ Shows(log', known)
    BY <1>0, <1>1, <1>3, <2>1 DEF StoreInv
  <2>3. stateFile' \in 0 .. MaxHeight /\ acked <= stateFile'
    BY <1>0 DEF StoreInv, TypeOK
  <2> QED BY <1>0, <1>3, <2>2, <2>3, CallFails
<1> QED BY <1>2, <1>3 DEF WriteLine

LEMMA SyncLogKeeps == ASSUME StoreInv, SyncLog PROVE StoreInv'
<1>0. /\ pc = "sync" /\ status = "up" /\ known = applied /\ UNCHANGED << log, stateFile, stateDisk >>
      /\ applied < MaxHeight /\ Shows(log, applied + 1) /\ log \in Seq(Line)
  BY DEF SyncLog, StoreInv, TypeOK
<1>1. CASE disk' = log /\ known' = applied + 1 /\ pc' = "state"
           /\ UNCHANGED << applied, acked, status, faults >>
  <2>1. TypeOK'
    BY <1>0, <1>1, Numbers DEF TypeOK, StoreInv
  <2>2. Continues(disk', log')
    BY <1>0, <1>1, ContinuesItself
  <2>3. applied' + 1 = known' /\ applied' <= known' /\ known' <= applied' + 1
    BY <1>1, Numbers DEF StoreInv
  <2> QED BY <1>0, <1>1, <2>1, <2>2, <2>3 DEF StoreInv
<1>2. CASE returnError /\ disk' = disk
  <2>1. stateFile' \in 0 .. MaxHeight /\ acked <= stateFile' /\ log' \in Seq(Line)
        /\ Continues(disk, log') /\ UpTo(log', applied + 1) /\ Shows(log', known)
    BY <1>0 DEF StoreInv, TypeOK
  <2> QED BY <1>0, <1>2, <2>1, CallFails
<1> QED BY <1>1, <1>2 DEF SyncLog

LEMMA RenameStateKeeps == ASSUME StoreInv, RenameState PROVE StoreInv'
<1>0. /\ pc = "state" /\ status = "up" /\ known = applied + 1 /\ UNCHANGED << log, disk, stateDisk >>
      /\ applied < MaxHeight
  BY DEF RenameState, StoreInv, TypeOK
<1>1. CASE stateFile' = applied + 1 /\ pc' = "syncDir" /\ UNCHANGED << process, faults >>
  <2>1. UNCHANGED << known, applied, acked, status, faults >>
    BY <1>1 DEF process
  <2>2. TypeOK'
    BY <1>0, <1>1, <2>1, Numbers DEF TypeOK, StoreInv
  <2>3. acked <= stateFile'
    BY <1>1, Numbers DEF StoreInv
  <2> QED BY <1>0, <1>1, <2>1, <2>2, <2>3 DEF StoreInv
<1>2. CASE returnError /\ stateFile' = stateFile
  <2>1. stateFile' \in 0 .. MaxHeight /\ acked <= stateFile' /\ log' \in Seq(Line)
        /\ Continues(disk, log') /\ UpTo(log', applied + 1) /\ Shows(log', known)
    BY <1>0, <1>2 DEF StoreInv, TypeOK
  <2> QED BY <1>0, <1>2, <2>1, CallFails
<1> QED BY <1>1, <1>2 DEF RenameState

LEMMA SyncDirKeeps == ASSUME StoreInv, SyncDir PROVE StoreInv'
<1>0. /\ pc = "syncDir" /\ status = "up" /\ known = applied + 1 /\ UNCHANGED << log, disk, stateFile >>
      /\ applied < MaxHeight /\ stateFile = applied + 1 /\ log \in Seq(Line) /\ disk \in Seq(Line)
      /\ applied \in Nat
  BY Numbers DEF SyncDir, StoreInv, TypeOK
<1>1. CASE /\ stateDisk' = stateFile /\ applied' = applied + 1 /\ acked' = applied + 1
           /\ pc' = "idle" /\ UNCHANGED << known, status, faults >>
  <2>1. TypeOK'
    BY <1>0, <1>1, Numbers DEF TypeOK, StoreInv
  <2>2. UpTo(log, applied' + 1) /\ UpTo(disk, applied' + 1)
    BY <1>0, <1>1, UpToMore DEF StoreInv
  <2>3. Shows(log, acked') /\ Shows(disk, acked')
    BY <1>0, <1>1 DEF StoreInv
  <2>4. known' = applied' /\ acked' <= applied' /\ applied' <= known' /\ known' <= applied' + 1
        /\ known' # applied' + 1
    BY <1>0, <1>1
  <2>5. acked' <= stateFile' /\ acked' <= stateDisk'
    BY <1>0, <1>1
  <2>6. Continues(disk', log') /\ Shows(log', known')
    BY <1>0, <1>1 DEF StoreInv
  <2> QED BY <1>0, <1>1, <2>1, <2>2, <2>3, <2>4, <2>5, <2>6 DEF StoreInv
<1>2. CASE returnError /\ stateDisk' = stateDisk
  <2>1. stateFile' \in 0 .. MaxHeight /\ acked <= stateFile' /\ log' \in Seq(Line)
        /\ Continues(disk, log') /\ UpTo(log', applied + 1) /\ Shows(log', known)
    BY <1>0, <1>2 DEF StoreInv, TypeOK
  <2> QED BY <1>0, <1>2, <2>1, CallFails
<1> QED BY <1>1, <1>2 DEF SyncDir

LEMMA StopKeeps ==
  ASSUME StoreInv, stop, log' \in Seq(Line), disk' \in Seq(Line),
         stateFile' \in {stateFile, stateDisk}, stateDisk' \in {stateDisk, stateFile'},
         Continues(disk', log'), UpTo(log', applied + 1), UpTo(disk', applied + 1),
         Shows(log', acked), Shows(disk', acked)
  PROVE  StoreInv'
<1>1. /\ status' = "down" /\ pc' = "idle" /\ known' = 0 /\ faults' = faults + 1
      /\ faults < MaxFaults /\ UNCHANGED << applied, acked >>
  BY DEF stop, Fault
<1>2. TypeOK'
  BY <1>1, Numbers, SMTT(40) DEF TypeOK, StoreInv
<1>3. acked' <= stateFile' /\ acked' <= stateDisk'
  BY <1>1 DEF StoreInv
<1> QED BY <1>1, <1>2, <1>3 DEF StoreInv

\* A loss of power leaves the flushed lines, and perhaps some of the others.
LEMMA PowerLossKeeps == ASSUME StoreInv, PowerLoss PROVE StoreInv'
<1>0. /\ stop /\ disk' = log' /\ stateFile' \in {stateFile, stateDisk} /\ stateDisk' = stateFile'
      /\ log \in Seq(Line) /\ disk \in Seq(Line) /\ acked \in Nat /\ applied + 1 \in Nat
      /\ Continues(disk, log) /\ UpTo(log, applied + 1) /\ UpTo(disk, applied + 1)
      /\ Shows(disk, acked)
  BY Numbers DEF PowerLoss, StoreInv, TypeOK
<1>1. log' = disk \/ \E k \in Len(disk) + 1 .. Len(log) : log' \in Cut(k)
  BY DEF PowerLoss
<1>2. log' \in Seq(Line) /\ UpTo(log', applied + 1) /\ Shows(log', acked)
  <2>1. CASE log' = disk
    BY <1>0, <2>1
  <2>2. ASSUME NEW k \in Len(disk) + 1 .. Len(log), NEW g \in Cut(k)
        PROVE  g \in Seq(Line) /\ UpTo(g, applied + 1) /\ Shows(g, acked)
    <3>1. /\ g \in Seq(Line) /\ Continues(disk, g)
          /\ \A n \in Nat : UpTo(log, n) => UpTo(g, n)
      BY <1>0, CutLines, Zenon
    <3>2. Shows(g, acked)
      BY <1>0, <3>1, ContinuesShows, Zenon
    <3> QED BY <1>0, <3>1, <3>2, Zenon
  <2> QED BY <1>1, <2>1, <2>2, Zenon
<1>3. Continues(log', log')
  BY <1>2, ContinuesItself
<1> QED BY <1>0, <1>2, <1>3, StopKeeps

\* The files that load are those of the heights up to a number, with every line whole.
LEMMA LoadedHeights ==
  ASSUME TypeOK, Loads
  PROVE  /\ Loaded \in Nat /\ Loaded <= MaxHeight
         /\ Undamaged(log) /\ Has(log, Loaded) /\ UpTo(log, Loaded)
<1>1. /\ \A i \in 1 .. Len(log) : log[i].whole
      /\ ReadableHeights = 1 .. Loaded
  BY DEF Loads
<1>2. \A i \in 1 .. Len(log) : log[i] \in Line
  BY DEF TypeOK
<1>3. \A i \in 1 .. Len(log) : log[i].height \in 1 .. MaxHeight
  BY <1>2, LineFields, Zenon
<1>4. ReadableHeights \subseteq 1 .. MaxHeight
  BY <1>3, Zenon DEF ReadableHeights
<1>5. IsFiniteSet(1 .. MaxHeight)
  BY FS_Interval, FileStoreAssumption
<1>6. IsFiniteSet(ReadableHeights)
  BY <1>4, <1>5, FS_Subset, Zenon
<1>7. Loaded \in Nat
  BY <1>6, FS_CardinalityType, Zenon DEF Loaded
<1>8. Loaded <= MaxHeight
  BY <1>1, <1>4, <1>7, FileStoreAssumption
<1>9. \A i \in 1 .. Len(log) : log[i].height \in 1 .. Loaded
  BY <1>1, Zenon DEF ReadableHeights
<1>10. \A h \in 1 .. Loaded : \E i \in 1 .. Len(log) : log[i].height = h
  <2> SUFFICES ASSUME NEW h \in ReadableHeights PROVE \E i \in 1 .. Len(log) : log[i].height = h
    BY <1>1
  <2> QED BY Zenon DEF ReadableHeights
<1>11. UpTo(log, Loaded)
  BY <1>7, <1>9 DEF UpTo
<1> QED BY <1>1, <1>7, <1>8, <1>10, <1>11 DEF Undamaged, Has

\* "Either refused or nothing lost" for the files as they are.
LEMMA LoadsAll ==
  ASSUME StoreInv, Loads
  PROVE  acked <= Loaded /\ Loaded <= applied + 1
<1>1. /\ Loaded \in Nat /\ Loaded <= MaxHeight
      /\ Undamaged(log) /\ Has(log, Loaded) /\ UpTo(log, Loaded)
  BY LoadedHeights DEF StoreInv
<1>2. acked \in Nat /\ applied \in Nat /\ log \in Seq(Line)
  BY Numbers DEF StoreInv, TypeOK
<1>3. acked <= Loaded
  <2> SUFFICES ASSUME acked > Loaded PROVE FALSE
    BY <1>1, <1>2
  <2>1. Has(log, acked)
    BY <1>1 DEF StoreInv, Shows
  <2>2. acked \in 1 .. acked
    BY <1>1, <1>2
  <2>3. PICK i \in 1 .. Len(log) : log[i].height = acked
    BY <2>1, <2>2 DEF Has
  <2>4. log[i].height <= Loaded
    BY <1>1 DEF UpTo
  <2> QED BY <1>1, <1>2, <2>3, <2>4
<1>4. Loaded <= applied + 1
  <2> SUFFICES ASSUME Loaded > applied + 1 PROVE FALSE
    BY <1>1, <1>2
  <2>1. Loaded \in 1 .. Loaded
    BY <1>1, <1>2
  <2>2. PICK i \in 1 .. Len(log) : log[i].height = Loaded
    BY <1>1, <2>1 DEF Has
  <2>3. log[i].height <= applied + 1
    BY DEF StoreInv, UpTo
  <2> QED BY <1>1, <1>2, <2>2, <2>3
<1> QED BY <1>3, <1>4

\* The flushed lines of files that load are lines of the log.
LEMMA FlushedUpTo ==
  ASSUME log \in Seq(Line), disk \in Seq(Line), Continues(disk, log), Undamaged(log),
         NEW n \in Nat, UpTo(log, n)
  PROVE  UpTo(disk, n)
<1>1. Len(disk) \in Nat /\ Len(log) \in Nat
  OBVIOUS
<1> QED BY <1>1 DEF Continues, Undamaged, UpTo

LEMMA OpenKeeps == ASSUME StoreInv, OpenFileStore PROVE StoreInv'
<1>1. /\ Loads /\ status' = "up" /\ applied' = Loaded /\ known' = Loaded /\ status = "down"
      /\ UNCHANGED << log, disk, stateFile, stateDisk, acked, pc, faults >>
  BY DEF OpenFileStore, files
<1>2. /\ Loaded \in Nat /\ Loaded <= MaxHeight
      /\ Undamaged(log) /\ Has(log, Loaded) /\ UpTo(log, Loaded)
  BY <1>1, LoadedHeights DEF StoreInv
<1>3. acked <= Loaded
  BY <1>1, LoadsAll
<1>4. log \in Seq(Line) /\ disk \in Seq(Line) /\ pc = "idle" /\ Continues(disk, log)
  BY <1>1 DEF StoreInv, TypeOK
<1>5. UpTo(log, Loaded + 1)
  BY <1>2, <1>4, UpToMore
<1>6. UpTo(disk, Loaded + 1)
  BY <1>2, <1>4, <1>5, FlushedUpTo
<1>7. TypeOK'
  BY <1>1, <1>2, <1>4, Numbers DEF TypeOK, StoreInv
<1>8. Shows(log, Loaded) /\ Loaded # Loaded + 1 /\ Loaded <= Loaded + 1
  BY <1>2 DEF Shows
<1> QED BY <1>1, <1>2, <1>3, <1>4, <1>5, <1>6, <1>7, <1>8 DEF StoreInv

LEMMA StoreInductive == StoreInv /\ [Next]_vars => StoreInv'
<1> SUFFICES ASSUME StoreInv, [Next]_vars PROVE StoreInv'
  OBVIOUS
<1>1. CASE BeginSave
  BY <1>1, BeginSaveKeeps
<1>2. CASE WriteLine
  BY <1>2, WriteLineKeeps, SMTT(40)
<1>3. CASE SyncLog
  BY <1>3, SyncLogKeeps
<1>4. CASE RenameState
  BY <1>4, RenameStateKeeps
<1>5. CASE SyncDir
  BY <1>5, SyncDirKeeps
<1>6. CASE Stop
  BY <1>6, StopKeeps DEF Stop, files, StoreInv, TypeOK
<1>7. CASE PowerLoss
  BY <1>7, PowerLossKeeps
<1>8. CASE OpenFileStore
  BY <1>8, OpenKeeps
<1>9. CASE RefuseStart
  <2>1. /\ status = "down" /\ status' = "refused"
        /\ UNCHANGED << log, disk, stateFile, stateDisk, known, applied, acked, pc, faults >>
    BY <1>9 DEF RefuseStart, files
  <2> QED BY <2>1 DEF StoreInv, TypeOK
<1>10. CASE UNCHANGED vars
  BY <1>10 DEF vars, StoreInv, TypeOK
<1> QED
  BY <1>1, <1>2, <1>3, <1>4, <1>5, <1>6, <1>7, <1>8, <1>9, <1>10 DEF Next

LEMMA StoreInit == Init => StoreInv
<1> SUFFICES ASSUME Init PROVE StoreInv
  OBVIOUS
<1>1. /\ log = << >> /\ disk = << >> /\ stateFile = 0 /\ stateDisk = 0 /\ known = 0
      /\ applied = 0 /\ acked = 0 /\ pc = "idle" /\ status = "up" /\ faults = 0
  BY DEF Init
<1>2. << >> \in Seq(Line) /\ Len(<< >>) = 0
  OBVIOUS
<1>3. TypeOK
  BY <1>1, <1>2, FileStoreAssumption DEF TypeOK
<1>4. Continues(log, log) /\ UpTo(log, 1) /\ Shows(log, 0)
  BY <1>1, <1>2 DEF Continues, UpTo, Shows, Has
<1> QED BY <1>1, <1>3, <1>4 DEF StoreInv

\* A commit that SaveCommit reported as saved is flushed, and a start reads it back
\* or refuses the files, whichever calls failed and whenever the process or the
\* machine stopped (SaveCommit, OpenFileStore, loadPersistedState).
THEOREM SavedCommitsStay == Spec => []SavedStays
<1>1. StoreInv => SavedStays
  <2> SUFFICES ASSUME StoreInv PROVE SavedStays
    OBVIOUS
  <2>1. NoSilentLoss
    BY LoadsAll DEF NoSilentLoss
  <2>2. \/ \E i \in 1 .. Len(disk) : ~ disk[i].whole
        \/ \A h \in 1 .. acked : \E i \in 1 .. Len(disk) : disk[i].height = h
    BY Zenon DEF StoreInv, Shows, Has, Undamaged
  <2>3. stateDisk >= acked
    BY Numbers DEF StoreInv
  <2> QED BY <2>1, <2>2, <2>3 DEF SavedStays, FlushedBeforeSuccess, StoreInv
<1> QED BY <1>1, StoreInit, StoreInductive, PTL DEF Spec

================================================================================
