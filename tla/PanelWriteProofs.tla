-------------------------- MODULE PanelWriteProofs --------------------------
(***************************************************************************)
(* What TLAPS proves of PanelWrite, for any covers, names, numbers, files  *)
(* and bounds: that what is in memory is on the disk when nothing is being *)
(* saved, that the covers run on it, that an undo is exact, and that no    *)
(* cover is left following a profile nobody defines.                       *)
(***************************************************************************)
EXTENDS PanelWrite, FiniteSetTheorems, TLAPS

Kinds == {"command", "undo", "session", "dialog"}

\* The fields of a job.
Fields == {"what", "steps", "stale", "before", "gen", "content", "behind"}
Shaped(j) == DOMAIN j = Fields /\ j.what \in Kinds

\* The store objects are numbered, and a job has one of them in its hands.
JobsOK(jobs) ==
    /\ jobs = [w \in Writers |-> jobs[w]]
    /\ \A w \in Writers : jobs[w] # NoJob =>
          /\ Shaped(jobs[w]) /\ jobs[w].gen \in 1..gen
          /\ jobs[w].what = "dialog" <=> w = "dialog"
MemoryInv ==
    /\ gen \in Nat /\ gen >= 1 /\ stores = [g \in 1..gen |-> stores[g]]
    /\ JobsOK(job)
    /\ loaded => cached

--------------------------------------------------------------------------
(* What a step does to the memory *)

LEMMA WritersAre ==
    /\ \A w \in Writers : Other(w) \in Writers /\ Other(w) # w /\ Other(Other(w)) = w
    /\ \A v, w \in Writers : v # w <=> v = Other(w)
    /\ "panel" \in Writers /\ "dialog" \in Writers
BY DEF Writers, Other

\* A job is not the lack of one.
LEMMA ShapedIsAJob ==
    ASSUME NEW j, Shaped(j)
    PROVE  j # NoJob
BY DEF Shaped, Fields, NoJob, Kinds

LEMMA JobShaped ==
    ASSUME NEW what \in Kinds, NEW steps, NEW stale
    PROVE  LET j == Job(what, steps, stale)
           IN  /\ Shaped(j) /\ j.gen = gen /\ j.what = what /\ j.steps = steps /\ j.stale = stale
               /\ what # "dialog" => j.before = Live
BY DEF Job, Shaped, Fields

\* The job of the writer after a save, with the other one's left alone.
Requeued(who, j, i, after, jobs, next) ==
    /\ next = [w \in Writers |-> next[w]]
    /\ next[Other(who)] = jobs[Other(who)]
    /\ Shaped(next[who]) /\ next[who] # NoJob
    /\ next[who].what = j.what /\ next[who].gen = j.gen /\ next[who].before = j.before
    /\ next[who].stale = j.stale
    /\ next[who].steps = SubSeq(j.steps, i + 1, Len(j.steps))
    /\ next[who].content = after
    /\ next[who].behind = Behind(j, jobs[Other(who)])

LEMMA QueuedRequeues ==
    ASSUME NEW who \in Writers, NEW j, Shaped(j), NEW i, NEW after, NEW jobs,
           jobs = [w \in Writers |-> jobs[w]]
    PROVE  Requeued(who, j, i, after, jobs, Queued(who, j, i, after, jobs))
<1> DEFINE tail == SubSeq(j.steps, i + 1, Len(j.steps))
           late == Behind(j, jobs[Other(who)])
           k == [j EXCEPT !.steps = tail, !.content = after, !.behind = late]
           next == [jobs EXCEPT ![who] = k]
<1>1. Queued(who, j, i, after, jobs) = next
  BY DEF Queued, Saved
<1> HIDE DEF tail, late
<1>2. /\ Shaped(k) /\ k.what = j.what /\ k.gen = j.gen /\ k.before = j.before /\ k.stale = j.stale
      /\ k.steps = tail /\ k.content = after /\ k.behind = late
  BY DEF Shaped, Fields
<1> HIDE DEF k
<1>3. k # NoJob
  BY <1>2, ShapedIsAJob
<1>4. /\ next = [w \in Writers |-> next[w]] /\ next[who] = k
      /\ next[Other(who)] = jobs[Other(who)]
  BY WritersAre
<1> HIDE DEF next
<1>5. /\ tail = SubSeq(j.steps, i + 1, Len(j.steps)) /\ late = Behind(j, jobs[Other(who)])
  BY DEF tail, late
<1> QED BY <1>1, <1>2, <1>3, <1>4, <1>5 DEF Requeued

\* Run ends a job, or goes on to its next save.
Stops(who, jobs) ==
    /\ job' = [jobs EXCEPT ![who] = NoJob] /\ UNCHANGED <<stores, crossed>>
GoesOn(who, j, i, after, jobs) ==
    /\ stores' = [stores EXCEPT ![j.gen] = after]
    /\ Requeued(who, j, i, after, jobs, job')
    /\ undo' = None /\ crossed' = (crossed \/ j.stale \/ jobs[Other(who)] # NoJob)
    /\ UNCHANGED <<runsOn, dialog>>

LEMMA RunMoves ==
    ASSUME NEW who \in Writers, NEW j, Shaped(j), NEW jobs, jobs = [w \in Writers |-> jobs[w]],
           NEW slot, Run(who, j, jobs, slot)
    PROVE  /\ gen' = gen
           /\ \/ /\ Due(j) = {} /\ Stops(who, jobs)
                 /\ IF who = "panel" THEN PanelDone(j, jobs, slot) ELSE DialogDone(jobs, slot)
              \/ /\ Due(j) # {}
                 /\ GoesOn(who, j, Min(Due(j)), Apply(stores[j.gen], j.steps[Min(Due(j))]), jobs)
<1>1. CASE Due(j) = {}
  <2>1. /\ gen' = gen /\ UNCHANGED <<stores, crossed>>
        /\ IF who = "panel" THEN PanelDone(j, jobs, slot) ELSE DialogDone(jobs, slot)
    BY <1>1, Zenon DEF Run
  <2>2. job' = [jobs EXCEPT ![who] = NoJob]
    BY <2>1 DEF PanelDone, DialogDone, Writers
  <2> QED BY <1>1, <2>1, <2>2, Zenon DEF Stops
<1>2. CASE Due(j) # {}
  <2> DEFINE i == Min(Due(j))
             after == Apply(stores[j.gen], j.steps[Min(Due(j))])
  <2>1. /\ gen' = gen /\ stores' = [stores EXCEPT ![j.gen] = after]
        /\ job' = Queued(who, j, i, after, jobs)
        /\ undo' = Withdrawn(who, slot) /\ crossed' = (crossed \/ j.stale \/ jobs[Other(who)] # NoJob)
        /\ UNCHANGED <<runsOn, dialog>>
    BY <1>2, Zenon DEF Run
  <2>2. Requeued(who, j, i, after, jobs, Queued(who, j, i, after, jobs))
    BY QueuedRequeues
  <2> QED BY <1>2, <2>1, <2>2, Zenon DEF GoesOn, Withdrawn
<1> QED BY <1>1, <1>2, Zenon

\* The other writer's job when a save has landed.
LEMMA LandedIs ==
    ASSUME MemoryInv, NEW w \in Writers, job[w] # NoJob
    PROVE  LET jobs == Landed(w)
               o == Other(w)
           IN  /\ JobsOK(jobs)
               /\ jobs[w] = job[w] /\ (jobs[o] # NoJob <=> job[o] # NoJob)
               /\ jobs[o] # NoJob =>
                    /\ jobs[o].gen = job[o].gen /\ jobs[o].before = job[o].before
                    /\ jobs[o].steps = job[o].steps /\ jobs[o].what = job[o].what
                    /\ jobs[o].stale = job[o].stale
                    /\ job[o].gen = job[w].gen =>
                         jobs[o].content = stores[job[o].gen] /\ jobs[o].behind = FALSE
                    /\ job[o].gen # job[w].gen => jobs[o] = job[o]
<1> DEFINE o == Other(w)
           k == [job[o] EXCEPT !.behind = FALSE, !.content = stores[job[o].gen]]
           jobs == Landed(w)
<1>0. o \in Writers /\ o # w /\ \A v \in Writers : v # w <=> v = o
  BY WritersAre
<1>1. /\ jobs = [v \in Writers |-> jobs[v]] /\ jobs[w] = job[w]
      /\ jobs[o] = IF job[o] # NoJob /\ job[o].gen = job[w].gen THEN k ELSE job[o]
  BY <1>0 DEF Landed
<1>2. /\ job[w].gen \in 1..gen /\ Shaped(job[w]) /\ (job[w].what = "dialog" <=> w = "dialog")
      /\ job[o] # NoJob =>
            job[o].gen \in 1..gen /\ Shaped(job[o]) /\ (job[o].what = "dialog" <=> o = "dialog")
  BY <1>0, Zenon DEF MemoryInv, JobsOK
<1>3. job[o] # NoJob => /\ Shaped(k) /\ k.gen = job[o].gen /\ k.before = job[o].before
                        /\ k.steps = job[o].steps /\ k.what = job[o].what
                        /\ k.stale = job[o].stale
                        /\ k.content = stores[job[o].gen] /\ k.behind = FALSE
  BY <1>2 DEF Shaped, Fields
<1> HIDE DEF k, jobs
<1>4. job[o] # NoJob => k # NoJob
  BY <1>3, ShapedIsAJob
<1>5. JobsOK(jobs)
  BY <1>0, <1>1, <1>2, <1>3, <1>4 DEF JobsOK
<1>6. /\ jobs[w] = job[w] /\ (jobs[o] # NoJob <=> job[o] # NoJob)
      /\ jobs[o] # NoJob =>
           /\ jobs[o].gen = job[o].gen /\ jobs[o].before = job[o].before
           /\ jobs[o].steps = job[o].steps /\ jobs[o].what = job[o].what
           /\ jobs[o].stale = job[o].stale
           /\ job[o].gen = job[w].gen =>
                jobs[o].content = stores[job[o].gen] /\ jobs[o].behind = FALSE
           /\ job[o].gen # job[w].gen => jobs[o] = job[o]
  BY <1>1, <1>3, <1>4
<1> QED BY <1>5, <1>6 DEF jobs

\* The steps that write, and the others: the file is read again, or nothing is written.
PanelWrites ==
    \E what \in Kinds \ {"dialog"} : \E steps, stale, slot : PanelWrite(what, steps, stale, slot)
DialogWrites == \E steps, stale : DialogWrite(steps, stale)
SaveEnds(w) == SaveDone(w) \/ SaveFails(w)
Rests ==
    /\ UNCHANGED <<stores, gen, cached, file, job, loaded, runsOn, crossed, lost>>
    /\ undo' \in {None, undo}
    /\ dialog' = "open" => dialog = "open"
    /\ measuring' \in {None, measuring} \/ measuring'.cover \in Windows

LEMMA QuietKinds ==
    ASSUME EntryActs \/ DialogCloses \/ UndoExpires \/ UNCHANGED panelVars
    PROVE  (\E w \in Writers : SaveEnds(w)) \/ UnloadDue \/ Unload \/ Setup \/ Restart \/ Rests
<1>1. CASE UndoExpires
  BY <1>1, Zenon DEF UndoExpires, Rests, entryVars
<1>2. CASE DialogCloses
  <2>1. dialog' # "open"
    BY <1>2 DEF DialogCloses, Closed
  <2>2. measuring' \in {None, measuring}
    BY <1>2, Zenon DEF DialogCloses
  <2> QED BY <1>2, <2>1, <2>2, Zenon DEF DialogCloses, Rests, memoryVars
<1>3. CASE EntryActs
  <2>1. CASE (\E who \in Writers, c \in Windows : StartMeasuring(who, c)) \/ EndMeasuring
    <3>1. measuring' = None \/ \E who \in Writers, c \in Windows : measuring' = [by |-> who, cover |-> c]
      BY <2>1, Zenon DEF StartMeasuring, EndMeasuring
    <3>2. measuring' \in {None, measuring} \/ measuring'.cover \in Windows
      BY <3>1
    <3> QED BY <2>1, <3>2, Zenon DEF StartMeasuring, EndMeasuring, Rests, memoryVars
  <2> QED BY <1>3, <2>1, Zenon DEF EntryActs, SaveEnds
<1>4. CASE UNCHANGED panelVars
  BY <1>4, Zenon DEF panelVars, Rests
<1> QED BY <1>1, <1>2, <1>3, <1>4, Zenon

LEMMA StepKinds ==
    ASSUME [PanelNext]_panelVars
    PROVE  \/ PanelWrites \/ DialogWrites \/ (\E w \in Writers : SaveEnds(w))
           \/ DialogLoads \/ UnloadDue \/ Unload \/ Setup \/ Restart \/ Rests
<1>1. CASE PanelActs
  <2> SUFFICES ASSUME ~UndoExpires PROVE PanelWrites
    BY QuietKinds, Zenon
  <2>1. \/ \E steps : PanelCommand(steps)
        \/ \E path \in {"first", "alone", "same", "refine"}, n \in Names, number \in Numbers :
               SessionSave(path, n, number)
        \/ Undo
    BY <1>1, Zenon DEF PanelActs, Assign, Reorder, ReorderGroup, SetTravel, CoverEdit, CoverForget,
         ProfileEdit, ProfileRename, ProfileDelete
  <2>2. {"command", "session", "undo"} \subseteq Kinds \ {"dialog"}
    BY DEF Kinds
  <2>3. \A what \in {"command", "session", "undo"} : \A steps, stale, slot :
            PanelWrite(what, steps, stale, slot) => PanelWrites
    BY <2>2, Zenon DEF PanelWrites
  <2> QED BY <2>1, <2>3, Zenon DEF PanelCommand, SessionSave, Undo
<1>2. CASE DialogActs
  <2>1. CASE DialogCloses
    BY <2>1, QuietKinds, Zenon
  <2> QED BY <1>2, <2>1, Zenon DEF DialogActs, DialogWrites, DialogAssign, DialogEdit, DialogForget,
            DialogProfile, DialogDelete, DialogSave
<1>3. CASE EntryActs \/ UNCHANGED panelVars
  BY <1>3, QuietKinds, Zenon
<1> QED BY <1>1, <1>2, <1>3, Zenon DEF PanelNext

\* What a run leaves of the memory.
LEMMA RunMemory ==
    ASSUME gen \in Nat, gen >= 1, stores = [g \in 1..gen |-> stores[g]], loaded => cached,
           NEW who \in Writers, NEW j, Shaped(j), j.gen \in 1..gen,
           j.what = "dialog" <=> who = "dialog",
           NEW jobs, JobsOK(jobs), NEW slot, Run(who, j, jobs, slot),
           loaded' = loaded, cached' = cached
    PROVE  MemoryInv'
<1>1. jobs = [w \in Writers |-> jobs[w]] /\ Other(who) \in Writers
      /\ \A w \in Writers : w # who <=> w = Other(who)
  BY WritersAre DEF JobsOK
<1>2. gen' = gen
  BY <1>1, RunMoves, Zenon
<1>3. CASE Stops(who, jobs)
  BY <1>1, <1>2, <1>3 DEF Stops, JobsOK, MemoryInv
<1>4. ASSUME NEW i, NEW after, GoesOn(who, j, i, after, jobs) PROVE MemoryInv'
  <2>1. /\ job' = [w \in Writers |-> job'[w]] /\ job'[Other(who)] = jobs[Other(who)]
        /\ Shaped(job'[who]) /\ job'[who].gen = j.gen /\ job'[who].what = j.what
    BY <1>4, Zenon DEF GoesOn, Requeued
  <2>2. stores' = [g \in 1..gen' |-> stores'[g]]
    BY <1>2, <1>4 DEF GoesOn
  <2>3. JobsOK(job)'
    <3>1. \A w \in Writers : job'[w] # NoJob =>
            /\ Shaped(job'[w]) /\ job'[w].gen \in 1..gen
            /\ job'[w].what = "dialog" <=> w = "dialog"
      BY <1>1, <2>1 DEF JobsOK
    <3> QED BY <1>2, <2>1, <3>1 DEF JobsOK
  <2> QED BY <1>2, <2>2, <2>3 DEF MemoryInv
<1>5. Stops(who, jobs) \/ \E i, after : GoesOn(who, j, i, after, jobs)
  BY <1>1, RunMoves, Zenon
<1> QED BY <1>3, <1>4, <1>5, Zenon

\* The job as it begins, and as it is when its save is done.
LEMMA Begun ==
    ASSUME MemoryInv, NEW what \in Kinds, NEW steps, NEW stale, NEW who \in Writers,
           what = "dialog" <=> who = "dialog"
    PROVE  LET j == Job(what, steps, stale)
           IN  Shaped(j) /\ j.gen = gen /\ j.gen \in 1..gen /\ (j.what = "dialog" <=> who = "dialog")
<1>1. gen \in 1..gen
  BY DEF MemoryInv
<1>2. LET j == Job(what, steps, stale)
      IN  Shaped(j) /\ j.gen = gen /\ j.what = what
  BY JobShaped
<1> QED BY <1>1, <1>2

LEMMA ReadMemory ==
    ASSUME MemoryInv, StoreRead, job' = job
    PROVE  MemoryInv'
<1>1. cached' = TRUE /\ gen' = (IF Working THEN gen + 1 ELSE 1)
      /\ stores' = [g \in 1 .. gen' |-> IF g = gen' THEN file ELSE stores[g]]
  BY Zenon DEF StoreRead
<1>2. gen' \in Nat /\ gen' >= 1 /\ stores' = [g \in 1..gen' |-> stores'[g]]
  BY <1>1 DEF MemoryInv
<1>3. \A w \in Writers : job[w] # NoJob => job[w].gen \in 1..gen'
  BY <1>1 DEF MemoryInv, JobsOK, Working
<1>4. JobsOK(job)'
  BY <1>3 DEF MemoryInv, JobsOK
<1> QED BY <1>1, <1>2, <1>4 DEF MemoryInv

LEMMA MemoryStep ==
    ASSUME MemoryInv, [PanelNext]_panelVars
    PROVE  MemoryInv'
<1>0. gen \in Nat /\ gen >= 1 /\ stores = [g \in 1..gen |-> stores[g]] /\ (loaded => cached) /\ JobsOK(job)
  BY Zenon DEF MemoryInv
<1>1. CASE PanelWrites
  <2>1. PICK what \in Kinds \ {"dialog"} : \E steps, stale, slot : PanelWrite(what, steps, stale, slot)
    BY <1>1, Zenon DEF PanelWrites
  <2>2. PICK steps, stale, slot : PanelWrite(what, steps, stale, slot)
    BY <2>1, Zenon
  <2> DEFINE j == Job(what, steps, stale)
  <2>3. Shaped(j) /\ j.gen \in 1..gen /\ (j.what = "dialog" <=> "panel" = "dialog")
    BY <2>1, Begun, WritersAre
  <2>4. Run("panel", j, job, slot) /\ loaded' = loaded /\ cached' = cached
    BY <2>2, Zenon DEF PanelWrite
  <2> HIDE DEF j
  <2> QED BY <1>0, <2>3, <2>4, RunMemory, WritersAre, Zenon
<1>2. CASE DialogWrites
  <2>1. PICK steps, stale : DialogWrite(steps, stale)
    BY <1>2, Zenon DEF DialogWrites
  <2> DEFINE j == Job("dialog", steps, stale)
  <2>2. Shaped(j) /\ j.gen \in 1..gen /\ (j.what = "dialog" <=> "dialog" = "dialog")
    BY Begun, WritersAre DEF Kinds
  <2>3. Run("dialog", j, job, undo) /\ loaded' = loaded /\ cached' = cached
    BY <2>1, Zenon DEF DialogWrite
  <2> HIDE DEF j
  <2> QED BY <1>0, <2>2, <2>3, RunMemory, WritersAre, Zenon
<1>3. ASSUME NEW w \in Writers, SaveEnds(w) PROVE MemoryInv'
  <2>1. job[w] # NoJob /\ Run(w, job[w], Landed(w), undo) /\ loaded' = loaded /\ cached' = cached
    BY <1>3, Zenon DEF SaveEnds, SaveDone, SaveFails, NextSave, GoOn
  <2>2. JobsOK(Landed(w))
    BY <2>1, LandedIs
  <2>3. Shaped(job[w]) /\ job[w].gen \in 1..gen /\ (job[w].what = "dialog" <=> w = "dialog")
    BY <1>0, <2>1, Zenon DEF JobsOK
  <2> QED BY <1>0, <2>1, <2>2, <2>3, RunMemory, Zenon
<1>4. CASE DialogLoads \/ Setup
  BY <1>4, ReadMemory, Zenon DEF DialogLoads, Setup
<1>5. CASE UnloadDue \/ Unload
  <2>1. loaded' = FALSE /\ UNCHANGED <<stores, gen, job>>
    BY <1>5, Zenon DEF UnloadDue, Unload, UnloadEntry
  <2> QED BY <2>1 DEF MemoryInv, JobsOK
<1>6. CASE Restart
  <2>1. /\ gen' = 1 /\ stores' = [g \in {1} |-> file] /\ cached' = TRUE
        /\ job' = [w \in Writers |-> NoJob]
    BY <1>6, Zenon DEF Restart
  <2>2. 1..gen' = {1}
    BY <2>1
  <2> QED BY <2>1, <2>2 DEF MemoryInv, JobsOK
<1>7. CASE Rests
  BY <1>7 DEF Rests, MemoryInv, JobsOK
<1> QED BY <1>1, <1>2, <1>3, <1>4, <1>5, <1>6, <1>7, StepKinds, Zenon

LEMMA MemoryStart == PanelInit => MemoryInv
<1> SUFFICES ASSUME PanelInit PROVE MemoryInv
  OBVIOUS
<1>1. /\ gen = 1 /\ stores = [g \in {1} |-> InitialStore] /\ cached = TRUE
      /\ job = [w \in Writers |-> NoJob]
  BY Zenon DEF PanelInit
<1>2. 1..gen = {1}
  BY <1>1
<1> QED BY <1>1, <1>2 DEF MemoryInv, JobsOK

--------------------------------------------------------------------------
(* The store and the disk *)

\* While no save was lost: every job works on the entry's store, the last of the saves
\* on their way holds what is in memory, and without one the file does.
DiskInv == ~lost =>
    /\ ~cached => ~Working
    /\ \A w \in Writers : job[w] # NoJob => job[w].gen = gen
    /\ ~Working => file = Live
    /\ \A w \in Writers : job[w] # NoJob /\ job[Other(w)] = NoJob =>
          ~job[w].behind /\ job[w].content = Live
    /\ (\A w \in Writers : job[w] # NoJob) => \E w \in Writers : job[w].behind /\ ~job[Other(w)].behind

\* What the jobs look like when the saves end with what is in memory.
LastSaved(jobs, live) ==
    /\ \A w \in Writers : jobs[w] # NoJob => jobs[w].gen = gen
    /\ \A w \in Writers : jobs[w] # NoJob /\ jobs[Other(w)] = NoJob =>
          ~jobs[w].behind /\ jobs[w].content = live
    /\ (\A w \in Writers : jobs[w] # NoJob) => \E w \in Writers : jobs[w].behind /\ ~jobs[Other(w)].behind

\* A run keeps them so, whoever it is of, if the other's save is the last one by now.
LEMMA RunOrder ==
    ASSUME MemoryInv, NEW who \in Writers, NEW j, Shaped(j), j.gen = gen,
           NEW jobs, JobsOK(jobs), NEW slot, Run(who, j, jobs, slot),
           jobs[Other(who)] # NoJob =>
              jobs[Other(who)].gen = gen /\ ~jobs[Other(who)].behind /\ jobs[Other(who)].content = Live
    PROVE  /\ gen' = gen /\ LastSaved(job', Live')
           /\ job'[who] = NoJob => UNCHANGED stores
<1> DEFINE o == Other(who)
<1>1. /\ jobs = [w \in Writers |-> jobs[w]] /\ o \in Writers /\ o # who /\ Other(o) = who
      /\ \A w \in Writers : w = who \/ w = o
  BY WritersAre DEF JobsOK
<1> HIDE DEF o
<1>2. gen' = gen
  BY <1>1, RunMoves, Zenon
<1>3. CASE Stops(who, jobs)
  <2>1. stores' = stores /\ job'[who] = NoJob /\ job'[o] = jobs[o]
    BY <1>1, <1>3 DEF Stops
  <2> QED BY <1>1, <1>2, <2>1 DEF LastSaved, Live, o
<1>4. ASSUME NEW i, NEW after, GoesOn(who, j, i, after, jobs)
      PROVE  LastSaved(job', Live') /\ job'[who] # NoJob
  <2>1. /\ job'[o] = jobs[o] /\ job'[who] # NoJob /\ job'[who].gen = gen
        /\ job'[who].content = after /\ job'[who].behind = Behind(j, jobs[o])
    BY <1>4, Zenon DEF GoesOn, Requeued, o
  <2>2. Live' = after
    BY <1>2, <1>4 DEF GoesOn, Live, MemoryInv
  <2>3. Behind(j, jobs[o]) <=> jobs[o] # NoJob
    BY Zenon DEF Behind, o
  <2> QED BY <1>1, <2>1, <2>2, <2>3, Zenon DEF LastSaved, o
<1>5. Stops(who, jobs) \/ \E i, after : GoesOn(who, j, i, after, jobs)
  BY <1>1, RunMoves, Zenon
<1>6. Stops(who, jobs) => UNCHANGED stores
  BY Zenon DEF Stops
<1> QED BY <1>2, <1>3, <1>4, <1>5, <1>6, Zenon

LEMMA DiskStep ==
    ASSUME MemoryInv, DiskInv, [PanelNext]_panelVars
    PROVE  DiskInv'
<1> SUFFICES ASSUME ~lost' PROVE DiskInv'
  BY Zenon DEF DiskInv
<1>0. \A w \in Writers : Other(w) \in Writers /\ Other(w) # w /\ Other(Other(w)) = w
  BY WritersAre
<1>1. ASSUME ~lost, NEW who \in Writers, NEW what \in Kinds, NEW steps, NEW stale, NEW slot,
             what = "dialog" <=> who = "dialog",
             Run(who, Job(what, steps, stale), job, slot), job[who] = NoJob, cached,
             UNCHANGED <<cached, file>>
      PROVE  DiskInv'
  <2> DEFINE j == Job(what, steps, stale)
             o == Other(who)
  <2>1. Shaped(j) /\ j.gen = gen /\ JobsOK(job)
    BY <1>1, Begun DEF MemoryInv
  <2>2. job[o] # NoJob => job[o].gen = gen /\ ~job[o].behind /\ job[o].content = Live
    BY <1>0, <1>1, Zenon DEF DiskInv
  <2>3. /\ Run(who, j, job, slot) /\ o = Other(who)
    BY <1>1
  <2> HIDE DEF j, o
  <2>4. gen' = gen /\ LastSaved(job', Live') /\ (job'[who] = NoJob => UNCHANGED stores)
    BY <2>1, <2>2, <2>3, RunOrder, Zenon
  <2>5. Working' \/ file' = Live'
    <3>1. CASE job[o] = NoJob /\ job'[who] = NoJob
      <4>1. ~Working
        BY <1>1, <3>1, <2>3, WritersAre, Zenon DEF Working
      <4>2. Live' = Live
        BY <3>1, <2>4, Zenon DEF Live
      <4> QED BY <1>1, <4>1, <4>2, Zenon DEF DiskInv
    <3>2. CASE job'[who] # NoJob
      BY <3>2, Zenon DEF Working
    <3>3. ASSUME job[o] # NoJob, job'[who] = NoJob PROVE job'[o] # NoJob
      <4>1. /\ job = [w \in Writers |-> job[w]]
            /\ Stops(who, job) \/ \E i, after : Requeued(who, j, i, after, job, job')
        BY <2>1, <2>3, RunMoves, Zenon DEF GoesOn, JobsOK
      <4> QED BY <1>0, <2>3, <3>3, <4>1 DEF Stops, Requeued
    <3> QED BY <1>0, <2>3, <3>1, <3>2, <3>3, Zenon DEF Working
  <2> QED BY <1>1, <2>4, <2>5, Zenon DEF DiskInv, LastSaved
<1>2. CASE PanelWrites
  <2>1. PICK what \in Kinds \ {"dialog"} : \E steps, stale, slot : PanelWrite(what, steps, stale, slot)
    BY <1>2, Zenon DEF PanelWrites
  <2>2. PICK steps, stale, slot : PanelWrite(what, steps, stale, slot)
    BY <2>1, Zenon
  <2>3. /\ Run("panel", Job(what, steps, stale), job, slot) /\ job["panel"] = NoJob /\ cached /\ ~lost
        /\ UNCHANGED <<cached, file>>
    BY <2>2, Zenon DEF PanelWrite, Busy, MemoryInv
  <2>4. what \in Kinds /\ (what = "dialog" <=> "panel" = "dialog")
    BY <2>1
  <2> QED BY <1>1, <2>3, <2>4, WritersAre, Zenon
<1>3. CASE DialogWrites
  <2>1. PICK steps, stale : DialogWrite(steps, stale)
    BY <1>3, Zenon DEF DialogWrites
  <2>2. /\ Run("dialog", Job("dialog", steps, stale), job, undo) /\ job["dialog"] = NoJob /\ cached /\ ~lost
        /\ UNCHANGED <<cached, file>> /\ "dialog" \in Kinds
    BY <2>1, Zenon DEF DialogWrite, Kinds
  <2> QED BY <1>1, <2>2, WritersAre, Zenon
<1>4. ASSUME NEW w \in Writers, SaveEnds(w) PROVE DiskInv'
  <2> DEFINE o == Other(w)
             jobs == Landed(w)
  <2>1. /\ Run(w, job[w], jobs, undo) /\ ~lost /\ UNCHANGED cached
        /\ job[w] # NoJob /\ ~job[w].behind /\ file' = job[w].content
    <3>1. SaveDone(w)
      BY <1>4, Zenon DEF SaveEnds, SaveFails
    <3> QED BY <3>1, Zenon DEF SaveDone, NextSave, GoOn
  <2>2. /\ Shaped(job[w]) /\ job[w].gen = gen /\ cached
    BY <2>1, Zenon DEF MemoryInv, JobsOK, DiskInv, Working
  <2>3. /\ JobsOK(jobs) /\ (jobs[o] # NoJob <=> job[o] # NoJob)
        /\ jobs[o] # NoJob => jobs[o].gen = gen /\ ~jobs[o].behind /\ jobs[o].content = Live
    <3>1. job[o] # NoJob => job[o].gen = gen
      BY <1>0, <2>1, Zenon DEF DiskInv
    <3> QED BY <2>1, <2>2, <3>1, LandedIs DEF Live
  <2>4. o = Other(w)
    OBVIOUS
  <2> HIDE DEF o, jobs
  <2>5. gen' = gen /\ LastSaved(job', Live') /\ (job'[w] = NoJob => UNCHANGED stores)
    BY <2>1, <2>2, <2>3, <2>4, RunOrder, Zenon
  <2>6. Working' \/ file' = Live'
    <3>1. CASE job[o] = NoJob /\ job'[w] = NoJob
      <4>1. job[w].content = Live
        BY <1>0, <2>1, <2>4, <3>1, Zenon DEF DiskInv
      <4>2. Live' = Live
        BY <3>1, <2>5, Zenon DEF Live
      <4> QED BY <2>1, <4>1, <4>2, Zenon
    <3>2. CASE job'[w] # NoJob
      BY <3>2, Zenon DEF Working
    <3>3. ASSUME job[o] # NoJob, job'[w] = NoJob PROVE job'[o] # NoJob
      <4>1. /\ jobs = [v \in Writers |-> jobs[v]]
            /\ Stops(w, jobs) \/ \E i, after : Requeued(w, job[w], i, after, jobs, job')
        BY <2>1, <2>2, <2>3, RunMoves, Zenon DEF GoesOn, JobsOK
      <4> QED BY <1>0, <2>3, <2>4, <3>3, <4>1 DEF Stops, Requeued
    <3> QED BY <1>0, <2>4, <3>1, <3>2, <3>3, Zenon DEF Working
  <2> QED BY <2>1, <2>2, <2>5, <2>6, Zenon DEF DiskInv, LastSaved
<1>5. CASE DialogLoads \/ Setup
  <2>1. StoreRead /\ ~Working /\ UNCHANGED <<job, file>>
    BY <1>5, Zenon DEF DialogLoads, Setup, DiskInv
  <2>2. cached' = TRUE /\ Live' = file /\ ~Working'
    BY <2>1 DEF StoreRead, Live, Working
  <2> QED BY <2>1, <2>2, WritersAre, Zenon DEF DiskInv, Working
<1>6. CASE UnloadDue \/ Unload
  <2>1. ~lost /\ ~Working /\ UNCHANGED <<stores, gen, job, file>>
    BY <1>6, Zenon DEF UnloadDue, Unload, UnloadEntry
  <2>2. ~Working' /\ Live' = Live
    BY <2>1, Zenon DEF Working, Live
  <2> QED BY <2>1, <2>2, WritersAre, Zenon DEF DiskInv, Working
<1>7. CASE Restart
  <2>1. gen' = 1 /\ stores' = [g \in {1} |-> file] /\ job' = [w \in Writers |-> NoJob] /\ file' = file
    BY <1>7, Zenon DEF Restart
  <2>2. Live' = file' /\ ~Working'
    BY <2>1 DEF Live, Working
  <2> QED BY <2>2, WritersAre, Zenon DEF DiskInv, Working
<1>8. CASE Rests
  <2>1. ~lost /\ UNCHANGED <<stores, gen, cached, file, job>>
    BY <1>8, Zenon DEF Rests
  <2> QED BY <2>1, Zenon DEF DiskInv, Working, Live
<1> QED BY <1>2, <1>3, <1>4, <1>5, <1>6, <1>7, <1>8, StepKinds, Zenon

LEMMA DiskAlways == PanelSpec => [](MemoryInv /\ DiskInv)
<1>1. PanelInit => DiskInv
  <2> SUFFICES ASSUME PanelInit PROVE DiskInv
    OBVIOUS
  <2>1. gen = 1 /\ stores = [g \in {1} |-> file] /\ job = [w \in Writers |-> NoJob]
    BY Zenon DEF PanelInit
  <2>2. Live = file /\ ~Working
    BY <2>1 DEF Live, Working
  <2> QED BY <2>2, WritersAre, Zenon DEF DiskInv, Working
<1>2. MemoryInv /\ DiskInv /\ [PanelNext]_panelVars => (MemoryInv /\ DiskInv)'
  BY MemoryStep, DiskStep
<1> QED BY MemoryStart, <1>1, <1>2, PTL DEF PanelSpec

\* What is in memory is on the disk as soon as no save is on its way, unless one was
\* lost: whoever writes beside whom, in any number of saves, through unloads and restarts.
THEOREM MemoryIsOnDisk == PanelSpec => []StoreIsOnDisk
<1>1. DiskInv => StoreIsOnDisk
  BY Zenon DEF DiskInv, StoreIsOnDisk
<1> QED BY DiskAlways, <1>1, PTL

--------------------------------------------------------------------------
(* The store and the covers *)

\* With no dialog in the way, the covers run on the store as it was when the panel's
\* command began, and without a command as it is.
Base == IF job["panel"] # NoJob /\ job["panel"].gen = gen THEN job["panel"].before ELSE Live
CoversInv == loaded /\ dialog = "open" /\ job["dialog"] = NoJob => runsOn = ModelOf(Base)

\* A write of the dialog is never the end of it.
LEMMA DialogInTheWay ==
    ASSUME NEW j, Shaped(j), NEW jobs, jobs = [w \in Writers |-> jobs[w]], NEW slot,
           Run("dialog", j, jobs, slot)
    PROVE  dialog' # "open" \/ job'["dialog"] # NoJob
<1>1. \/ DialogDone(jobs, slot)
      \/ \E i, after : GoesOn("dialog", j, i, after, jobs)
  BY RunMoves, WritersAre, Zenon
<1>2. DialogDone(jobs, slot) => dialog' # "open"
  BY DEF DialogDone
<1>3. \A i, after : GoesOn("dialog", j, i, after, jobs) => job'["dialog"] # NoJob
  BY Zenon DEF GoesOn, Requeued
<1> QED BY <1>1, <1>2, <1>3, Zenon

LEMMA CoversStep ==
    ASSUME MemoryInv, CoversInv, [PanelNext]_panelVars
    PROVE  CoversInv'
<1> SUFFICES ASSUME loaded', dialog' = "open", job'["dialog"] = NoJob
             PROVE  runsOn' = ModelOf(Base')
  BY DEF CoversInv
<1>0. /\ JobsOK(job) /\ (loaded => cached) /\ gen \in Nat /\ gen >= 1
      /\ job = [w \in Writers |-> job[w]] /\ stores = [g \in 1..gen |-> stores[g]]
      /\ Other("panel") = "dialog" /\ "panel" \in Writers /\ "dialog" \in Writers
  BY DEF MemoryInv, JobsOK, Other, Writers
\* A run of the panel, at its beginning or further on.
<1>1. ASSUME NEW j, Shaped(j), j.gen \in 1..gen, NEW jobs, JobsOK(jobs), NEW slot,
             Run("panel", j, jobs, slot), loaded' = loaded,
             jobs["dialog"] = NoJob <=> job["dialog"] = NoJob,
             CoversInv => \/ runsOn = ModelOf(IF j.gen = gen THEN j.before ELSE Live)
                          \/ ~(loaded /\ dialog = "open" /\ job["dialog"] = NoJob)
      PROVE  runsOn' = ModelOf(Base')
  <2>1. gen' = gen /\ jobs = [w \in Writers |-> jobs[w]]
    BY <1>0, <1>1, RunMoves, Zenon DEF JobsOK
  <2>2. CASE Stops("panel", jobs) /\ PanelDone(j, jobs, slot)
    <3>1. /\ job'["panel"] = NoJob /\ job'["dialog"] = jobs["dialog"] /\ stores' = stores /\ dialog' = dialog
      BY <1>0, <2>1, <2>2 DEF Stops, PanelDone
    <3>2. Base' = Live /\ Live' = Live
      BY <2>1, <3>1, Zenon DEF Base, Live
    <3>3. runsOn = ModelOf(IF j.gen = gen THEN j.before ELSE Live)
      BY <1>1, <3>1, Zenon
    <3>4. runsOn' = IF Announced(j, stores[j.gen]) THEN ModelOf(Live) ELSE runsOn
      BY <1>0, <1>1, <2>2, Zenon DEF PanelDone
    <3>5. ~Announced(j, stores[j.gen]) => j.before = stores[j.gen]
      BY <1>1, Zenon DEF Announced
    <3>6. j.gen = gen => stores[j.gen] = Live
      BY DEF Live
    <3> QED BY <3>2, <3>3, <3>4, <3>5, <3>6, Zenon
  <2>3. ASSUME NEW i, NEW after, GoesOn("panel", j, i, after, jobs) PROVE runsOn' = ModelOf(Base')
    <3>1. /\ job'["dialog"] = jobs["dialog"] /\ dialog' = dialog /\ runsOn' = runsOn
          /\ job'["panel"] # NoJob /\ job'["panel"].gen = j.gen /\ job'["panel"].before = j.before
      BY <1>0, <2>3, Zenon DEF GoesOn, Requeued
    <3>2. runsOn = ModelOf(IF j.gen = gen THEN j.before ELSE Live)
      BY <1>1, <3>1, Zenon
    <3>3. j.gen # gen => Live' = Live
      BY <1>0, <1>1, <2>1, <2>3 DEF GoesOn, Live
    <3> QED BY <2>1, <3>1, <3>2, <3>3, Zenon DEF Base
  <2>4. \/ Stops("panel", jobs) /\ PanelDone(j, jobs, slot)
        \/ \E i, after : GoesOn("panel", j, i, after, jobs)
    BY <1>0, <1>1, <2>1, RunMoves, Zenon
  <2> QED BY <2>2, <2>3, <2>4, Zenon
<1>2. CASE PanelWrites
  <2>1. PICK what \in Kinds \ {"dialog"} : \E steps, stale, slot : PanelWrite(what, steps, stale, slot)
    BY <1>2, Zenon DEF PanelWrites
  <2>2. PICK steps, stale, slot : PanelWrite(what, steps, stale, slot)
    BY <2>1, Zenon
  <2> DEFINE j == Job(what, steps, stale)
  <2>3. Shaped(j) /\ j.gen \in 1..gen /\ j.gen = gen /\ j.before = Live
    BY <2>1, JobShaped, MemoryInv DEF MemoryInv
  <2>4. Run("panel", j, job, slot) /\ loaded' = loaded /\ job["panel"] = NoJob
    BY <2>2, Zenon DEF PanelWrite, Busy
  <2> HIDE DEF j
  <2>5. CoversInv => \/ runsOn = ModelOf(IF j.gen = gen THEN j.before ELSE Live)
                     \/ ~(loaded /\ dialog = "open" /\ job["dialog"] = NoJob)
    BY <2>3, <2>4, Zenon DEF CoversInv, Base
  <2> QED BY <1>0, <1>1, <2>3, <2>4, <2>5, Zenon
<1>3. CASE DialogWrites
  <2>1. PICK steps, stale : DialogWrite(steps, stale)
    BY <1>3, Zenon DEF DialogWrites
  <2> DEFINE j == Job("dialog", steps, stale)
  <2>2. Shaped(j)
    BY JobShaped DEF Kinds
  <2>3. Run("dialog", j, job, undo)
    BY <2>1, Zenon DEF DialogWrite
  <2> HIDE DEF j
  <2> QED BY <1>0, <2>2, <2>3, DialogInTheWay, Zenon
<1>4. ASSUME NEW w \in Writers, SaveEnds(w) PROVE runsOn' = ModelOf(Base')
  <2>1. job[w] # NoJob /\ Run(w, job[w], Landed(w), undo) /\ loaded' = loaded
    BY <1>4, Zenon DEF SaveEnds, SaveDone, SaveFails, NextSave, GoOn
  <2>2. JobsOK(Landed(w)) /\ (Landed(w)[Other(w)] = NoJob <=> job[Other(w)] = NoJob)
    BY <2>1, LandedIs
  <2>3. Shaped(job[w]) /\ job[w].gen \in 1..gen
    BY <1>0, <2>1, Zenon DEF JobsOK
  <2>4. w = "panel"
    BY <2>1, <2>2, <2>3, DialogInTheWay DEF Writers, JobsOK
  <2>5. CoversInv => \/ runsOn = ModelOf(IF job[w].gen = gen THEN job[w].before ELSE Live)
                     \/ ~(loaded /\ dialog = "open" /\ job["dialog"] = NoJob)
    BY <2>1, <2>4, Zenon DEF CoversInv, Base
  <2> QED BY <1>0, <1>1, <2>1, <2>2, <2>3, <2>4, <2>5, Zenon
<1>5. CASE DialogLoads \/ UnloadDue \/ Unload
  <2>1. ~loaded'
    BY <1>0, <1>5, Zenon DEF DialogLoads, UnloadDue, Unload, UnloadEntry, entryVars
  <2> QED BY <2>1
<1>6. CASE Setup
  <2>1. /\ runsOn' = ModelOf(file) /\ job' = job /\ gen' = (IF Working THEN gen + 1 ELSE 1)
        /\ stores' = [g \in 1 .. gen' |-> IF g = gen' THEN file ELSE stores[g]]
    BY <1>6, Zenon DEF Setup, StoreRead
  <2>2. Live' = file
    BY <1>0, <2>1 DEF Live
  <2>3. job["panel"] # NoJob => job["panel"].gen # gen'
    <3> SUFFICES ASSUME job["panel"] # NoJob PROVE job["panel"].gen # gen'
      OBVIOUS
    <3>1. job["panel"].gen \in 1..gen /\ Working
      BY <1>0, Zenon DEF JobsOK, Working
    <3> QED BY <1>0, <2>1, <3>1
  <2> QED BY <2>1, <2>2, <2>3, Zenon DEF Base
<1>7. CASE Restart
  <2>1. /\ gen' = 1 /\ stores' = [g \in {1} |-> file] /\ job' = [w \in Writers |-> NoJob]
        /\ runsOn' = ModelOf(file)
    BY <1>7, Zenon DEF Restart
  <2>2. Live' = file /\ job'["panel"] = NoJob
    BY <1>0, <2>1 DEF Live
  <2> QED BY <2>1, <2>2, Zenon DEF Base
<1>8. CASE Rests
  <2>1. /\ UNCHANGED <<stores, gen, job, loaded, runsOn>> /\ dialog = "open"
    BY <1>8, Zenon DEF Rests
  <2>2. Base' = Base
    BY <2>1, Zenon DEF Base, Live
  <2> QED BY <2>1, <2>2, Zenon DEF CoversInv
<1> QED BY <1>2, <1>3, <1>4, <1>5, <1>6, <1>7, <1>8, StepKinds, Zenon

\* With nothing being written and no reload due, every cover runs on what the store says
\* of it: whatever was saved, undone, reloaded or read again, whether it changed anything
\* or not, and whether the disk took it or not.
THEOREM CoversFollowTheStore == PanelSpec => []CoversRunOnTheStore
<1>1. PanelInit => CoversInv
  <2> SUFFICES ASSUME PanelInit PROVE CoversInv
    OBVIOUS
  <2>1. /\ gen = 1 /\ stores = [g \in {1} |-> InitialStore] /\ job = [w \in Writers |-> NoJob]
        /\ runsOn = ModelOf(InitialStore)
    BY Zenon DEF PanelInit
  <2>2. Live = InitialStore /\ job["panel"] = NoJob
    BY <2>1, WritersAre DEF Live
  <2> QED BY <2>1, <2>2, Zenon DEF CoversInv, Base
<1>2. MemoryInv /\ CoversInv /\ [PanelNext]_panelVars => (MemoryInv /\ CoversInv)'
  BY MemoryStep, CoversStep
<1>3. CoversInv => CoversRunOnTheStore
  BY WritersAre, Zenon DEF CoversInv, CoversRunOnTheStore, Base, Working
<1> QED BY MemoryStart, <1>1, <1>2, <1>3, PTL DEF PanelSpec

--------------------------------------------------------------------------
(* Lists *)

IsList(o) == o \in Seq(ToSet(o))

LEMMA ListFromDomain ==
    ASSUME NEW o, NEW n \in Nat, o = [i \in 1..n |-> o[i]]
    PROVE  IsList(o) /\ DOMAIN o = 1..n /\ Len(o) = n
<1>1. DOMAIN o = 1..n
  OBVIOUS
<1>2. o \in [1..n -> ToSet(o)]
  BY <1>1 DEF ToSet
<1>3. o \in Seq(ToSet(o))
  BY <1>2
<1> QED BY <1>1, <1>3 DEF IsList

LEMMA ListFromSeq ==
    ASSUME NEW T, NEW o \in Seq(T)
    PROVE  IsList(o) /\ Len(o) \in Nat /\ DOMAIN o = 1..Len(o) /\ ToSet(o) \subseteq T
<1>1. o = [i \in 1..Len(o) |-> o[i]] /\ Len(o) \in Nat /\ \A i \in DOMAIN o : o[i] \in T
  OBVIOUS
<1> QED BY <1>1, ListFromDomain DEF ToSet

\* A set of natural numbers has a least one.
LEMMA Least ==
    ASSUME NEW T, T \subseteq Nat, T # {}
    PROVE  \E x \in T : \A y \in T : x <= y
<1>1. \E x \in T : \A y \in T : ~(<<y, x>> \in OpToRel(<, Nat))
  BY NatLessThanWellFounded, WFMin
<1>2. \A x, y \in T : ~(<<y, x>> \in OpToRel(<, Nat)) => x <= y
  <2> SUFFICES ASSUME NEW x \in T, NEW y \in T, ~(x <= y) PROVE <<y, x>> \in OpToRel(<, Nat)
    OBVIOUS
  <2>1. x \in Nat /\ y \in Nat /\ y < x
    OBVIOUS
  <2> QED BY <2>1 DEF OpToRel
<1> QED BY <1>1, <1>2, Zenon

\* A set of places has a first, a second, ... and a last one.
LEMMA NthIs ==
    ASSUME NEW n \in Nat, NEW places, places \subseteq 1..n
    PROVE  /\ IsFiniteSet(places) /\ Cardinality(places) \in Nat
           /\ \A i \in 1..Cardinality(places) :
                 Nth(places, i) \in places /\ Cardinality({j \in places : j <= Nth(places, i)}) = i
<1> DEFINE Upto(k) == {j \in places : j <= k}
<1>0. \A j \in places : j \in Nat /\ 1 <= j /\ j <= n
  OBVIOUS
<1>1. IsFiniteSet(places) /\ Cardinality(places) \in Nat
  <2>1. IsFiniteSet(1..n) /\ places \in SUBSET (1..n)
    BY FS_Interval
  <2> QED BY <2>1, FS_Subset, FS_CardinalityType, Zenon
<1>2. \A k : IsFiniteSet(Upto(k)) /\ Cardinality(Upto(k)) \in Nat
  <2>1. \A k : Upto(k) \in SUBSET places
    OBVIOUS
  <2> HIDE DEF Upto
  <2> QED BY <1>1, <2>1, FS_Subset, FS_CardinalityType, Zenon
<1>3. ASSUME NEW i \in 1..Cardinality(places) PROVE \E k \in places : Cardinality(Upto(k)) = i
  <2> DEFINE Enough == {k \in Nat : Cardinality(Upto(k)) >= i}
  <2>1. n \in Enough
    <3>1. Upto(n) = places
      BY <1>0
    <3> QED BY <1>1, <1>3, <3>1
  <2>2. PICK k \in Enough : \A l \in Enough : k <= l
    BY <2>1, Least, Zenon
  <2>3. k # 0
    <3>0. \A j \in places : ~(j <= 0)
      BY <1>0
    <3>1. Upto(0) = {}
      BY <3>0, Zenon
    <3>2. Cardinality(Upto(0)) = 0
      BY <3>1, FS_EmptySet
    <3> QED BY <2>2, <3>2
  <2>4. k \in Nat /\ k - 1 \in Nat /\ k - 1 \notin Enough
    <3>1. k \in Nat /\ k - 1 \in Nat
      BY <2>2, <2>3
    <3>2. ~(k <= k - 1)
      BY <3>1
    <3> HIDE DEF Enough
    <3> QED BY <2>2, <3>1, <3>2
  <2>5. Cardinality(Upto(k - 1)) < i /\ Cardinality(Upto(k)) >= i
    <3> HIDE DEF Upto
    <3> QED BY <1>2, <2>2, <2>4
  <2>0. /\ \A j \in places : j <= k <=> (j <= k - 1 \/ j = k)
        /\ ~(k <= k - 1)
    BY <1>0, <2>4
  <2>6. CASE k \in places
    <3>1. Upto(k) = Upto(k - 1) \cup {k} /\ k \notin Upto(k - 1)
      BY <2>0, <2>6, Zenon
    <3>2. Cardinality(Upto(k)) = Cardinality(Upto(k - 1)) + 1
      <4> HIDE DEF Upto
      <4> QED BY <1>2, <3>1, FS_AddElement
    <3> HIDE DEF Upto
    <3> QED BY <1>2, <1>3, <2>5, <2>6, <3>2
  <2>7. CASE k \notin places
    <3>1. Upto(k) = Upto(k - 1)
      BY <2>0, <2>7, Zenon
    <3> HIDE DEF Upto
    <3> QED BY <1>2, <1>3, <2>5, <3>1
  <2> QED BY <2>6, <2>7
<1>4. ASSUME NEW i \in 1..Cardinality(places)
      PROVE  Nth(places, i) \in places /\ Cardinality({j \in places : j <= Nth(places, i)}) = i
  BY <1>3, Zenon DEF Nth
<1> QED BY <1>1, <1>4

\* What is picked from a list is a list of its members, each place of it once.
LEMMA PickedIs ==
    ASSUME NEW list, NEW n \in Nat, NEW places, places \subseteq 1..n
    PROVE  LET p == Picked(list, places)
           IN  /\ IsList(p)
               /\ \A i \in DOMAIN p : \E k \in places : p[i] = list[k]
               /\ (\A k, l \in places : list[k] = list[l] => k = l) => IsInjective(p)
<1> DEFINE p == Picked(list, places)
           c == Cardinality(places)
<1>1. c \in Nat /\ p = [i \in 1..c |-> list[Nth(places, i)]]
  BY NthIs DEF Picked
<1>2. \A i \in 1..c : Nth(places, i) \in places /\ Cardinality({j \in places : j <= Nth(places, i)}) = i
  BY NthIs
<1> HIDE DEF p, c
<1>3. IsList(p) /\ DOMAIN p = 1..c
  BY <1>1, ListFromDomain
<1>4. \A i \in DOMAIN p : p[i] = list[Nth(places, i)]
  BY <1>1
<1>5. ASSUME \A k, l \in places : list[k] = list[l] => k = l,
             NEW a \in DOMAIN p, NEW b \in DOMAIN p, p[a] = p[b]
      PROVE  a = b
  <2>1. Nth(places, a) = Nth(places, b)
    BY <1>2, <1>3, <1>4, <1>5, Zenon
  <2>2. Cardinality({j \in places : j <= Nth(places, a)}) = a
    BY <1>2, <1>3, <1>5, Zenon
  <2>3. Cardinality({j \in places : j <= Nth(places, b)}) = b
    BY <1>2, <1>3, <1>5, Zenon
  <2> QED BY <2>1, <2>2, <2>3
<1>6. (\A k, l \in places : list[k] = list[l] => k = l) => IsInjective(p)
  BY <1>5, Zenon DEF IsInjective
<1>7. \A i \in DOMAIN p : \E k \in places : p[i] = list[k]
  BY <1>2, <1>3, <1>4, Zenon
<1> QED BY <1>3, <1>6, <1>7 DEF p

\* A list that is normalised has nothing twice, ...
LEMMA NormalisedIs ==
    ASSUME NEW order, IsList(order)
    PROVE  IsList(NormalisedOrder(order)) /\ IsInjective(NormalisedOrder(order))
<1> DEFINE places == {k \in DOMAIN order : \A j \in 1 .. k - 1 : order[j] # order[k]}
<1>1. Len(order) \in Nat /\ places \subseteq 1..Len(order) /\ places \subseteq DOMAIN order
  BY DEF IsList
<1>2. ASSUME NEW k \in places, NEW l \in places, order[k] = order[l] PROVE k = l
  <2>1. k \in Nat /\ l \in Nat /\ k >= 1 /\ l >= 1
    BY <1>1
  <2>2. ~(k < l) /\ ~(l < k)
    <3>1. ASSUME k < l PROVE FALSE
      BY <1>2, <2>1, <3>1
    <3>2. ASSUME l < k PROVE FALSE
      BY <1>2, <2>1, <3>2
    <3> QED BY <3>1, <3>2
  <2> QED BY <2>1, <2>2
<1>3. NormalisedOrder(order) = Picked(order, places)
  BY DEF NormalisedOrder
<1> HIDE DEF places
<1> QED BY <1>1, <1>2, <1>3, PickedIs

\* ... and one that has nothing twice is normalised.
LEMMA NormalisedKeeps ==
    ASSUME NEW order, IsList(order), IsInjective(order)
    PROVE  NormalisedOrder(order) = order
<1> DEFINE n == Len(order)
           places == {k \in DOMAIN order : \A j \in 1 .. k - 1 : order[j] # order[k]}
<1>1. n \in Nat /\ DOMAIN order = 1..n /\ order = [i \in 1..n |-> order[i]]
  BY DEF IsList
<1>2. places = 1..n
  <2>1. ASSUME NEW k \in 1..n PROVE \A j \in 1 .. k - 1 : order[j] # order[k]
    <3>1. \A j \in 1 .. k - 1 : j \in 1..n /\ j # k
      OBVIOUS
    <3> QED BY <1>1, <3>1 DEF IsInjective
  <2> QED BY <1>1, <2>1
<1>3. Cardinality(1..n) = n
  BY <1>1, FS_Interval
<1>4. ASSUME NEW i \in 1..n PROVE Nth(1..n, i) = i
  <2>1. Nth(1..n, i) \in 1..n /\ Cardinality({j \in 1..n : j <= Nth(1..n, i)}) = i
    BY <1>1, <1>3, NthIs
  <2>2. \A k \in 1..n : {j \in 1..n : j <= k} = 1..k
    BY <1>1
  <2>3. \A k \in 1..n : Cardinality(1..k) = k
    BY <1>1, FS_Interval
  <2> QED BY <2>1, <2>2, <2>3
<1>5. NormalisedOrder(order) = Picked(order, 1..n)
  BY <1>2 DEF NormalisedOrder
<1> HIDE DEF n, places
<1>6. Picked(order, 1..n) = [i \in 1..n |-> order[i]]
  BY <1>3, <1>4 DEF Picked
<1> QED BY <1>1, <1>5, <1>6

\* The first and the last of some places.
LEMMA MinIs ==
    ASSUME NEW S, S \subseteq Nat, S # {}
    PROVE  Min(S) \in S /\ \A x \in S : Min(S) <= x
<1>1. \E x \in S : \A y \in S : x <= y
  BY Least
<1> QED BY <1>1, Zenon DEF Min

LEMMA MaxIs ==
    ASSUME NEW n \in Nat, NEW S, S \subseteq 1..n, S # {}
    PROVE  Max(S) \in S
<1> DEFINE T == {k \in Nat : \A j \in S : j <= k}
<1>1. \A j \in S : j \in Nat /\ 1 <= j /\ j <= n
  OBVIOUS
<1>2. n \in T
  BY <1>1
<1>3. PICK k \in T : \A l \in T : k <= l
  BY <1>2, Least, Zenon
<1>4. k \in S
  <2> SUFFICES ASSUME k \notin S PROVE FALSE
    OBVIOUS
  <2>1. \A j \in S : j \in Nat /\ 1 <= j /\ j <= k /\ j # k
    BY <1>1, <1>3
  <2>2. k \in Nat /\ k >= 1
    <3>1. PICK j \in S : TRUE
      OBVIOUS
    <3> QED BY <1>3, <2>1, <3>1
  <2>4. k - 1 \in Nat
    BY <2>2
  <2>5. \A j \in S : j <= k - 1
    BY <2>1, <2>2
  <2>3. k - 1 \in T
    BY <2>4, <2>5
  <2>6. ~(k <= k - 1)
    BY <2>2
  <2> QED BY <1>3, <2>3, <2>6
<1>5. \E x \in S : \A y \in S : x >= y
  <2>1. \A y \in S : k >= y
    BY <1>1, <1>3
  <2> QED BY <1>4, <2>1
<1> QED BY <1>5, Zenon DEF Max

LEMMA ListsJoin ==
    ASSUME NEW a, NEW b, IsList(a), IsList(b)
    PROVE  IsList(a \o b)
<1> DEFINE T == ToSet(a) \cup ToSet(b)
<1>1. a \in Seq(T) /\ b \in Seq(T)
  BY DEF IsList
<1>2. a \o b \in Seq(T)
  BY <1>1
<1> QED BY <1>2, ListFromSeq

LEMMA OnlyIs ==
    ASSUME NEW list, IsList(list), NEW S
    PROVE  IsList(Only(list, S))
<1> DEFINE places == {k \in DOMAIN list : list[k] \in S}
<1>1. Len(list) \in Nat /\ places \subseteq 1..Len(list)
  BY DEF IsList
<1>2. Only(list, S) = Picked(list, places)
  BY DEF Only
<1> HIDE DEF places
<1> QED BY <1>1, <1>2, PickedIs

LEMMA OrderedIs ==
    ASSUME NEW s, IsList(s.order)
    PROVE  IsList(Ordered(s))
<1>1. IsList(Gateway)
  BY StoreAssumption, ListFromSeq DEF StoreAssumption
<1> QED BY <1>1, OnlyIs, ListsJoin DEF Ordered

LEMMA GroupReorderedIs ==
    ASSUME NEW s, IsList(s.order), NEW group, NEW wanted
    PROVE  IsList(GroupReordered(s, group, wanted))
<1> DEFINE o == GroupReordered(s, group, wanted)
<1>1. Len(Ordered(s)) \in Nat /\ DOMAIN Ordered(s) = 1..Len(Ordered(s))
  BY OrderedIs, ListFromSeq DEF IsList
<1>2. o = [i \in DOMAIN Ordered(s) |-> o[i]]
  BY DEF GroupReordered
<1> HIDE DEF o
<1>3. IsList(o)
  BY <1>1, <1>2, ListFromDomain
<1> QED BY <1>3 DEF o

LEMMA MovedIs ==
    ASSUME NEW s, NEW order, IsList(order), NEW c
    PROVE  IsList(MovedBehindItsGroup(s, order, c))
<1> DEFINE rest == Only(order, ToSet(order) \ {c})
           group == {i \in DOMAIN rest : ProfileNow(s, rest[i]) = ProfileNow(s, c)}
           at == IF group = {} THEN Len(rest) ELSE Max(group)
<1>1. IsList(rest)
  BY OnlyIs
<1>2. MovedBehindItsGroup(s, order, c) = SubSeq(rest, 1, at) \o <<c>> \o SubSeq(rest, at + 1, Len(rest))
  BY DEF MovedBehindItsGroup
<1>3. group \subseteq DOMAIN rest
  OBVIOUS
<1> HIDE DEF rest, group
<1>4. Len(rest) \in Nat /\ DOMAIN rest = 1..Len(rest)
  BY <1>1 DEF IsList
<1>5. at \in 0..Len(rest)
  BY <1>3, <1>4, MaxIs
<1> HIDE DEF at
<1>6. IsList(SubSeq(rest, 1, at)) /\ IsList(SubSeq(rest, at + 1, Len(rest)))
  <2>1. SubSeq(rest, 1, at) \in Seq(ToSet(rest))
    BY <1>1, <1>4, <1>5 DEF IsList
  <2>2. SubSeq(rest, at + 1, Len(rest)) \in Seq(ToSet(rest))
    BY <1>1, <1>4, <1>5 DEF IsList
  <2> QED BY <2>1, <2>2, ListFromSeq
<1>7. IsList(<<c>>)
  <2>1. <<c>> \in Seq({c})
    OBVIOUS
  <2> QED BY <2>1, ListFromSeq
<1> QED BY <1>2, <1>6, <1>7, ListsJoin

\* The covers are moved one after the other, and every time there is a list.
MovedUpTo(s, moved, n, f) ==
    f = [i \in 0..n |-> IF i = 0 THEN Ordered(s) ELSE MovedBehindItsGroup(s, f[i - 1], moved[i])]

LEMMA MovedUpToExists ==
    ASSUME NEW s, NEW moved, NEW m \in Nat
    PROVE  \A n \in 0..m : \E f : MovedUpTo(s, moved, n, f)
<1> DEFINE T == {n \in Nat : ~ \E f : MovedUpTo(s, moved, n, f)}
<1> SUFFICES ASSUME T # {} PROVE FALSE
  OBVIOUS
<1>1. PICK n \in T : \A l \in T : n <= l
  BY Least
<1>2. n \in Nat /\ ~ \E f : MovedUpTo(s, moved, n, f)
  BY <1>1
<1>3. n # 0
  <2>1. MovedUpTo(s, moved, 0, [i \in 0..0 |-> Ordered(s)])
    BY DEF MovedUpTo
  <2> QED BY <1>2, <2>1
<1>4. n - 1 \in Nat /\ n - 1 \notin T
  <2>1. n - 1 \in Nat /\ ~(n <= n - 1)
    BY <1>2, <1>3
  <2> HIDE DEF T
  <2> QED BY <1>1, <2>1
<1>5. PICK f : MovedUpTo(s, moved, n - 1, f)
  BY <1>4
<1> DEFINE g == [i \in 0..n |-> IF i < n THEN f[i]
                               ELSE MovedBehindItsGroup(s, f[n - 1], moved[n])]
<1>6. \A i \in 0..n - 1 : f[i] = IF i = 0 THEN Ordered(s) ELSE MovedBehindItsGroup(s, f[i - 1], moved[i])
  BY <1>5 DEF MovedUpTo
<1>7. ASSUME NEW i \in 0..n
      PROVE  g[i] = IF i = 0 THEN Ordered(s) ELSE MovedBehindItsGroup(s, g[i - 1], moved[i])
  <2>1. CASE i = 0
    BY <1>2, <1>3, <1>6, <2>1
  <2>2. CASE i # 0 /\ i < n
    <3>1. i \in 0..n - 1 /\ i - 1 \in 0..n - 1 /\ i - 1 \in 0..n /\ i - 1 < n
      BY <1>2, <2>2
    <3>2. g[i] = f[i] /\ g[i - 1] = f[i - 1]
      BY <2>2, <3>1
    <3> HIDE DEF g
    <3> QED BY <1>6, <2>2, <3>1, <3>2
  <2>3. CASE i = n
    <3>1. n - 1 \in 0..n /\ n - 1 < n /\ ~(n < n)
      BY <1>2, <1>3
    <3>2. g[n - 1] = f[n - 1] /\ g[n] = MovedBehindItsGroup(s, f[n - 1], moved[n])
      BY <2>3, <3>1
    <3> HIDE DEF g
    <3> QED BY <1>3, <2>3, <3>2
  <2> QED BY <1>2, <2>1, <2>2, <2>3
<1>8. g = [i \in 0..n |-> g[i]]
  OBVIOUS
<1> HIDE DEF g
<1>9. MovedUpTo(s, moved, n, g)
  BY <1>7, <1>8 DEF MovedUpTo
<1> QED BY <1>2, <1>9

LEMMA AppendedIs ==
    ASSUME NEW s, IsList(s.order), NEW moved, IsList(moved)
    PROVE  IsList(AppendedToTheirGroups(s, moved))
<1> DEFINE after == CHOOSE f : MovedUpTo(s, moved, Len(moved), f)
           T == {i \in Nat : i <= Len(moved) /\ ~IsList(after[i])}
<1>1. Len(moved) \in Nat
  BY DEF IsList
<1>2. MovedUpTo(s, moved, Len(moved), after)
  <2>1. Len(moved) \in 0..Len(moved)
    BY <1>1
  <2>2. \E f : MovedUpTo(s, moved, Len(moved), f)
    BY <1>1, <2>1, MovedUpToExists
  <2> QED BY <2>2, Zenon
<1>3. AppendedToTheirGroups(s, moved) = after[Len(moved)]
  BY DEF AppendedToTheirGroups, MovedUpTo
<1> HIDE DEF after
<1>4. \A i \in 0..Len(moved) :
        after[i] = IF i = 0 THEN Ordered(s) ELSE MovedBehindItsGroup(s, after[i - 1], moved[i])
  BY <1>2 DEF MovedUpTo
<1>5. CASE T = {}
  BY <1>1, <1>3, <1>5
<1>6. CASE T # {}
  <2>1. PICK i \in T : \A l \in T : i <= l
    BY <1>6, Least
  <2>2. i \in Nat /\ i <= Len(moved) /\ ~IsList(after[i]) /\ i \in 0..Len(moved)
    BY <1>1, <2>1
  <2>3. i # 0
    <3>1. IsList(Ordered(s))
      BY OrderedIs
    <3> QED BY <1>4, <2>2, <3>1
  <2>4. i - 1 \in Nat /\ i - 1 <= Len(moved) /\ ~(i <= i - 1)
    BY <1>1, <2>2, <2>3
  <2>5. IsList(after[i - 1])
    BY <2>1, <2>4
  <2>6. after[i] = MovedBehindItsGroup(s, after[i - 1], moved[i])
    BY <1>4, <2>2, <2>3
  <2> QED BY <2>2, <2>5, <2>6, MovedIs
<1> QED BY <1>5, <1>6

--------------------------------------------------------------------------
(* Stores, and what a step makes of one *)

\* A record that is kept.
Said(r) == r \in Records /\ SaysAnything(r)

\* A store nothing is wrong with: no record says nothing, no cover is in the order twice.
StoreOK(s) ==
    /\ s = [profiles |-> s.profiles, covers |-> s.covers, order |-> s.order]
    /\ s.profiles \in [Names -> Numbers \cup {None}]
    /\ s.covers = [c \in Covers |-> s.covers[c]]
    /\ \A c \in Covers : s.covers[c] = None \/ Said(s.covers[c])
    /\ IsList(s.order) /\ IsInjective(s.order)

\* What an undo may hold, ...
DiffOK(d) ==
    /\ d.profiles \in [Names -> Numbers \cup {None, Kept}]
    /\ \A c \in Covers : d.covers[c] \in {None, Kept} \/ Said(d.covers[c])
    /\ d.order = <<>> \/ IsList(d.order[1])

\* ... and a step of a command.
Items == [profile : Names \cup {None}, height : Numbers \cup {None}]
StepOK(step) ==
    \/ step.op = "profile" /\ step.name \in Names /\ step.numbers \in Numbers
    \/ step.op = "remove" /\ step.name \in Names
    \/ step.op = "record" /\ step.cover \in Covers /\ (step.record = None \/ Said(step.record))
    \/ step.op = "assign" /\ \A c \in Covers : step.items[c] = Kept \/ step.items[c] \in Items
    \/ step.op = "order" /\ IsList(step.order)
    \/ step.op = "append" /\ IsList(step.rows)
    \/ step.op = "restore" /\ DiffOK(step.diff)

LEMMA KeptIs ==
    ASSUME NEW r \in Records
    PROVE  KeptRecord(r) = None \/ Said(KeptRecord(r))
BY DEF KeptRecord, Said

\* The record of a cover is one, and is never the lack of one.
LEMMA RecordIs ==
    ASSUME NEW s, StoreOK(s), NEW c \in Covers
    PROVE  /\ Record(s, c) \in Records
           /\ Record(s, c).profile \in Names => s.covers[c] \in Records /\ s.covers[c] = Record(s, c)
<1>1. None \notin Names
  BY StoreAssumption DEF StoreAssumption
<1>2. NoRecord \in Records /\ NoRecord.profile = None
  BY DEF NoRecord, Records
<1> QED BY <1>1, <1>2, Zenon DEF StoreOK, Record, Said

\* A store whose order is another list, or whose records are others.
LEMMA StoreWithOrder ==
    ASSUME NEW s, StoreOK(s), NEW order, IsList(order)
    PROVE  StoreOK(SetOrder(s, order))
<1> DEFINE o == NormalisedOrder(order)
           t == [s EXCEPT !.order = o]
<1>1. IsList(o) /\ IsInjective(o)
  BY NormalisedIs
<1> HIDE DEF o
<1>2. s = [profiles |-> s.profiles, covers |-> s.covers, order |-> s.order]
  BY DEF StoreOK
<1>3. t.profiles = s.profiles /\ t.covers = s.covers /\ t.order = o
      /\ t = [profiles |-> t.profiles, covers |-> t.covers, order |-> t.order]
  BY <1>2
<1>4. SetOrder(s, order) = t
  BY DEF SetOrder, o
<1> HIDE DEF t
<1> QED BY <1>1, <1>3, <1>4, Zenon DEF StoreOK

LEMMA StoreWithRecords ==
    ASSUME NEW s, StoreOK(s), NEW f, f = [c \in Covers |-> f[c]],
           \A c \in Covers : f[c] = None \/ Said(f[c]),
           NEW p \in [Names -> Numbers \cup {None}],
           NEW t, t = [profiles |-> p, covers |-> f, order |-> s.order]
    PROVE  StoreOK(t)
<1>1. t.profiles = p /\ t.covers = f /\ t.order = s.order
  OBVIOUS
<1> QED BY <1>1, Zenon DEF StoreOK

LEMMA WithoutIt ==
    ASSUME NEW s, StoreOK(s), NEW n \in Names, NEW f
    PROVE  [s EXCEPT !.profiles[n] = None, !.covers = f]
              = [profiles |-> [s.profiles EXCEPT ![n] = None], covers |-> f, order |-> s.order]
<1> DEFINE t == [s EXCEPT !.profiles[n] = None, !.covers = f]
<1>1. s.profiles \in [Names -> Numbers \cup {None}]
      /\ s = [profiles |-> s.profiles, covers |-> s.covers, order |-> s.order]
  BY DEF StoreOK
<1>2. /\ DOMAIN t = {"profiles", "covers", "order"} /\ t = [x \in DOMAIN t |-> t[x]]
      /\ t.profiles = [s.profiles EXCEPT ![n] = None] /\ t.covers = f /\ t.order = s.order
  BY <1>1
<1> HIDE DEF t
<1>3. t = [profiles |-> t.profiles, covers |-> t.covers, order |-> t.order]
  BY <1>2
<1> QED BY <1>2, <1>3 DEF t

LEMMA RemoveOK ==
    ASSUME NEW s, StoreOK(s), NEW n \in Names
    PROVE  StoreOK(RemoveProfile(s, n))
<1> DEFINE f == [c \in Covers |-> IF c \in CoversFollowing(s, n)
                THEN KeptRecord([s.covers[c] EXCEPT !.profile = None, !.wins = FALSE])
                ELSE s.covers[c]]
           p == [s.profiles EXCEPT ![n] = None]
           t == [s EXCEPT !.profiles[n] = None, !.covers = f]
<1>1. s.profiles \in [Names -> Numbers \cup {None}]
      /\ s = [profiles |-> s.profiles, covers |-> s.covers, order |-> s.order]
  BY DEF StoreOK
<1>2. RemoveProfile(s, n) = IF s.profiles[n] = None THEN s ELSE t
  BY DEF RemoveProfile
<1>3. ASSUME NEW c \in Covers PROVE f[c] = None \/ Said(f[c])
  <2>1. CASE c \in CoversFollowing(s, n)
    <3>1. s.covers[c] \in Records
      BY <2>1, RecordIs DEF CoversFollowing
    <3>2. [s.covers[c] EXCEPT !.profile = None, !.wins = FALSE] \in Records
      BY <3>1 DEF Records
    <3>3. f[c] = KeptRecord([s.covers[c] EXCEPT !.profile = None, !.wins = FALSE])
      BY <2>1
    <3> QED BY <3>2, <3>3, KeptIs
  <2>2. CASE c \notin CoversFollowing(s, n)
    BY <2>2 DEF StoreOK
  <2> QED BY <2>1, <2>2
<1>4. f = [c \in Covers |-> f[c]]
  OBVIOUS
<1> HIDE DEF f
<1>5. p \in [Names -> Numbers \cup {None}]
  BY <1>1
<1>6. t = [profiles |-> p, covers |-> f, order |-> s.order]
  BY WithoutIt, Zenon
<1> HIDE DEF p, t
<1> QED BY <1>2, <1>3, <1>4, <1>5, <1>6, StoreWithRecords

LEMMA AssignOK ==
    ASSUME NEW s, StoreOK(s), NEW items, \A c \in Covers : items[c] = Kept \/ items[c] \in Items
    PROVE  StoreOK(SetAssignments(s, items))
<1> DEFINE f == [c \in Covers |->
        IF items[c] = Kept \/ Assigned(Record(s, c), items[c]) = Record(s, c)
        THEN s.covers[c]
        ELSE KeptRecord(Assigned(Record(s, c), items[c]))]
           t == [s EXCEPT !.covers = f]
<1>1. s.profiles \in [Names -> Numbers \cup {None}]
      /\ s = [profiles |-> s.profiles, covers |-> s.covers, order |-> s.order]
  BY DEF StoreOK
<1>2. SetAssignments(s, items) = t
  BY DEF SetAssignments
<1>3. ASSUME NEW c \in Covers PROVE f[c] = None \/ Said(f[c])
  <2>1. CASE items[c] = Kept \/ Assigned(Record(s, c), items[c]) = Record(s, c)
    BY <2>1 DEF StoreOK
  <2>2. CASE ~(items[c] = Kept \/ Assigned(Record(s, c), items[c]) = Record(s, c))
    <3>1. items[c] \in Items /\ Record(s, c) \in Records
      BY <2>2, RecordIs
    <3>2. Assigned(Record(s, c), items[c]) \in Records
      BY <3>1 DEF Assigned, Records, Items
    <3>3. f[c] = KeptRecord(Assigned(Record(s, c), items[c]))
      BY <2>2
    <3> QED BY <3>2, <3>3, KeptIs
  <2> QED BY <2>1, <2>2
<1>4. f = [c \in Covers |-> f[c]]
  OBVIOUS
<1> HIDE DEF f
<1>6. t = [profiles |-> s.profiles, covers |-> f, order |-> s.order]
  BY <1>1
<1> HIDE DEF t
<1> QED BY <1>1, <1>2, <1>3, <1>4, <1>6, StoreWithRecords

LEMMA RestoreOK ==
    ASSUME NEW s, StoreOK(s), NEW d, DiffOK(d)
    PROVE  StoreOK(Restore(s, d))
<1> DEFINE p == [n \in Names |-> IF d.profiles[n] = Kept THEN s.profiles[n] ELSE d.profiles[n]]
           f == [c \in Covers |-> IF d.covers[c] = Kept THEN s.covers[c] ELSE d.covers[c]]
           o == IF d.order = <<>> THEN s.order ELSE NormalisedOrder(d.order[1])
           t == Restore(s, d)
<1>1. t = [profiles |-> p, covers |-> f, order |-> o]
  BY DEF Restore
<1>2. t.profiles = p /\ t.covers = f /\ t.order = o
  BY <1>1
<1>3. p \in [Names -> Numbers \cup {None}]
  BY DEF StoreOK, DiffOK
<1>4. f = [c \in Covers |-> f[c]]
  OBVIOUS
<1>5. \A c \in Covers : f[c] = None \/ Said(f[c])
  BY DEF StoreOK, DiffOK
<1>6. IsList(o) /\ IsInjective(o)
  BY NormalisedIs DEF StoreOK, DiffOK
<1> HIDE DEF p, f, o, t
<1>7. StoreOK(t)
  BY <1>1, <1>2, <1>3, <1>4, <1>5, <1>6, Zenon DEF StoreOK
<1> QED BY <1>7 DEF t

\* Whatever a step does, it leaves such a store.
LEMMA ApplyOK ==
    ASSUME NEW s, StoreOK(s), NEW step, StepOK(step)
    PROVE  StoreOK(Apply(s, step))
<1>0. s.profiles \in [Names -> Numbers \cup {None}]
      /\ s = [profiles |-> s.profiles, covers |-> s.covers, order |-> s.order]
      /\ s.covers = [c \in Covers |-> s.covers[c]]
      /\ (\A c \in Covers : s.covers[c] = None \/ Said(s.covers[c]))
      /\ IsList(s.order)
  BY DEF StoreOK
<1>1. CASE step.op = "profile" /\ step.name \in Names /\ step.numbers \in Numbers
  <2> DEFINE p == [s.profiles EXCEPT ![step.name] = step.numbers]
             t == [s EXCEPT !.profiles[step.name] = step.numbers]
  <2>1. Apply(s, step) = t
    BY <1>1 DEF Apply, SetProfile
  <2>2. p \in [Names -> Numbers \cup {None}]
    BY <1>0, <1>1
  <2>3. t = [profiles |-> p, covers |-> s.covers, order |-> s.order]
    BY <1>0
  <2> HIDE DEF p, t
  <2> QED BY <1>0, <2>1, <2>2, <2>3, StoreWithRecords
<1>2. CASE step.op = "remove" /\ step.name \in Names
  BY <1>2, RemoveOK DEF Apply
<1>3. CASE step.op = "record" /\ step.cover \in Covers /\ (step.record = None \/ Said(step.record))
  <2> DEFINE f == [s.covers EXCEPT ![step.cover] = step.record]
             t == [s EXCEPT !.covers[step.cover] = step.record]
  <2>1. Apply(s, step) = t
    BY <1>3 DEF Apply, SetCalibration
  <2>2. f = [c \in Covers |-> f[c]] /\ \A c \in Covers : f[c] = None \/ Said(f[c])
    BY <1>0, <1>3
  <2>3. t = [profiles |-> s.profiles, covers |-> f, order |-> s.order]
    BY <1>0
  <2> HIDE DEF f, t
  <2> QED BY <1>0, <2>1, <2>2, <2>3, StoreWithRecords
<1>4. CASE step.op = "assign" /\ \A c \in Covers : step.items[c] = Kept \/ step.items[c] \in Items
  BY <1>4, AssignOK DEF Apply
<1>5. CASE step.op = "order" /\ IsList(step.order)
  BY <1>5, StoreWithOrder DEF Apply
<1>6. CASE step.op = "append" /\ IsList(step.rows)
  <2> DEFINE moved == Only(step.rows, {c \in Covers : Record(step.before, c).profile # Record(s, c).profile})
  <2>1. Apply(s, step) = IF moved = <<>> THEN s ELSE SetOrder(s, AppendedToTheirGroups(s, moved))
    BY <1>6 DEF Apply
  <2>2. IsList(moved)
    BY <1>6, OnlyIs
  <2> HIDE DEF moved
  <2>3. IsList(AppendedToTheirGroups(s, moved))
    BY <1>0, <2>2, AppendedIs, Zenon
  <2> QED BY <2>1, <2>3, StoreWithOrder
<1>7. CASE step.op = "restore" /\ DiffOK(step.diff)
  BY <1>7, RestoreOK DEF Apply
<1> QED BY <1>1, <1>2, <1>3, <1>4, <1>5, <1>6, <1>7 DEF StepOK

--------------------------------------------------------------------------
(* An undo takes back the whole of a command, and nothing else *)

\* What is remembered of two stores is enough to make the first of the second.
LEMMA DiffIs ==
    ASSUME NEW before, StoreOK(before), NEW after, StoreOK(after)
    PROVE  DiffOK(Diff(before, after)) /\ Restore(after, Diff(before, after)) = before
<1> DEFINE d == Diff(before, after)
           p == [n \in Names |-> IF before.profiles[n] = after.profiles[n] THEN Kept ELSE before.profiles[n]]
           f == [c \in Covers |-> IF before.covers[c] = after.covers[c] THEN Kept ELSE before.covers[c]]
           o == IF before.order = after.order THEN <<>> ELSE <<before.order>>
<1>1. d.profiles = p /\ d.covers = f /\ d.order = o
  BY DEF Diff
<1>2. Kept \notin Numbers \cup {None} /\ \A c \in Covers : before.covers[c] # Kept
  BY StoreAssumption DEF StoreAssumption, StoreOK, Said
<1>3. /\ before = [profiles |-> before.profiles, covers |-> before.covers, order |-> before.order]
      /\ before.profiles \in [Names -> Numbers \cup {None}]
      /\ before.covers = [c \in Covers |-> before.covers[c]]
      /\ NormalisedOrder(before.order) = before.order
  BY NormalisedKeeps DEF StoreOK
<1>4. DiffOK(d)
  <2>1. p \in [Names -> Numbers \cup {None, Kept}]
    BY <1>3
  <2>2. \A c \in Covers : f[c] \in {None, Kept} \/ Said(f[c])
    BY DEF StoreOK
  <2>3. o = <<>> \/ IsList(o[1])
    BY DEF StoreOK
  <2> QED BY <1>1, <2>1, <2>2, <2>3, Zenon DEF DiffOK
<1>5. [n \in Names |-> IF d.profiles[n] = Kept THEN after.profiles[n] ELSE d.profiles[n]] = before.profiles
  <2>1. \A n \in Names : (IF p[n] = Kept THEN after.profiles[n] ELSE p[n]) = before.profiles[n]
    BY <1>2, <1>3
  <2> QED BY <1>1, <1>3, <2>1
<1>6. [c \in Covers |-> IF d.covers[c] = Kept THEN after.covers[c] ELSE d.covers[c]] = before.covers
  <2>1. \A c \in Covers : (IF f[c] = Kept THEN after.covers[c] ELSE f[c]) = before.covers[c]
    BY <1>2
  <2> QED BY <1>1, <1>3, <2>1
<1>7. (IF d.order = <<>> THEN after.order ELSE NormalisedOrder(d.order[1])) = before.order
  BY <1>1, <1>3
<1> HIDE DEF d, p, f, o
<1>8. Restore(after, d) = before
  BY <1>3, <1>5, <1>6, <1>7, Zenon DEF Restore
<1> QED BY <1>4, <1>8 DEF d

--------------------------------------------------------------------------
(* What the commands write *)

WritesOK(steps) == IsList(steps) /\ \A i \in DOMAIN steps : StepOK(steps[i])

\* A step that makes some cover follow the profile p.
Repoints(step, p) ==
    \/ step.op = "record" /\ step.record # None /\ step.record.profile = p
    \/ step.op = "assign" /\ \E c \in Covers : step.items[c] # Kept /\ step.items[c].profile = p

\* Every profile that is followed is there by then, and one goes only in the end.
Fit(s, steps) == \A i \in DOMAIN steps :
    /\ \A p : Repoints(steps[i], p) =>
          p \in Defined(s) \cup {None} \/ \E k \in 1 .. i - 1 : steps[k].op = "profile" /\ steps[k].name = p
    /\ steps[i].op = "remove" => i = Len(steps)
    /\ steps[i].op = "restore" => Len(steps) = 1 /\ Followed(Restore(s, steps[i].diff))

\* What a command is planned on, and the plan.
Given == Followed(Live) /\ (undo # None /\ ~lost => Followed(Restore(Live, undo.diff)))
Planned(steps, stale) == WritesOK(steps) /\ (Given /\ ~stale => Fit(Live, steps))

\* A step that may stand alone.
StepFits(step) == \A p : Repoints(step, p) => p \in Defined(Live) \cup {None}

LEMMA OneStep ==
    ASSUME NEW step, StepOK(step), NEW stale, Given /\ ~stale => StepFits(step),
           Given /\ ~stale /\ step.op = "restore" => Followed(Restore(Live, step.diff))
    PROVE  Planned(<<step>>, stale)
<1> DEFINE steps == <<step>>
<1>1. steps \in Seq({step}) /\ Len(steps) = 1 /\ DOMAIN steps = {1} /\ steps[1] = step
  OBVIOUS
<1> HIDE DEF steps
<1>2. WritesOK(steps)
  BY <1>1, ListFromSeq DEF WritesOK
<1>3. ASSUME Given, ~stale PROVE Fit(Live, steps)
  BY <1>1, <1>3, Zenon DEF Fit, StepFits
<1>4. Planned(steps, stale)
  BY <1>2, <1>3, Zenon DEF Planned
<1> QED BY <1>4 DEF steps

LEMMA TwoSteps ==
    ASSUME NEW a, StepOK(a), NEW b, StepOK(b), NEW stale,
           Given /\ ~stale => StepFits(a),
           Given /\ ~stale => StepFits(b) \/ (a.op = "profile" /\ \A p : Repoints(b, p) => a.name = p),
           a.op \notin {"remove", "restore"}, b.op # "restore"
    PROVE  Planned(<<a, b>>, stale)
<1> DEFINE steps == <<a, b>>
<1>1. steps \in Seq({a, b}) /\ Len(steps) = 2 /\ DOMAIN steps = {1, 2} /\ steps[1] = a /\ steps[2] = b
  OBVIOUS
<1> HIDE DEF steps
<1>2. WritesOK(steps)
  BY <1>1, ListFromSeq DEF WritesOK
<1>3. ASSUME Given, ~stale PROVE Fit(Live, steps)
  <2>1. 1 \in 1 .. 2 - 1
    OBVIOUS
  <2> QED BY <1>1, <1>3, <2>1, Zenon DEF Fit, StepFits
<1>4. Planned(steps, stale)
  BY <1>2, <1>3, Zenon DEF Planned
<1> QED BY <1>4 DEF steps

\* One record, as a command rewrites it or a measurement leaves it.
LEMMA RecordStepIs ==
    ASSUME NEW c \in Covers, NEW r, r = None \/ Said(r),
           NEW step, step = [op |-> "record", cover |-> c, record |-> r]
    PROVE  /\ StepOK(step) /\ step.op = "record"
           /\ \A p : Repoints(step, p) => r # None /\ r.profile = p
<1>1. step.op = "record" /\ step.cover = c /\ step.record = r
  OBVIOUS
<1>2. \A p : Repoints(step, p) => r # None /\ r.profile = p
  BY <1>1 DEF Repoints
<1> QED BY <1>1, <1>2, Zenon DEF StepOK

LEMMA RewrittenIs ==
    ASSUME StoreOK(Live), NEW c \in Covers,
           NEW height \in Numbers \cup {None}, NEW own \in Numbers \cup {None}, NEW stale
    PROVE  Planned(<<RecordStep(c, height, own)>>, stale)
<1> DEFINE q == [Record(Live, c) EXCEPT !.height = height, !.own = own]
           r == KeptRecord(q)
           step == RecordStep(c, height, own)
<1>1. q \in Records /\ q.profile = Record(Live, c).profile
  <2>1. Record(Live, c) \in Records
    BY RecordIs
  <2> QED BY <2>1 DEF Records
<1>2. step = [op |-> "record", cover |-> c, record |-> KeptRecord(q)]
  BY DEF RecordStep
<1> HIDE DEF q, step
<1>3. (r = None \/ Said(r)) /\ (r = None \/ r = q)
  BY <1>1, KeptIs DEF KeptRecord
<1> HIDE DEF r
<1>4. /\ StepOK(step) /\ step.op = "record"
      /\ \A p : Repoints(step, p) => r # None /\ r.profile = p
  BY <1>2, <1>3, RecordStepIs DEF r
<1>5. Given => StepFits(step)
  BY <1>1, <1>3, <1>4, Zenon DEF Given, Followed, StepFits
<1>6. Planned(<<step>>, stale)
  BY <1>4, <1>5, OneStep
<1> QED BY <1>6 DEF step

LEMMA OrderStepIs ==
    ASSUME NEW o, IsList(o), NEW step, step = [op |-> "order", order |-> o]
    PROVE  StepOK(step) /\ step.op = "order" /\ StepFits(step)
<1>1. step.op = "order" /\ step.order = o
  OBVIOUS
<1>2. StepFits(step)
  BY <1>1 DEF Repoints, StepFits
<1> QED BY <1>1, <1>2, Zenon DEF StepOK

LEMMA ProfileStepIs ==
    ASSUME NEW n \in Names, NEW numbers \in Numbers
    PROVE  LET step == ProfileStep(n, numbers)
           IN  StepOK(step) /\ step.op = "profile" /\ step.name = n /\ StepFits(step)
<1> DEFINE step == ProfileStep(n, numbers)
<1>1. step.op = "profile" /\ step.name = n /\ step.numbers = numbers
  BY DEF ProfileStep
<1> HIDE DEF step
<1>2. StepFits(step)
  BY <1>1 DEF Repoints, StepFits
<1>3. StepOK(step)
  BY <1>1, Zenon DEF StepOK
<1> QED BY <1>1, <1>2, <1>3 DEF step

LEMMA RemoveStepIs ==
    ASSUME NEW n \in Names, NEW step, step = [op |-> "remove", name |-> n]
    PROVE  StepOK(step) /\ step.op = "remove" /\ StepFits(step)
<1>1. step.op = "remove" /\ step.name = n
  OBVIOUS
<1>2. StepFits(step)
  BY <1>1 DEF Repoints, StepFits
<1> QED BY <1>1, <1>2, Zenon DEF StepOK

LEMMA ForgetStepIs ==
    ASSUME NEW c \in Covers, NEW stale
    PROVE  Planned(<<ForgetStep(c)>>, stale)
<1> DEFINE step == ForgetStep(c)
<1>1. step = [op |-> "record", cover |-> c, record |-> None]
  BY DEF ForgetStep
<1> HIDE DEF step
<1>2. StepOK(step) /\ step.op = "record" /\ StepFits(step)
  BY <1>1, RecordStepIs DEF StepFits
<1>3. Planned(<<step>>, stale)
  BY <1>2, OneStep
<1> QED BY <1>3 DEF step

LEMMA AssignStepIs ==
    ASSUME NEW items, \A c \in Covers : items[c] = Kept \/ items[c] \in Items,
           NEW step, step = [op |-> "assign", items |-> items]
    PROVE  /\ StepOK(step) /\ step.op = "assign"
           /\ \A p : Repoints(step, p) => \E c \in Covers : items[c] # Kept /\ items[c].profile = p
<1>1. step.op = "assign" /\ step.items = items
  OBVIOUS
<1>2. \A p : Repoints(step, p) => \E c \in Covers : items[c] # Kept /\ items[c].profile = p
  BY <1>1 DEF Repoints
<1> QED BY <1>1, <1>2, Zenon DEF StepOK

\* The batch: every item of it is one that can be written.
LEMMA BatchIs ==
    ASSUME NEW batch \in Batches, NEW height \in Numbers \cup {None}, NEW c \in Covers,
           \A i \in DOMAIN batch : ~Problem(batch[i], height)
    PROVE  LET item == ItemsOf(batch, height)[c]
           IN  item = Kept \/ (item \in Items /\ item.profile \in Defined(Live) \cup {None})
<1>1. batch \in Seq([cover : Covers, profile : Names \cup {None}])
  BY PanelAssumption DEF PanelAssumption
<1> DEFINE k == CHOOSE i \in DOMAIN batch : batch[i].cover = c
           item == ItemsOf(batch, height)[c]
<1>2. CASE \E i \in DOMAIN batch : batch[i].cover = c
  <2>1. k \in DOMAIN batch
    BY <1>2, Zenon
  <2>2. item = [profile |-> batch[k].profile, height |-> height]
    BY <1>2 DEF ItemsOf
  <2> HIDE DEF k, item
  <2>3. batch[k].profile \in Names \cup {None}
    <3> DEFINE Item == [cover : Covers, profile : Names \cup {None}]
    <3>1. (\A x \in Item : x.profile \in Names \cup {None}) /\ batch \in Seq(Item)
      BY <1>1
    <3> HIDE DEF Item
    <3>2. batch[k] \in Item
      BY <2>1, <3>1
    <3> QED BY <3>1, <3>2
  <2>4. batch[k].profile \in Defined(Live) \cup {None}
    BY <1>1, <2>1, Zenon DEF Problem
  <2>5. item \in Items /\ item.profile = batch[k].profile
    BY <2>2, <2>3 DEF Items
  <2> QED BY <2>4, <2>5 DEF item
<1>3. CASE ~ \E i \in DOMAIN batch : batch[i].cover = c
  BY <1>3 DEF ItemsOf
<1> QED BY <1>2, <1>3

LEMMA AssignIs ==
    ASSUME NEW batch \in Batches, NEW height \in Numbers \cup {None}, NEW order \in Drags \cup {None},
           Assign(batch, height, order)
    PROVE  \E steps : PanelCommand(steps) /\ Planned(steps, FALSE)
<1> DEFINE a == [op |-> "assign", items |-> ItemsOf(batch, height)]
           rows == [i \in DOMAIN batch |-> batch[i].cover]
           b == IF order # None THEN [op |-> "order", order |-> order]
                ELSE [op |-> "append", before |-> Live, rows |-> rows]
<1>1. PanelCommand(<<a, b>>) /\ \A i \in DOMAIN batch : ~Problem(batch[i], height)
  BY Zenon DEF Assign
<1>2. \A c \in Covers : LET item == ItemsOf(batch, height)[c]
                        IN  item = Kept \/ (item \in Items /\ item.profile \in Defined(Live) \cup {None})
  BY <1>1, BatchIs, Zenon
<1>3. StepOK(a) /\ a.op = "assign" /\ StepFits(a)
  <2> DEFINE items == ItemsOf(batch, height)
  <2>1. \A c \in Covers : items[c] = Kept \/ (items[c] \in Items /\ items[c].profile \in Defined(Live) \cup {None})
    BY <1>2
  <2>2. a = [op |-> "assign", items |-> items]
    OBVIOUS
  <2> HIDE DEF items, a
  <2>3. /\ StepOK(a) /\ a.op = "assign"
        /\ \A p : Repoints(a, p) => \E c \in Covers : items[c] # Kept /\ items[c].profile = p
    <3>1. \A c \in Covers : items[c] = Kept \/ items[c] \in Items
      BY <2>1, Zenon
    <3> QED BY <2>2, <3>1, AssignStepIs
  <2> QED BY <2>1, <2>3, Zenon DEF StepFits
<1>4. StepOK(b) /\ b.op # "restore" /\ StepFits(b)
  <2>1. batch \in Seq([cover : Covers, profile : Names \cup {None}]) /\ Drags \subseteq Seq(Covers)
    BY PanelAssumption DEF PanelAssumption
  <2>2. CASE order # None
    <3>1. IsList(order)
      BY <2>1, <2>2, ListFromSeq
    <3>2. b = [op |-> "order", order |-> order]
      BY <2>2
    <3> HIDE DEF b
    <3> QED BY <3>1, <3>2, OrderStepIs
  <2>3. CASE order = None
    <3>1. b.op = "append" /\ b.rows = rows
      BY <2>3
    <3>2. IsList(rows)
      <4>1. Len(batch) \in Nat /\ DOMAIN batch = 1..Len(batch)
        BY <2>1
      <4>2. rows = [i \in 1..Len(batch) |-> rows[i]]
        BY <4>1
      <4> HIDE DEF rows
      <4> QED BY <4>1, <4>2, ListFromDomain
    <3> HIDE DEF b, rows
    <3>3. StepFits(b)
      BY <3>1 DEF Repoints, StepFits
    <3> QED BY <3>1, <3>2, <3>3 DEF StepOK
  <2> QED BY <2>2, <2>3
<1>5. a.op \notin {"remove", "restore"}
  BY <1>3
<1> HIDE DEF a, b
<1>6. Planned(<<a, b>>, FALSE)
  BY <1>3, <1>4, <1>5, TwoSteps
<1> QED BY <1>1, <1>6, Zenon

\* The new name, its followers, and only then the old one goes.
LEMMA RenameIs ==
    ASSUME StoreOK(Live), NEW n \in Names, NEW new \in Names, StoredProfile(n)
    PROVE  Planned(RenameSteps(n, new), FALSE)
<1> DEFINE items == [c \in Covers |-> IF c \in CoversFollowing(Live, n)
                                      THEN [profile |-> new, height |-> None] ELSE Kept]
           a == ProfileStep(new, Live.profiles[n])
           b == [op |-> "assign", items |-> items]
           c == [op |-> "remove", name |-> n]
           steps == <<a, b, c>>
<1>1. RenameSteps(n, new) = steps
  BY DEF RenameSteps
<1>2. StepOK(a) /\ a.op = "profile" /\ a.name = new /\ StepFits(a)
  <2>1. Live.profiles[n] \in Numbers
    BY DEF StoreOK, StoredProfile
  <2> QED BY <2>1, ProfileStepIs
<1>3. /\ StepOK(b) /\ b.op = "assign"
      /\ \A p : Repoints(b, p) => p = new
  <2>1. \A d \in Covers : items[d] = Kept \/ (items[d] \in Items /\ items[d].profile = new)
    BY DEF Items
  <2> HIDE DEF items
  <2>2. /\ StepOK(b) /\ b.op = "assign"
        /\ \A p : Repoints(b, p) => \E d \in Covers : items[d] # Kept /\ items[d].profile = p
    BY <2>1, AssignStepIs
  <2> QED BY <2>1, <2>2, Zenon
<1>4. StepOK(c) /\ c.op = "remove" /\ StepFits(c)
  BY RemoveStepIs
<1> HIDE DEF a, b, c
<1>5. steps \in Seq({a, b, c}) /\ Len(steps) = 3 /\ DOMAIN steps = {1, 2, 3}
      /\ steps[1] = a /\ steps[2] = b /\ steps[3] = c
  OBVIOUS
<1> HIDE DEF steps
<1>6. WritesOK(steps)
  BY <1>2, <1>3, <1>4, <1>5, ListFromSeq DEF WritesOK
<1>7. Fit(Live, steps)
  <2>1. 1 \in 1 .. 2 - 1 /\ b.op # "remove" /\ a.op # "remove" /\ a.op # "restore" /\ b.op # "restore"
        /\ c.op # "restore"
    BY <1>2, <1>3, <1>4
  <2> QED BY <1>2, <1>3, <1>4, <1>5, <2>1, Zenon DEF Fit, StepFits
<1> QED BY <1>1, <1>6, <1>7, Zenon DEF Planned

\* What Save writes: the profile that was measured is there before its window follows it.
LEMMA MeasuredIs ==
    ASSUME StoreOK(Live), measuring.cover \in Covers, NEW n \in Names, NEW number \in Numbers,
           NEW path \in {"first", "alone", "same", "refine"}
    PROVE  Planned(MeasuredSteps(path, n, number), StaleChoice(path, n))
<1> DEFINE c == measuring.cover
           by == measuring.by
           old == Record(Live, c)
           r == MeasuredRecord(by, path, old, n, number)
           a == ProfileStep(n, number)
           b == [op |-> "record", cover |-> c, record |-> r]
           stale == StaleChoice(path, n)
<1>1. MeasuredSteps(path, n, number) = IF path = "first" THEN <<a, b>> ELSE <<b>>
  BY DEF MeasuredSteps
<1>2. old \in Records
  BY RecordIs
<1> HIDE DEF c, by, old
<1>3. Said(r) /\ (r.profile = IF path = "alone" THEN old.profile ELSE n)
  <2>0. number # None /\ n # None
    BY StoreAssumption DEF StoreAssumption
  <2>1. CASE path = "alone"
    <3>1. r = [old EXCEPT !.height = number, !.own = number]
      BY <2>1 DEF MeasuredRecord
    <3> HIDE DEF r
    <3> QED BY <1>2, <2>0, <2>1, <3>1 DEF Records, Said, SaysAnything
  <2>2. CASE path = "refine"
    <3>1. r = [old EXCEPT !.profile = n, !.wins = TRUE, !.own = number]
      BY <2>2 DEF MeasuredRecord
    <3> HIDE DEF r
    <3> QED BY <1>2, <2>0, <2>2, <3>1 DEF Records, Said, SaysAnything
  <2>3. CASE path \in {"first", "same"}
    <3> DEFINE w == (by = "panel" \/ path = "same")
               o == IF by = "dialog" /\ path = "first" THEN number ELSE None
    <3>1. w \in BOOLEAN /\ o \in Numbers \cup {None}
      OBVIOUS
    <3>2. r = [profile |-> n, wins |-> w, height |-> number, own |-> o]
      BY <2>3 DEF MeasuredRecord
    <3> HIDE DEF r, w, o
    <3> QED BY <2>0, <2>3, <3>1, <3>2 DEF Records, Said, SaysAnything
  <2> QED BY <2>1, <2>2, <2>3
<1>4. StepOK(a) /\ a.op = "profile" /\ a.name = n /\ StepFits(a)
  BY ProfileStepIs
<1> HIDE DEF r, a
<1>5. /\ StepOK(b) /\ b.op = "record"
      /\ \A p : Repoints(b, p) => r.profile = p
  <2>1. c \in Covers
    BY DEF c
  <2> QED BY <1>3, <2>1, RecordStepIs, Zenon
<1> HIDE DEF b
<1>6. Given /\ ~stale => StepFits(b) \/ (path = "first" /\ \A p : Repoints(b, p) => a.name = p)
  <2>1. Given => Record(Live, measuring.cover).profile \in Defined(Live) \cup {None}
    BY Zenon DEF Given, Followed
  <2>2. CASE path = "alone"
    BY <1>3, <1>5, <2>1, <2>2, Zenon DEF StepFits, old, c
  <2>3. CASE path \in {"same", "refine"}
    <3>1. r.profile = n
      BY <1>3, <2>3
    <3>2. ~stale => n \in Defined(Live)
      BY <2>3, Zenon DEF StaleChoice
    <3> QED BY <1>5, <3>1, <3>2, Zenon DEF StepFits
  <2>4. CASE path = "first"
    <3>1. r.profile = n
      BY <1>3, <2>4
    <3> QED BY <1>4, <1>5, <2>4, <3>1, Zenon
  <2> QED BY <2>2, <2>3, <2>4
<1> HIDE DEF stale
<1>7. CASE path = "first"
  <2>1. Planned(<<a, b>>, stale)
    BY <1>4, <1>5, <1>6, TwoSteps
  <2> QED BY <1>1, <1>7, <2>1 DEF stale
<1>8. CASE path # "first"
  <2>1. Planned(<<b>>, stale)
    BY <1>5, <1>6, <1>8, OneStep
  <2> QED BY <1>1, <1>8, <2>1 DEF stale
<1> QED BY <1>7, <1>8

\* What the writers start from.
ReadyInv ==
    /\ StoreOK(Live) /\ (undo # None => DiffOK(undo.diff))
    /\ measuring # None => measuring.cover \in Covers

PlannedPanelWrites ==
    \E what \in Kinds \ {"dialog"} : \E steps, stale, slot :
        PanelWrite(what, steps, stale, slot) /\ Planned(steps, stale) /\ slot \in {None, undo}
PlannedDialogWrites == \E steps, stale : DialogWrite(steps, stale) /\ Planned(steps, stale)

LEMMA CommandsArePlanned ==
    ASSUME ReadyInv, PanelActs, ~UndoExpires
    PROVE  PlannedPanelWrites
<1>0. /\ StoreOK(Live) /\ (undo # None => DiffOK(undo.diff))
      /\ (measuring # None => measuring.cover \in Covers)
      /\ Windows \subseteq Covers /\ Drags \subseteq Seq(Covers)
  BY PanelAssumption DEF ReadyInv, PanelAssumption
<1>1. {"command", "session", "undo"} \subseteq Kinds \ {"dialog"}
  BY DEF Kinds
<1>2. ASSUME NEW steps, PanelCommand(steps), Planned(steps, FALSE) PROVE PlannedPanelWrites
  <2>1. PanelWrite("command", steps, FALSE, undo) /\ "command" \in Kinds \ {"dialog"} /\ undo \in {None, undo}
    BY <1>1, <1>2, Zenon DEF PanelCommand
  <2> QED BY <1>2, <2>1, Zenon DEF PlannedPanelWrites
<1>3. ASSUME NEW batch \in Batches, NEW height \in Numbers \cup {None}, NEW order \in Drags \cup {None},
             Assign(batch, height, order)
      PROVE  PlannedPanelWrites
  BY <1>2, <1>3, AssignIs, Zenon
<1>4. ASSUME NEW o, IsList(o), PanelCommand(<<[op |-> "order", order |-> o]>>) PROVE PlannedPanelWrites
  <2> DEFINE step == [op |-> "order", order |-> o]
  <2>1. step = [op |-> "order", order |-> o]
    OBVIOUS
  <2> HIDE DEF step
  <2>2. StepOK(step) /\ step.op = "order" /\ StepFits(step)
    BY <1>4, <2>1, OrderStepIs, Zenon
  <2>3. Planned(<<step>>, FALSE)
    BY <2>2, OneStep
  <2> QED BY <1>2, <1>4, <2>1, <2>3, Zenon
<1>5. ASSUME NEW order \in Drags, Reorder(order) PROVE PlannedPanelWrites
  <2>1. IsList(order)
    BY <1>0, ListFromSeq
  <2> QED BY <1>4, <1>5, <2>1, Zenon DEF Reorder
<1>6. ASSUME NEW group, NEW order \in Drags, ReorderGroup(group, order) PROVE PlannedPanelWrites
  <2>1. IsList(GroupReordered(Live, group, order))
    BY <1>0, GroupReorderedIs, Zenon DEF StoreOK
  <2> QED BY <1>4, <1>6, <2>1, Zenon DEF ReorderGroup
<1>7. ASSUME NEW c \in Windows, NEW number \in Numbers \cup {None}, SetTravel(c, number) \/ CoverEdit(c, number)
      PROVE  PlannedPanelWrites
  <2>1. Record(Live, c).own \in Numbers \cup {None} /\ Record(Live, c).height \in Numbers \cup {None}
    <3>1. Record(Live, c) \in Records
      BY <1>0, RecordIs
    <3> QED BY <3>1 DEF Records
  <2>2. /\ Planned(<<RecordStep(c, number, Record(Live, c).own)>>, FALSE)
        /\ Planned(<<RecordStep(c, Record(Live, c).height, number)>>, FALSE)
    BY <1>0, <2>1, RewrittenIs
  <2> QED BY <1>2, <1>7, <2>2, Zenon DEF SetTravel, CoverEdit
<1>8. ASSUME NEW c \in Windows, CoverForget(c) PROVE PlannedPanelWrites
  <2>1. Planned(<<ForgetStep(c)>>, FALSE)
    BY <1>0, ForgetStepIs
  <2> QED BY <1>2, <1>8, <2>1, Zenon DEF CoverForget
<1>9. ASSUME NEW n \in Names, NEW number \in Numbers, ProfileEdit(n, number) PROVE PlannedPanelWrites
  <2>1. Planned(<<ProfileStep(n, number)>>, FALSE)
    BY ProfileStepIs, OneStep
  <2> QED BY <1>2, <1>9, <2>1, Zenon DEF ProfileEdit
<1>10. ASSUME NEW n \in Names, NEW new \in Names, ProfileRename(n, new) PROVE PlannedPanelWrites
  <2>1. StoredProfile(n) /\ PanelCommand(RenameSteps(n, new))
    BY <1>10, Zenon DEF ProfileRename
  <2>2. Planned(RenameSteps(n, new), FALSE)
    BY <1>0, <2>1, RenameIs
  <2> QED BY <1>2, <2>1, <2>2, Zenon
<1>11. ASSUME NEW n \in Names, ProfileDelete(n) PROVE PlannedPanelWrites
  <2>1. Planned(<<RemoveStep(n)>>, FALSE)
    BY RemoveStepIs, OneStep DEF RemoveStep
  <2> QED BY <1>2, <1>11, <2>1, Zenon DEF ProfileDelete
<1>12. ASSUME NEW path \in {"first", "alone", "same", "refine"}, NEW n \in Names, NEW number \in Numbers,
              SessionSave(path, n, number)
       PROVE  PlannedPanelWrites
  <2>1. /\ PanelWrite("session", MeasuredSteps(path, n, number), StaleChoice(path, n), undo)
        /\ "session" \in Kinds \ {"dialog"} /\ undo \in {None, undo} /\ measuring.cover \in Covers
    BY <1>0, <1>1, <1>12, Zenon DEF SessionSave
  <2>2. Planned(MeasuredSteps(path, n, number), StaleChoice(path, n))
    BY <1>0, <2>1, MeasuredIs
  <2> QED BY <2>1, <2>2, Zenon DEF PlannedPanelWrites
<1>13. CASE Undo
  <2> DEFINE step == [op |-> "restore", diff |-> undo.diff]
  <2>1. undo # None /\ PanelWrite("undo", <<step>>, lost, None)
    BY <1>13, Zenon DEF Undo
  <2>2. step.op = "restore" /\ step.diff = undo.diff
    OBVIOUS
  <2> HIDE DEF step
  <2>3. StepOK(step) /\ StepFits(step)
    <3>1. StepFits(step)
      BY <2>2 DEF StepFits, Repoints
    <3> QED BY <1>0, <2>1, <2>2, <3>1, Zenon DEF StepOK
  <2>4. Planned(<<step>>, lost)
    BY <2>1, <2>2, <2>3, OneStep DEF Given
  <2>5. "undo" \in Kinds \ {"dialog"} /\ None \in {None, undo}
    BY <1>1, Zenon
  <2> QED BY <2>1, <2>4, <2>5, Zenon DEF PlannedPanelWrites
<1> QED BY <1>3, <1>5, <1>6, <1>7, <1>8, <1>9, <1>10, <1>11, <1>12, <1>13, Zenon DEF PanelActs

LEMMA DialogIsPlanned ==
    ASSUME ReadyInv, DialogActs, ~DialogLoads, ~DialogCloses
    PROVE  PlannedDialogWrites
<1>0. /\ StoreOK(Live) /\ (measuring # None => measuring.cover \in Covers) /\ Windows \subseteq Covers
  BY PanelAssumption DEF ReadyInv, PanelAssumption
<1>1. ASSUME NEW c \in Windows, NEW n \in Names \cup {None}, DialogAssign(c, n) PROVE PlannedDialogWrites
  <2> DEFINE items == [d \in Covers |-> IF d = c THEN [profile |-> n, height |-> None] ELSE Kept]
             step == [op |-> "assign", items |-> items]
             stale == n \notin Defined(Live) \cup {None}
  <2>1. DialogWrite(<<step>>, stale)
    BY <1>1, Zenon DEF DialogAssign
  <2>2. \A d \in Covers : items[d] = Kept \/ (items[d] \in Items /\ items[d].profile = n)
    BY DEF Items
  <2>3. step = [op |-> "assign", items |-> items]
    OBVIOUS
  <2> HIDE DEF items, step
  <2>4. /\ StepOK(step) /\ step.op = "assign"
        /\ \A p : Repoints(step, p) => \E d \in Covers : items[d] # Kept /\ items[d].profile = p
    BY <2>2, <2>3, AssignStepIs
  <2>5. ~stale => StepFits(step)
    BY <2>2, <2>4, Zenon DEF StepFits
  <2> HIDE DEF stale
  <2>6. Planned(<<step>>, stale)
    BY <2>4, <2>5, OneStep
  <2> QED BY <2>1, <2>6, Zenon DEF PlannedDialogWrites
<1>2. ASSUME NEW c \in Windows, NEW number \in Numbers \cup {None}, DialogEdit(c, number)
      PROVE  PlannedDialogWrites
  <2>1. Record(Live, c).height \in Numbers \cup {None}
    <3>1. Record(Live, c) \in Records
      BY <1>0, RecordIs
    <3> QED BY <3>1 DEF Records
  <2>2. Planned(<<RecordStep(c, Record(Live, c).height, number)>>, FALSE)
    BY <1>0, <2>1, RewrittenIs
  <2> QED BY <1>2, <2>2, Zenon DEF DialogEdit, PlannedDialogWrites
<1>3. ASSUME NEW c \in Windows, DialogForget(c) PROVE PlannedDialogWrites
  <2>1. Planned(<<ForgetStep(c)>>, FALSE)
    BY <1>0, ForgetStepIs
  <2> QED BY <1>3, <2>1, Zenon DEF DialogForget, PlannedDialogWrites
<1>4. ASSUME NEW n \in Names, NEW number \in Numbers, DialogProfile(n, number) PROVE PlannedDialogWrites
  <2>1. Planned(<<ProfileStep(n, number)>>, FALSE)
    BY ProfileStepIs, OneStep
  <2> QED BY <1>4, <2>1, Zenon DEF DialogProfile, PlannedDialogWrites
<1>5. ASSUME NEW n \in Names, DialogDelete(n) PROVE PlannedDialogWrites
  <2>1. Planned(<<RemoveStep(n)>>, FALSE)
    BY RemoveStepIs, OneStep DEF RemoveStep
  <2> QED BY <1>5, <2>1, Zenon DEF DialogDelete, PlannedDialogWrites
<1>6. ASSUME NEW path \in {"first", "same", "refine"}, NEW n \in Names, NEW number \in Numbers,
             DialogSave(path, n, number)
      PROVE  PlannedDialogWrites
  <2>1. /\ DialogWrite(MeasuredSteps(path, n, number), StaleChoice(path, n))
        /\ measuring.cover \in Covers
    BY <1>0, <1>6, Zenon DEF DialogSave
  <2>2. Planned(MeasuredSteps(path, n, number), StaleChoice(path, n))
    BY <1>0, <2>1, MeasuredIs
  <2> QED BY <2>1, <2>2, Zenon DEF PlannedDialogWrites
<1> QED BY <1>1, <1>2, <1>3, <1>4, <1>5, <1>6, Zenon DEF DialogActs

LEMMA PlannedKinds ==
    ASSUME ReadyInv, [PanelNext]_panelVars
    PROVE  \/ PlannedPanelWrites \/ PlannedDialogWrites \/ (\E w \in Writers : SaveEnds(w))
           \/ DialogLoads \/ UnloadDue \/ Unload \/ Setup \/ Restart \/ Rests
BY CommandsArePlanned, DialogIsPlanned, QuietKinds, Zenon DEF PanelNext

--------------------------------------------------------------------------
(* The stores, on the disk and in memory *)

JobStores(w, j) == StoreOK(j.content) /\ (w = "panel" => StoreOK(j.before)) /\ WritesOK(j.steps)
StoresInv ==
    /\ StoreOK(file) /\ \A g \in 1..gen : StoreOK(stores[g])
    /\ \A w \in Writers : job[w] # NoJob => JobStores(w, job[w])
    /\ (undo # None => StoreOK(undo.to) /\ DiffOK(undo.diff))
    /\ (measuring # None => measuring.cover \in Covers)

\* What is left of a command after one of its steps.
LEMMA TailIs ==
    ASSUME NEW steps, WritesOK(steps), NEW i \in DOMAIN steps
    PROVE  LET tail == SubSeq(steps, i + 1, Len(steps))
           IN  /\ WritesOK(tail) /\ i \in Nat /\ i >= 1 /\ i <= Len(steps) /\ Len(steps) \in Nat
               /\ Len(tail) = Len(steps) - i /\ DOMAIN tail = 1..Len(steps) - i
               /\ \A k \in DOMAIN tail : i + k \in DOMAIN steps /\ tail[k] = steps[i + k]
<1> DEFINE tail == SubSeq(steps, i + 1, Len(steps))
           S == ToSet(steps)
<1>1. steps \in Seq(S) /\ Len(steps) \in Nat /\ DOMAIN steps = 1..Len(steps)
  BY DEF WritesOK, IsList
<1> HIDE DEF S
<1>2. i \in Nat /\ i >= 1 /\ i <= Len(steps)
  BY <1>1
<1>3. tail \in Seq(S)
  BY <1>1, <1>2
<1>4. Len(tail) = Len(steps) - i /\ DOMAIN tail = 1..Len(steps) - i
  BY <1>1, <1>2
<1>5. \A k \in DOMAIN tail : i + k \in DOMAIN steps /\ tail[k] = steps[i + k]
  BY <1>1, <1>2, <1>4
<1> HIDE DEF tail
<1>6. WritesOK(tail)
  <2>1. IsList(tail)
    BY <1>3, ListFromSeq
  <2> QED BY <1>5, <2>1, Zenon DEF WritesOK
<1> QED BY <1>1, <1>2, <1>4, <1>5, <1>6 DEF tail

\* The next step is the first that is due.
LEMMA NextStep ==
    ASSUME NEW j, WritesOK(j.steps), Due(j) # {}
    PROVE  LET i == Min(Due(j))
           IN  /\ i \in DOMAIN j.steps /\ StepOK(j.steps[i])
               /\ WritesOK(SubSeq(j.steps, i + 1, Len(j.steps)))
               /\ \A k \in 1 .. i - 1 : ~Saves(stores[j.gen], j.steps[k])
<1>1. DOMAIN j.steps = 1..Len(j.steps) /\ Len(j.steps) \in Nat
  BY DEF WritesOK, IsList
<1>2. Due(j) \subseteq Nat /\ Due(j) \subseteq DOMAIN j.steps
  BY <1>1 DEF Due
<1> DEFINE i == Min(Due(j))
<1>3. i \in Due(j) /\ \A k \in Due(j) : i <= k
  BY <1>2, MinIs
<1> HIDE DEF i
<1>4. i \in DOMAIN j.steps /\ StepOK(j.steps[i])
  BY <1>2, <1>3, Zenon DEF WritesOK
<1>5. WritesOK(SubSeq(j.steps, i + 1, Len(j.steps)))
  BY <1>4, TailIs
<1>6. ASSUME NEW k \in 1 .. i - 1 PROVE ~Saves(stores[j.gen], j.steps[k])
  <2>1. k \in DOMAIN j.steps /\ ~(i <= k)
    BY <1>1, <1>4
  <2> QED BY <1>3, <2>1, Zenon DEF Due
<1> QED BY <1>4, <1>5, <1>6 DEF i

\* The slot of undo at the end of a command.
LEMMA RememberIs ==
    ASSUME NEW j, NEW after, NEW slot
    PROVE  LET u == Remember(j, after, slot)
           IN  u \in {slot, None} \/ (u.diff = Diff(j.before, after) /\ u.to = j.before)
BY DEF Remember

LEMMA RunStores ==
    ASSUME MemoryInv, StoresInv, NEW who \in Writers,
           NEW j, Shaped(j), j.gen \in 1..gen, WritesOK(j.steps), who = "panel" => StoreOK(j.before),
           NEW jobs, JobsOK(jobs), jobs[Other(who)] # NoJob => JobStores(Other(who), jobs[Other(who)]),
           NEW slot \in {None, undo}, Run(who, j, jobs, slot), StoreOK(file'), measuring' = measuring
    PROVE  StoresInv'
<1>0. /\ jobs = [w \in Writers |-> jobs[w]] /\ Other(who) \in Writers /\ Other(who) # who
      /\ \A w \in Writers : w = who \/ w = Other(who)
  BY WritersAre DEF JobsOK
<1>1. gen' = gen
  BY <1>0, RunMoves, Zenon
<1>2. /\ stores = [g \in 1..gen |-> stores[g]] /\ (\A g \in 1..gen : StoreOK(stores[g]))
      /\ (undo # None => StoreOK(undo.to) /\ DiffOK(undo.diff))
      /\ (measuring' # None => measuring'.cover \in Covers)
  BY Zenon DEF MemoryInv, StoresInv
<1>3. CASE /\ Stops(who, jobs)
           /\ IF who = "panel" THEN PanelDone(j, jobs, slot) ELSE DialogDone(jobs, slot)
  <2>1. stores' = stores /\ job'[who] = NoJob /\ job'[Other(who)] = jobs[Other(who)]
    BY <1>0, <1>3 DEF Stops
  <2>2. undo' # None => StoreOK(undo'.to) /\ DiffOK(undo'.diff)
    <3>1. CASE who = "panel"
      <4>1. undo' = Remember(j, stores[j.gen], slot)
        BY <1>3, <3>1, Zenon DEF PanelDone
      <4>2. undo' \in {slot, None} \/ (undo'.diff = Diff(j.before, stores[j.gen]) /\ undo'.to = j.before)
        BY <4>1, RememberIs
      <4>3. StoreOK(j.before) /\ DiffOK(Diff(j.before, stores[j.gen]))
        BY <1>2, <3>1, DiffIs
      <4> QED BY <1>2, <4>2, <4>3
    <3>2. CASE who # "panel"
      <4>1. undo' = slot
        BY <1>3, <3>2, Zenon DEF DialogDone
      <4> QED BY <1>2, <4>1
    <3> QED BY <3>1, <3>2
  <2>3. \A w \in Writers : job'[w] # NoJob => JobStores(w, job'[w])
    BY <1>0, <2>1, Zenon
  <2>4. \A g \in 1..gen' : StoreOK(stores'[g])
    BY <1>1, <1>2, <2>1
  <2> QED BY <1>2, <2>2, <2>3, <2>4, Zenon DEF StoresInv, JobStores
<1>4. CASE /\ Due(j) # {}
           /\ GoesOn(who, j, Min(Due(j)), Apply(stores[j.gen], j.steps[Min(Due(j))]), jobs)
  <2> DEFINE i == Min(Due(j))
             after == Apply(stores[j.gen], j.steps[i])
             tail == SubSeq(j.steps, i + 1, Len(j.steps))
  <2>1. StepOK(j.steps[i]) /\ WritesOK(tail)
    BY <1>4, NextStep, Zenon
  <2>2. GoesOn(who, j, i, after, jobs)
    BY <1>4
  <2> HIDE DEF i
  <2>3. StoreOK(after)
    BY <1>2, <2>1, ApplyOK
  <2>4. /\ stores' = [stores EXCEPT ![j.gen] = after] /\ undo' = None
        /\ job'[Other(who)] = jobs[Other(who)]
        /\ job'[who].before = j.before /\ job'[who].content = after /\ job'[who].steps = tail
    BY <2>2, Zenon DEF GoesOn, Requeued
  <2> HIDE DEF after, tail
  <2>5. \A g \in 1..gen' : StoreOK(stores'[g])
    BY <1>1, <1>2, <2>3, <2>4
  <2>6. JobStores(who, job'[who])
    BY <2>1, <2>3, <2>4, Zenon DEF JobStores
  <2>7. \A w \in Writers : job'[w] # NoJob => JobStores(w, job'[w])
    BY <1>0, <2>4, <2>6, Zenon
  <2> QED BY <1>2, <2>4, <2>5, <2>7, Zenon DEF StoresInv, JobStores
<1> QED BY <1>0, <1>3, <1>4, RunMoves, Zenon

LEMMA Ready ==
    ASSUME MemoryInv, StoresInv
    PROVE  ReadyInv
<1>1. gen \in 1..gen
  BY DEF MemoryInv
<1> QED BY <1>1, Zenon DEF StoresInv, ReadyInv, Live

LEMMA StoresStep ==
    ASSUME MemoryInv, StoresInv, [PanelNext]_panelVars
    PROVE  StoresInv'
<1>0. /\ JobsOK(job) /\ ReadyInv /\ "panel" \in Writers /\ "dialog" \in Writers /\ StoreOK(Live)
      /\ \A w \in Writers : Other(w) \in Writers
  BY Ready, WritersAre, Zenon DEF MemoryInv, ReadyInv
<1>1. CASE PlannedPanelWrites
  <2>1. PICK what \in Kinds \ {"dialog"} : \E steps, stale, slot :
            PanelWrite(what, steps, stale, slot) /\ Planned(steps, stale) /\ slot \in {None, undo}
    BY <1>1, Zenon DEF PlannedPanelWrites
  <2>2. PICK steps, stale, slot :
            PanelWrite(what, steps, stale, slot) /\ Planned(steps, stale) /\ slot \in {None, undo}
    BY <2>1, Zenon
  <2> DEFINE j == Job(what, steps, stale)
  <2>3. Shaped(j) /\ j.gen \in 1..gen /\ j.steps = steps /\ j.before = Live
    <3>1. what \in Kinds /\ what # "dialog" /\ (what = "dialog" <=> "panel" = "dialog")
      BY <2>1
    <3>2. Shaped(j) /\ j.steps = steps /\ j.before = Live
      BY <3>1, JobShaped
    <3>3. j.gen \in 1..gen
      BY <1>0, <3>1, Begun
    <3> QED BY <3>2, <3>3
  <2>4. Run("panel", j, job, slot) /\ file' = file /\ measuring' = measuring
    BY <2>2, Zenon DEF PanelWrite
  <2> HIDE DEF j
  <2>5. WritesOK(j.steps) /\ StoreOK(j.before) /\ StoreOK(file')
    BY <1>0, <2>2, <2>3, <2>4, Zenon DEF Planned, StoresInv
  <2>6. job[Other("panel")] # NoJob => JobStores(Other("panel"), job[Other("panel")])
    BY <1>0, Zenon DEF StoresInv
  <2> QED BY <1>0, <2>2, <2>3, <2>4, <2>5, <2>6, RunStores, Zenon
<1>2. CASE PlannedDialogWrites
  <2>1. PICK steps, stale : DialogWrite(steps, stale) /\ Planned(steps, stale)
    BY <1>2, Zenon DEF PlannedDialogWrites
  <2> DEFINE j == Job("dialog", steps, stale)
  <2>3. Shaped(j) /\ j.gen \in 1..gen /\ j.steps = steps
    <3>1. "dialog" \in Kinds /\ ("dialog" = "dialog" <=> "dialog" = "dialog")
      BY DEF Kinds
    <3>2. Shaped(j) /\ j.steps = steps
      BY <3>1, JobShaped
    <3>3. j.gen \in 1..gen
      BY <1>0, <3>1, Begun
    <3> QED BY <3>2, <3>3
  <2>4. Run("dialog", j, job, undo) /\ file' = file /\ measuring' = measuring
    BY <2>1, Zenon DEF DialogWrite
  <2> HIDE DEF j
  <2>5. WritesOK(j.steps) /\ StoreOK(file') /\ "dialog" # "panel" /\ undo \in {None, undo}
    BY <2>1, <2>3, <2>4 DEF Planned, StoresInv
  <2>6. job[Other("dialog")] # NoJob => JobStores(Other("dialog"), job[Other("dialog")])
    BY <1>0, Zenon DEF StoresInv
  <2> QED BY <1>0, <2>3, <2>4, <2>5, <2>6, RunStores, Zenon
<1>3. ASSUME NEW w \in Writers, SaveEnds(w) PROVE StoresInv'
  <2> DEFINE o == Other(w)
             jobs == Landed(w)
  <2>1. /\ job[w] # NoJob /\ Run(w, job[w], jobs, undo) /\ measuring' = measuring
        /\ file' = job[w].content \/ file' = file
    BY <1>3, Zenon DEF SaveEnds, SaveDone, SaveFails, NextSave, GoOn
  <2>2. /\ Shaped(job[w]) /\ job[w].gen \in 1..gen /\ JobStores(w, job[w])
        /\ o \in Writers /\ undo \in {None, undo}
    BY <1>0, <2>1, Zenon DEF JobsOK, StoresInv
  <2>3. StoreOK(file')
    BY <2>1, <2>2, Zenon DEF JobStores, StoresInv
  <2>4. /\ JobsOK(jobs) /\ (jobs[o] # NoJob <=> job[o] # NoJob)
        /\ jobs[o] # NoJob =>
             /\ jobs[o].before = job[o].before /\ jobs[o].steps = job[o].steps
             /\ job[o].gen = job[w].gen => jobs[o].content = stores[job[o].gen]
             /\ job[o].gen # job[w].gen => jobs[o] = job[o]
    BY <2>1, LandedIs
  <2>5. jobs[o] # NoJob => JobStores(o, jobs[o])
    <3>1. jobs[o] # NoJob => JobStores(o, job[o]) /\ StoreOK(stores[job[o].gen])
      BY <1>0, <2>2, <2>4, Zenon DEF JobsOK, StoresInv
    <3> HIDE DEF jobs, o
    <3> QED BY <2>4, <3>1, Zenon DEF JobStores
  <2> HIDE DEF jobs
  <2>6. jobs[Other(w)] # NoJob => JobStores(Other(w), jobs[Other(w)])
    BY <2>5
  <2> QED BY <2>1, <2>2, <2>3, <2>4, <2>6, RunStores, Zenon DEF JobStores
<1>4. CASE DialogLoads \/ Setup
  <2>1. StoreRead /\ UNCHANGED <<job, file, undo, measuring>>
    BY <1>4, Zenon DEF DialogLoads, Setup, entryVars
  <2>2. gen' = (IF Working THEN gen + 1 ELSE 1)
        /\ stores' = [g \in 1 .. gen' |-> IF g = gen' THEN file ELSE stores[g]]
    BY <2>1, Zenon DEF StoreRead
  <2>3. \A g \in 1..gen' : g = gen' \/ g \in 1..gen
    BY <2>2 DEF MemoryInv
  <2>4. \A g \in 1..gen' : StoreOK(stores'[g])
    BY <2>2, <2>3 DEF StoresInv
  <2> QED BY <2>1, <2>4, Zenon DEF StoresInv, JobStores
<1>5. CASE UnloadDue \/ Unload
  <2>1. UNCHANGED <<stores, gen, job, file, undo>> /\ measuring' = None
    BY <1>5, Zenon DEF UnloadDue, Unload, UnloadEntry
  <2> QED BY <2>1, Zenon DEF StoresInv, JobStores
<1>6. CASE Restart
  <2>1. /\ gen' = 1 /\ stores' = [g \in {1} |-> file] /\ file' = file
        /\ job' = [w \in Writers |-> NoJob] /\ undo' = None /\ measuring' = None
    BY <1>6, Zenon DEF Restart
  <2>2. 1..gen' = {1}
    BY <2>1
  <2>3. (\A g \in 1..gen' : StoreOK(stores'[g])) /\ \A w \in Writers : job'[w] = NoJob
    BY <2>1, <2>2 DEF StoresInv
  <2> QED BY <2>1, <2>3, Zenon DEF StoresInv, JobStores
<1>7. CASE Rests
  <2>1. Windows \subseteq Covers
    BY PanelAssumption DEF PanelAssumption
  <2> QED BY <1>7, <2>1, Zenon DEF Rests, StoresInv, JobStores
<1> QED BY <1>0, <1>1, <1>2, <1>3, <1>4, <1>5, <1>6, <1>7, PlannedKinds, Zenon

LEMMA InitialIs ==
    StoreOK(InitialStore)
<1> DEFINE s == InitialStore
<1>1. s \in Stores /\ Tidy(s)
  BY PanelAssumption DEF PanelAssumption
<1> HIDE DEF s
<1>2. /\ s = [profiles |-> s.profiles, covers |-> s.covers, order |-> s.order]
      /\ s.profiles \in [Names -> Numbers \cup {None}] /\ s.covers \in [Covers -> Records \cup {None}]
      /\ s.order \in Seq(Covers)
  BY <1>1 DEF Stores, Orders
<1>3. s.covers = [c \in Covers |-> s.covers[c]] /\ \A c \in Covers : s.covers[c] \in Records \cup {None}
  BY <1>2
<1>4. IsList(s.order)
  BY <1>2, ListFromSeq
<1>5. \A c \in Covers : s.covers[c] = None \/ Said(s.covers[c])
  BY <1>1, <1>3 DEF Tidy, Said
<1>6. StoreOK(s)
  BY <1>1, <1>2, <1>3, <1>4, <1>5, Zenon DEF StoreOK, Tidy
<1> QED BY <1>6 DEF s

LEMMA StoresStart == PanelInit => StoresInv
<1> SUFFICES ASSUME PanelInit PROVE StoresInv
  OBVIOUS
<1>1. /\ gen = 1 /\ stores = [g \in {1} |-> InitialStore] /\ file = InitialStore
      /\ job = [w \in Writers |-> NoJob] /\ undo = None /\ measuring = None
  BY Zenon DEF PanelInit
<1>2. 1..gen = {1}
  BY <1>1
<1>3. (\A g \in 1..gen : StoreOK(stores[g])) /\ \A w \in Writers : job[w] = NoJob
  BY <1>1, <1>2, InitialIs
<1> QED BY <1>1, <1>3, InitialIs, Zenon DEF StoresInv

\* While no save was lost, what the slot holds is the difference between the store as it
\* is and as it was before the command: whoever else writes empties the slot.
UndoInv == undo # None /\ ~lost => undo.diff = Diff(undo.to, Live)

LEMMA RunUndo ==
    ASSUME MemoryInv, UndoInv, ~lost, NEW who \in Writers, NEW j, Shaped(j), j.gen = gen,
           NEW jobs, JobsOK(jobs), NEW slot \in {None, undo}, Run(who, j, jobs, slot)
    PROVE  UndoInv'
<1>0. jobs = [w \in Writers |-> jobs[w]]
  BY DEF JobsOK
<1>1. gen' = gen
  BY <1>0, RunMoves, Zenon
<1>2. CASE /\ Stops(who, jobs)
           /\ IF who = "panel" THEN PanelDone(j, jobs, slot) ELSE DialogDone(jobs, slot)
  <2>1. Live' = Live
    BY <1>1, <1>2 DEF Stops, Live
  <2>2. CASE who = "panel"
    <3>1. undo' = Remember(j, Live, slot)
      BY <1>2, <2>2, Zenon DEF PanelDone, Live
    <3>2. undo' \in {slot, None} \/ (undo'.diff = Diff(j.before, Live) /\ undo'.to = j.before)
      BY <3>1, RememberIs
    <3> QED BY <2>1, <3>2 DEF UndoInv
  <2>3. CASE who # "panel"
    <3>1. undo' = slot
      BY <1>2, <2>3, Zenon DEF DialogDone
    <3> QED BY <2>1, <3>1 DEF UndoInv
  <2> QED BY <2>2, <2>3
<1>3. CASE GoesOn(who, j, Min(Due(j)), Apply(stores[j.gen], j.steps[Min(Due(j))]), jobs)
  <2>1. undo' = None
    BY <1>3, Zenon DEF GoesOn
  <2> QED BY <2>1, Zenon DEF UndoInv
<1> QED BY <1>0, <1>2, <1>3, RunMoves, Zenon

LEMMA UndoStep ==
    ASSUME MemoryInv, DiskInv, StoresInv, UndoInv, [PanelNext]_panelVars
    PROVE  UndoInv'
<1> SUFFICES ASSUME ~lost' PROVE UndoInv'
  BY Zenon DEF UndoInv
<1>0. JobsOK(job) /\ ReadyInv /\ "panel" \in Writers /\ "dialog" \in Writers
  BY Ready, WritersAre, Zenon DEF MemoryInv
<1>1. CASE PlannedPanelWrites
  <2>1. PICK what \in Kinds \ {"dialog"} : \E steps, stale, slot :
            PanelWrite(what, steps, stale, slot) /\ Planned(steps, stale) /\ slot \in {None, undo}
    BY <1>1, Zenon DEF PlannedPanelWrites
  <2>2. PICK steps, stale, slot :
            PanelWrite(what, steps, stale, slot) /\ Planned(steps, stale) /\ slot \in {None, undo}
    BY <2>1, Zenon
  <2> DEFINE j == Job(what, steps, stale)
  <2>3. Shaped(j) /\ j.gen = gen
    BY JobShaped
  <2>4. Run("panel", j, job, slot) /\ ~lost
    BY <2>2, Zenon DEF PanelWrite
  <2> HIDE DEF j
  <2> QED BY <1>0, <2>2, <2>3, <2>4, RunUndo, Zenon
<1>2. CASE PlannedDialogWrites
  <2>1. PICK steps, stale : DialogWrite(steps, stale)
    BY <1>2, Zenon DEF PlannedDialogWrites
  <2> DEFINE j == Job("dialog", steps, stale)
  <2>2. Shaped(j) /\ j.gen = gen
    BY JobShaped DEF Kinds
  <2>3. Run("dialog", j, job, undo) /\ ~lost /\ undo \in {None, undo}
    BY <2>1, Zenon DEF DialogWrite
  <2> HIDE DEF j
  <2> QED BY <1>0, <2>2, <2>3, RunUndo, Zenon
<1>3. ASSUME NEW w \in Writers, SaveEnds(w) PROVE UndoInv'
  <2>1. Run(w, job[w], Landed(w), undo) /\ ~lost /\ job[w] # NoJob /\ undo \in {None, undo}
    <3>1. SaveDone(w)
      BY <1>3, Zenon DEF SaveEnds, SaveFails
    <3> QED BY <3>1, Zenon DEF SaveDone, NextSave, GoOn
  <2>2. JobsOK(Landed(w))
    BY <2>1, LandedIs
  <2>3. Shaped(job[w]) /\ job[w].gen = gen
    BY <1>0, <2>1, Zenon DEF JobsOK, DiskInv
  <2> QED BY <2>1, <2>2, <2>3, RunUndo, Zenon
<1>4. CASE DialogLoads \/ Setup
  <2>1. StoreRead /\ ~lost /\ undo' = undo
    <3>1. DialogLoads => StoreRead /\ lost' = lost /\ undo' = undo
      BY Zenon DEF DialogLoads
    <3>2. Setup => StoreRead /\ ~lost /\ undo' = undo
      BY Zenon DEF Setup
    <3> QED BY <1>4, <3>1, <3>2
  <2>2. ~Working
    BY <1>4, <2>1, Zenon DEF DialogLoads, Setup, DiskInv
  <2>3. Live' = file /\ file = Live
    BY <2>1, <2>2 DEF StoreRead, Live, DiskInv
  <2> QED BY <2>1, <2>3, Zenon DEF UndoInv
<1>5. CASE UnloadDue \/ Unload
  <2>1. UNCHANGED <<stores, gen, undo>> /\ ~lost
    BY <1>5, Zenon DEF UnloadDue, Unload, UnloadEntry
  <2> QED BY <2>1, Zenon DEF UndoInv, Live
<1>6. CASE Restart
  BY <1>6, Zenon DEF Restart, UndoInv
<1>7. CASE Rests
  <2>1. UNCHANGED <<stores, gen, lost>> /\ undo' \in {None, undo}
    BY <1>7, Zenon DEF Rests
  <2>2. Live' = Live
    BY <2>1 DEF Live
  <2> QED BY <2>1, <2>2 DEF UndoInv
<1> QED BY <1>0, <1>1, <1>2, <1>3, <1>4, <1>5, <1>6, <1>7, PlannedKinds, Zenon

LEMMA StoresAlways == PanelSpec => [](MemoryInv /\ DiskInv /\ StoresInv /\ UndoInv)
<1>1. PanelInit => UndoInv
  BY Zenon DEF PanelInit, UndoInv
<1>2. /\ MemoryInv /\ DiskInv /\ StoresInv /\ UndoInv /\ [PanelNext]_panelVars
      => (StoresInv /\ UndoInv)'
  BY StoresStep, UndoStep
<1> QED BY DiskAlways, StoresStart, <1>1, <1>2, PTL DEF PanelSpec

\* "Annulla", while it is offered, puts every record and the order back exactly as they
\* were before its command, unless a save was lost: whatever was written, edited, reloaded
\* or expired since.  The code keeps no account of what the dialog wrote inside the
\* command, so those records go back as well, against calibration_store.py:158.
THEOREM UndoTakesBackAll == PanelSpec => []UndoIsExact
<1>1. MemoryInv /\ StoresInv /\ UndoInv => UndoIsExact
  <2> SUFFICES ASSUME MemoryInv, StoresInv, UndoInv, undo # None, ~lost
               PROVE  Back = undo.to
    BY Zenon DEF UndoIsExact
  <2>1. StoreOK(Live) /\ StoreOK(undo.to) /\ undo.diff = Diff(undo.to, Live)
    BY Ready, Zenon DEF ReadyInv, StoresInv, UndoInv
  <2> QED BY <2>1, DiffIs DEF Back
<1> QED BY StoresAlways, <1>1, PTL

--------------------------------------------------------------------------
(* Whom the covers follow *)

LEMMA DefinedIs ==
    ASSUME NEW s
    PROVE  Defined(s) = {n \in Names : s.profiles[n] # None \/ FileProfiles[n] # None}
<1>1. \A n \in Names : n # None
  BY StoreAssumption DEF StoreAssumption
<1>2. \A n \in Names : MergedProfile(s, n) # None <=> s.profiles[n] # None \/ FileProfiles[n] # None
  BY <1>1 DEF MergedProfile
<1> QED BY <1>2 DEF Defined

LEMMA FollowedIs ==
    ASSUME NEW s
    PROVE  Followed(s) <=>
              \A c \in Covers : s.covers[c] = None \/ s.covers[c].profile \in Defined(s) \cup {None}
<1>1. NoRecord.profile = None
  BY DEF NoRecord
<1>2. \A c \in Covers : Record(s, c) = IF s.covers[c] = None THEN NoRecord ELSE s.covers[c]
  BY DEF Record
<1> QED BY <1>1, <1>2 DEF Followed

\* A record that is kept follows what it did.
LEMMA KeptFollows ==
    ASSUME NEW r
    PROVE  KeptRecord(r) = None \/ KeptRecord(r) = r
BY DEF KeptRecord

\* One step: nobody follows a profile that is not there, and only a removal and an undo
\* take one away.
LEMMA ApplyFollows ==
    ASSUME NEW s, StoreOK(s), Followed(s), NEW step, StepOK(step),
           \A p : Repoints(step, p) => p \in Defined(s) \cup {None},
           step.op = "restore" => Followed(Restore(s, step.diff))
    PROVE  LET t == Apply(s, step)
           IN  /\ Followed(t)
               /\ step.op \notin {"remove", "restore"} => Defined(s) \subseteq Defined(t)
               /\ step.op = "profile" => step.name \in Defined(t)
<1> DEFINE t == Apply(s, step)
<1>0. /\ s.profiles \in [Names -> Numbers \cup {None}]
      /\ s = [profiles |-> s.profiles, covers |-> s.covers, order |-> s.order]
      /\ s.covers = [c \in Covers |-> s.covers[c]]
      /\ (\A c \in Covers : s.covers[c] = None \/ s.covers[c].profile \in Defined(s) \cup {None})
      /\ None \notin Numbers \cup Names
  BY FollowedIs, StoreAssumption DEF StoreOK, StoreAssumption
\* A step that leaves the profiles alone leaves the same ones defined.
<1>1. t.profiles = s.profiles => Defined(t) = Defined(s)
  BY DefinedIs
<1>2. CASE step.op = "profile" /\ step.name \in Names /\ step.numbers \in Numbers
  <2>1. t = [s EXCEPT !.profiles[step.name] = step.numbers]
    BY <1>2 DEF Apply, SetProfile
  <2> HIDE DEF t
  <2>2. t.covers = s.covers /\ \A n \in Names : t.profiles[n] = IF n = step.name THEN step.numbers ELSE s.profiles[n]
    BY <1>0, <1>2, <2>1
  <2>3. Defined(s) \subseteq Defined(t) /\ step.name \in Defined(t)
    BY <1>0, <1>2, <2>2, DefinedIs
  <2>4. Followed(t)
    BY <1>0, <2>2, <2>3, FollowedIs
  <2> QED BY <2>3, <2>4 DEF t
<1>3. CASE step.op = "remove" /\ step.name \in Names
  <2> DEFINE n == step.name
             f == [c \in Covers |-> IF c \in CoversFollowing(s, n)
                     THEN KeptRecord([s.covers[c] EXCEPT !.profile = None, !.wins = FALSE])
                     ELSE s.covers[c]]
  <2>1. t = IF s.profiles[n] = None THEN s ELSE [s EXCEPT !.profiles[n] = None, !.covers = f]
    BY <1>3 DEF Apply, RemoveProfile
  <2>2. CASE s.profiles[n] = None
    BY <1>3, <2>1, <2>2
  <2>3. CASE s.profiles[n] # None
    <3>1. ASSUME NEW c \in Covers PROVE f[c] = None \/ f[c].profile \in (Defined(s) \ {n}) \cup {None}
      <4>1. CASE c \in CoversFollowing(s, n)
        <5> DEFINE q == [s.covers[c] EXCEPT !.profile = None, !.wins = FALSE]
        <5>1. s.covers[c] \in Records
          BY <1>3, <4>1, RecordIs DEF CoversFollowing
        <5>2. q.profile = None /\ f[c] = KeptRecord(q)
          BY <4>1, <5>1 DEF Records
        <5> HIDE DEF q, f
        <5> QED BY <5>2, KeptFollows
      <4>2. CASE c \notin CoversFollowing(s, n)
        <5>1. f[c] = s.covers[c]
          BY <4>2
        <5>2. s.covers[c] # None => s.covers[c].profile # n
          BY <4>2 DEF CoversFollowing, Record
        <5> HIDE DEF f
        <5> QED BY <1>0, <5>1, <5>2
      <4> QED BY <4>1, <4>2
    <3> HIDE DEF f
    <3>2. t = [profiles |-> [s.profiles EXCEPT ![n] = None], covers |-> f, order |-> s.order]
      BY <1>3, <2>1, <2>3, WithoutIt
    <3> HIDE DEF t
    <3>3. t.covers = f /\ \A m \in Names : t.profiles[m] = IF m = n THEN None ELSE s.profiles[m]
      BY <1>0, <3>2
    <3>4. Defined(s) \ {n} \subseteq Defined(t)
      BY <3>3, DefinedIs
    <3>5. Followed(t)
      BY <3>1, <3>3, <3>4, FollowedIs
    <3> QED BY <1>3, <3>5 DEF t
  <2> QED BY <2>2, <2>3
<1>4. CASE step.op = "record" /\ step.cover \in Covers /\ (step.record = None \/ Said(step.record))
  <2>1. t = [s EXCEPT !.covers[step.cover] = step.record]
    BY <1>4 DEF Apply, SetCalibration
  <2>2. step.record # None => step.record.profile \in Defined(s) \cup {None}
    BY <1>4, Zenon DEF Repoints
  <2> HIDE DEF t
  <2>3. t.profiles = s.profiles
        /\ \A c \in Covers : t.covers[c] = IF c = step.cover THEN step.record ELSE s.covers[c]
    BY <1>0, <1>4, <2>1
  <2>4. Defined(t) = Defined(s)
    BY <1>1, <2>3 DEF t
  <2>5. Followed(t)
    BY <1>0, <2>2, <2>3, <2>4, FollowedIs
  <2> QED BY <1>4, <2>4, <2>5 DEF t
<1>5. CASE step.op = "assign" /\ \A c \in Covers : step.items[c] = Kept \/ step.items[c] \in Items
  <2> DEFINE f == [c \in Covers |->
        IF step.items[c] = Kept \/ Assigned(Record(s, c), step.items[c]) = Record(s, c)
        THEN s.covers[c]
        ELSE KeptRecord(Assigned(Record(s, c), step.items[c]))]
  <2>1. t = [s EXCEPT !.covers = f]
    BY <1>5 DEF Apply, SetAssignments
  <2>2. ASSUME NEW c \in Covers PROVE f[c] = None \/ f[c].profile \in Defined(s) \cup {None}
    <3>1. CASE step.items[c] = Kept \/ Assigned(Record(s, c), step.items[c]) = Record(s, c)
      <4>1. f[c] = s.covers[c]
        BY <3>1
      <4> HIDE DEF f
      <4> QED BY <1>0, <4>1
    <3>2. CASE ~(step.items[c] = Kept \/ Assigned(Record(s, c), step.items[c]) = Record(s, c))
      <4> DEFINE q == Assigned(Record(s, c), step.items[c])
      <4>1. Record(s, c) \in Records /\ step.items[c] # Kept
        BY <3>2, RecordIs
      <4>2. q.profile = step.items[c].profile
        BY <4>1 DEF Assigned, Records
      <4>3. step.items[c].profile \in Defined(s) \cup {None}
        BY <1>5, <4>1, Zenon DEF Repoints
      <4>4. f[c] = KeptRecord(q)
        BY <3>2
      <4> HIDE DEF q, f
      <4> QED BY <4>2, <4>3, <4>4, KeptFollows
    <3> QED BY <3>1, <3>2
  <2> HIDE DEF t, f
  <2>3. t.profiles = s.profiles /\ t.covers = f
    BY <1>0, <2>1
  <2>4. Defined(t) = Defined(s)
    BY <1>1, <2>3 DEF t
  <2>5. Followed(t)
    BY <2>2, <2>3, <2>4, FollowedIs
  <2> QED BY <1>5, <2>4, <2>5 DEF t
<1>6. CASE step.op \in {"order", "append"}
  <2>1. t = s \/ \E order : t = SetOrder(s, order)
    BY <1>6 DEF Apply
  <2> HIDE DEF t
  <2>2. t.profiles = s.profiles /\ t.covers = s.covers
    BY <1>0, <2>1 DEF SetOrder
  <2>3. Defined(t) = Defined(s)
    BY <1>1, <2>2 DEF t
  <2>4. Followed(t)
    BY <1>0, <2>2, <2>3, FollowedIs
  <2> QED BY <1>6, <2>3, <2>4 DEF t
<1>7. CASE step.op = "restore"
  BY <1>7 DEF Apply
<1> QED BY <1>2, <1>3, <1>4, <1>5, <1>6, <1>7 DEF StepOK

\* What is left of a command fits the store that its step has left.
LEMMA FitTail ==
    ASSUME NEW s, StoreOK(s), Followed(s), NEW steps, WritesOK(steps), Fit(s, steps),
           NEW i \in DOMAIN steps, \A k \in 1 .. i - 1 : ~Saves(s, steps[k])
    PROVE  /\ Followed(Apply(s, steps[i]))
           /\ Fit(Apply(s, steps[i]), SubSeq(steps, i + 1, Len(steps)))
<1> DEFINE tail == SubSeq(steps, i + 1, Len(steps))
           n == Len(steps)
           t == Apply(s, steps[i])
<1>1. /\ i \in Nat /\ i >= 1 /\ i <= n /\ n \in Nat
      /\ Len(tail) = n - i /\ DOMAIN tail = 1..n - i
      /\ \A k \in DOMAIN tail : i + k \in DOMAIN steps /\ tail[k] = steps[i + k]
  BY TailIs
<1> HIDE DEF tail, n
<1>2. \A k \in 1 .. i - 1 : steps[k].op # "profile"
  BY Zenon DEF Saves
<1>3. \A p : Repoints(steps[i], p) => p \in Defined(s) \cup {None}
  BY <1>2, Zenon DEF Fit
<1>4. StepOK(steps[i]) /\ (steps[i].op = "restore" => Followed(Restore(s, steps[i].diff)))
  BY Zenon DEF WritesOK, Fit
<1>5. /\ Followed(t)
      /\ steps[i].op \notin {"remove", "restore"} => Defined(s) \subseteq Defined(t)
      /\ steps[i].op = "profile" => steps[i].name \in Defined(t)
  BY <1>3, <1>4, ApplyFollows
<1> HIDE DEF t
<1>6. ASSUME NEW k \in DOMAIN tail
      PROVE  /\ \A p : Repoints(tail[k], p) =>
                   p \in Defined(t) \cup {None} \/ \E m \in 1 .. k - 1 : tail[m].op = "profile" /\ tail[m].name = p
             /\ tail[k].op = "remove" => k = Len(tail)
             /\ tail[k].op = "restore" => Len(tail) = 1 /\ Followed(Restore(t, tail[k].diff))
  <2>1. k \in Nat /\ k >= 1 /\ k <= n - i /\ i < n /\ i + k \in DOMAIN steps /\ tail[k] = steps[i + k]
    BY <1>1
  <2>2. steps[i].op \notin {"remove", "restore"}
    <3>1. steps[i].op = "remove" => i = n
      BY Zenon DEF Fit, n
    <3>2. steps[i].op = "restore" => n = 1
      BY Zenon DEF Fit, n
    <3> QED BY <1>1, <2>1, <3>1, <3>2
  <2>3. ASSUME NEW p, Repoints(tail[k], p)
        PROVE  p \in Defined(t) \cup {None} \/ \E m \in 1 .. k - 1 : tail[m].op = "profile" /\ tail[m].name = p
    <3>1. CASE p \in Defined(s) \cup {None}
      BY <1>5, <2>2, <3>1
    <3>2. ASSUME NEW m \in 1 .. (i + k) - 1, steps[m].op = "profile", steps[m].name = p
          PROVE  p \in Defined(t) \/ \E l \in 1 .. k - 1 : tail[l].op = "profile" /\ tail[l].name = p
      <4>1. m \notin 1 .. i - 1
        BY <1>2, <3>2, Zenon
      <4>2. m \in Nat /\ m >= i
        BY <1>1, <2>1, <4>1
      <4>3. CASE m = i
        BY <1>5, <3>2, <4>3
      <4>4. CASE m > i
        <5>1. m - i \in 1 .. k - 1 /\ m - i \in 1 .. n - i /\ i + (m - i) = m
          BY <1>1, <2>1, <4>2, <4>4
        <5>2. tail[m - i] = steps[m]
          BY <1>1, <5>1
        <5> QED BY <3>2, <5>1, <5>2
      <4> QED BY <1>1, <4>2, <4>3, <4>4
    <3>3. p \in Defined(s) \cup {None} \/ \E m \in 1 .. (i + k) - 1 : steps[m].op = "profile" /\ steps[m].name = p
      BY <2>1, <2>3, Zenon DEF Fit
    <3> QED BY <3>1, <3>2, <3>3, Zenon
  <2>4. tail[k].op = "remove" => k = Len(tail)
    <3>1. tail[k].op = "remove" => i + k = n
      BY <2>1, Zenon DEF Fit, n
    <3> QED BY <1>1, <2>1, <3>1
  <2>5. tail[k].op # "restore"
    <3>1. tail[k].op = "restore" => n = 1
      BY <2>1, Zenon DEF Fit, n
    <3> QED BY <1>1, <2>1, <3>1
  <2> QED BY <2>3, <2>4, <2>5, Zenon
<1>7. Fit(t, tail)
  BY <1>6, Zenon DEF Fit
<1> QED BY <1>5, <1>7 DEF t, tail, n

\* While nobody has written across anybody: every store is one whose followers are
\* defined, one command at most is under way, and the rest of it fits its store.
FollowedJob(w, j) ==
    Followed(j.content) /\ (w = "panel" => Followed(j.before)) /\ Fit(stores[j.gen], j.steps)
FollowInv == ~crossed =>
    /\ Followed(file) /\ \A g \in 1..gen : Followed(stores[g])
    /\ \A w \in Writers : job[w] # NoJob => FollowedJob(w, job[w]) /\ job[Other(w)] = NoJob
    /\ undo # None => Followed(undo.to)

LEMMA RunFollows ==
    ASSUME MemoryInv, StoresInv, FollowInv, NEW who \in Writers,
           NEW j, Shaped(j), j.gen \in 1..gen, WritesOK(j.steps),
           ~crossed => /\ Followed(file')
                       /\ who = "panel" => Followed(j.before)
                       /\ ~j.stale => Fit(stores[j.gen], j.steps),
           NEW jobs, JobsOK(jobs),
           ~crossed /\ jobs[Other(who)] # NoJob => FollowedJob(Other(who), jobs[Other(who)]),
           NEW slot \in {None, undo}, Run(who, j, jobs, slot)
    PROVE  FollowInv'
<1> SUFFICES ASSUME ~crossed' PROVE FollowInv'
  BY Zenon DEF FollowInv
<1>0. /\ jobs = [w \in Writers |-> jobs[w]] /\ Other(who) \in Writers /\ Other(who) # who
      /\ Other(Other(who)) = who
      /\ \A w \in Writers : w = who \/ w = Other(who)
  BY WritersAre DEF JobsOK
<1>1. gen' = gen
  BY <1>0, RunMoves, Zenon
<1>2. ASSUME Stops(who, jobs),
             IF who = "panel" THEN PanelDone(j, jobs, slot) ELSE DialogDone(jobs, slot)
      PROVE  FollowInv'
  <2>1. /\ stores' = stores /\ crossed' = crossed
        /\ job'[who] = NoJob /\ job'[Other(who)] = jobs[Other(who)]
    BY <1>0, <1>2 DEF Stops
  <2>2. ~crossed
    BY <2>1
  <2>3. /\ Followed(file') /\ (who = "panel" => Followed(j.before))
        /\ \A g \in 1..gen : Followed(stores[g])
        /\ undo # None => Followed(undo.to)
    BY <1>2, <2>2, Zenon DEF FollowInv
  <2>4. undo' # None => Followed(undo'.to)
    <3>1. CASE who = "panel"
      <4>1. undo' = Remember(j, stores[j.gen], slot)
        BY <1>2, <3>1, Zenon DEF PanelDone
      <4>2. undo' \in {slot, None} \/ (undo'.diff = Diff(j.before, stores[j.gen]) /\ undo'.to = j.before)
        BY <4>1, RememberIs
      <4> QED BY <2>3, <3>1, <4>2
    <3>2. CASE who # "panel"
      <4>1. undo' = slot
        BY <1>2, <3>2, Zenon DEF DialogDone
      <4> QED BY <2>3, <4>1
    <3> QED BY <3>1, <3>2
  <2>5. \A w \in Writers : job'[w] # NoJob => FollowedJob(w, job'[w]) /\ job'[Other(w)] = NoJob
    BY <1>0, <2>1, <2>2, Zenon
  <2>6. \A w \in Writers : job'[w] # NoJob => FollowedJob(w, job[w])' /\ job'[Other(w)] = NoJob
    BY <2>1, <2>5, Zenon DEF FollowedJob
  <2>7. \A g \in 1..gen' : Followed(stores'[g])
    BY <1>1, <2>1, <2>3
  <2> QED BY <2>3, <2>4, <2>6, <2>7, Zenon DEF FollowInv
<1>3. ASSUME Due(j) # {},
             GoesOn(who, j, Min(Due(j)), Apply(stores[j.gen], j.steps[Min(Due(j))]), jobs)
      PROVE  FollowInv'
  <2> DEFINE s == stores[j.gen]
             i == Min(Due(j))
             after == Apply(s, j.steps[i])
             tail == SubSeq(j.steps, i + 1, Len(j.steps))
  <2>1. GoesOn(who, j, i, after, jobs)
    BY <1>3
  <2>2. /\ i \in DOMAIN j.steps /\ \A k \in 1 .. i - 1 : ~Saves(s, j.steps[k])
    BY <1>3, NextStep
  <2>3. ~crossed /\ ~j.stale /\ jobs[Other(who)] = NoJob
    BY <2>1, Zenon DEF GoesOn
  <2>4. /\ stores' = [stores EXCEPT ![j.gen] = after] /\ undo' = None
        /\ job'[Other(who)] = NoJob
        /\ job'[who].gen = j.gen
        /\ job'[who].before = j.before /\ job'[who].content = after /\ job'[who].steps = tail
    BY <2>1, <2>3, Zenon DEF GoesOn, Requeued
  <2> HIDE DEF i
  <2>5. StoreOK(s) /\ Followed(s) /\ Fit(s, j.steps)
    BY <2>3, Zenon DEF StoresInv, FollowInv
  <2>6. Followed(after) /\ Fit(after, tail)
    BY <2>2, <2>5, FitTail
  <2> HIDE DEF s, after, tail
  <2>7. stores'[j.gen] = after /\ \A g \in 1..gen' : Followed(stores'[g])
    <3>1. \A g \in 1..gen : Followed(stores[g])
      BY <2>3, Zenon DEF FollowInv
    <3>2. stores = [g \in 1..gen |-> stores[g]]
      BY Zenon DEF MemoryInv
    <3> QED BY <1>1, <2>4, <2>6, <3>1, <3>2
  <2>8. FollowedJob(who, job[who])'
    <3>1. who = "panel" => Followed(j.before)
      BY <2>3, Zenon
    <3> QED BY <2>4, <2>6, <2>7, <3>1, Zenon DEF FollowedJob
  <2>9. \A w \in Writers : job'[w] # NoJob => FollowedJob(w, job[w])' /\ job'[Other(w)] = NoJob
    BY <1>0, <2>4, <2>8, Zenon
  <2>10. Followed(file')
    BY <2>3, Zenon
  <2> QED BY <2>4, <2>7, <2>9, <2>10, Zenon DEF FollowInv
<1> QED BY <1>0, <1>2, <1>3, RunMoves, Zenon

\* A command that begins is planned on the store as it is.
LEMMA GivenIs ==
    ASSUME MemoryInv, StoresInv, UndoInv, FollowInv, ~crossed
    PROVE  Given
<1>1. gen \in 1..gen
  BY DEF MemoryInv
<1>2. Followed(Live) /\ (undo # None => Followed(undo.to))
  BY <1>1, Zenon DEF FollowInv, Live
<1>3. undo # None /\ ~lost => Restore(Live, undo.diff) = undo.to
  <2> SUFFICES ASSUME undo # None, ~lost PROVE Restore(Live, undo.diff) = undo.to
    OBVIOUS
  <2>1. StoreOK(Live) /\ StoreOK(undo.to) /\ undo.diff = Diff(undo.to, Live)
    BY Ready, Zenon DEF ReadyInv, StoresInv, UndoInv
  <2> QED BY <2>1, DiffIs
<1> QED BY <1>2, <1>3, Zenon DEF Given

LEMMA FollowStep ==
    ASSUME MemoryInv, StoresInv, UndoInv, FollowInv, [PanelNext]_panelVars
    PROVE  FollowInv'
<1>0. /\ JobsOK(job) /\ ReadyInv /\ "panel" \in Writers /\ "dialog" \in Writers
      /\ gen \in Nat /\ gen >= 1 /\ gen \in 1..gen
      /\ \A w \in Writers : Other(w) \in Writers
  BY Ready, WritersAre DEF MemoryInv
<1>1. ASSUME NEW who \in Writers, NEW what \in Kinds, NEW steps, NEW stale, NEW slot \in {None, undo},
             Planned(steps, stale), what = "dialog" <=> who = "dialog",
             Run(who, Job(what, steps, stale), job, slot), file' = file
      PROVE  FollowInv'
  <2> DEFINE j == Job(what, steps, stale)
  <2>1. /\ Shaped(j) /\ j.gen = gen /\ j.gen \in 1..gen /\ j.steps = steps /\ j.stale = stale
        /\ who = "panel" => j.before = Live
    <3>1. /\ Shaped(j) /\ j.gen = gen /\ j.steps = steps /\ j.stale = stale
          /\ what # "dialog" => j.before = Live
      BY JobShaped
    <3> QED BY <1>0, <1>1, <3>1
  <2>2. Run(who, j, job, slot)
    BY <1>1
  <2> HIDE DEF j
  <2>3. WritesOK(j.steps)
    BY <1>1, <2>1, Zenon DEF Planned
  <2>4. ~crossed => /\ Followed(file')
                    /\ who = "panel" => Followed(j.before)
                    /\ ~j.stale => Fit(stores[j.gen], j.steps)
    <3> SUFFICES ASSUME ~crossed PROVE /\ Followed(file')
                                       /\ who = "panel" => Followed(j.before)
                                       /\ ~j.stale => Fit(stores[j.gen], j.steps)
      OBVIOUS
    <3>1. Given /\ Followed(file)
      BY GivenIs, Zenon DEF FollowInv
    <3>2. Followed(Live) /\ (~stale => Fit(Live, steps))
      BY <1>1, <3>1, Zenon DEF Planned, Given
    <3> QED BY <1>1, <2>1, <3>1, <3>2 DEF Live
  <2>5. ~crossed /\ job[Other(who)] # NoJob => FollowedJob(Other(who), job[Other(who)])
    BY <1>0, Zenon DEF FollowInv
  <2> QED BY <1>0, <1>1, <2>1, <2>2, <2>3, <2>4, <2>5, RunFollows, Zenon
<1>2. CASE PlannedPanelWrites
  <2>1. PICK what \in Kinds \ {"dialog"} : \E steps, stale, slot :
            PanelWrite(what, steps, stale, slot) /\ Planned(steps, stale) /\ slot \in {None, undo}
    BY <1>2, Zenon DEF PlannedPanelWrites
  <2>2. PICK steps, stale, slot :
            PanelWrite(what, steps, stale, slot) /\ Planned(steps, stale) /\ slot \in {None, undo}
    BY <2>1, Zenon
  <2>3. Run("panel", Job(what, steps, stale), job, slot) /\ file' = file
    BY <2>2, Zenon DEF PanelWrite
  <2>4. what \in Kinds /\ (what = "dialog" <=> "panel" = "dialog")
    BY <2>1
  <2> QED BY <1>0, <1>1, <2>2, <2>3, <2>4, Zenon
<1>3. CASE PlannedDialogWrites
  <2>1. PICK steps, stale : DialogWrite(steps, stale) /\ Planned(steps, stale)
    BY <1>3, Zenon DEF PlannedDialogWrites
  <2>2. /\ Run("dialog", Job("dialog", steps, stale), job, undo) /\ file' = file
        /\ "dialog" \in Kinds /\ undo \in {None, undo}
    BY <2>1, Zenon DEF DialogWrite, Kinds
  <2> QED BY <1>0, <1>1, <2>1, <2>2, Zenon
<1>4. ASSUME NEW w \in Writers, SaveEnds(w) PROVE FollowInv'
  <2> DEFINE o == Other(w)
             jobs == Landed(w)
  <2>1. /\ job[w] # NoJob /\ Run(w, job[w], jobs, undo) /\ undo \in {None, undo}
        /\ file' = job[w].content \/ file' = file
    BY <1>4, Zenon DEF SaveEnds, SaveDone, SaveFails, NextSave, GoOn
  <2>2. Shaped(job[w]) /\ job[w].gen \in 1..gen /\ WritesOK(job[w].steps)
    BY <1>0, <2>1, Zenon DEF JobsOK, StoresInv, JobStores
  <2>3. JobsOK(jobs) /\ (jobs[o] # NoJob <=> job[o] # NoJob)
    BY <2>1, LandedIs
  <2> HIDE DEF jobs
  <2>4. ~crossed => /\ Followed(file')
                    /\ w = "panel" => Followed(job[w].before)
                    /\ ~job[w].stale => Fit(stores[job[w].gen], job[w].steps)
    BY <2>1, Zenon DEF FollowInv, FollowedJob
  <2>5. ~crossed /\ jobs[Other(w)] # NoJob => FollowedJob(Other(w), jobs[Other(w)])
    BY <2>1, <2>3, Zenon DEF FollowInv
  <2> QED BY <2>1, <2>2, <2>3, <2>4, <2>5, RunFollows, Zenon
<1>5. CASE DialogLoads \/ Setup
  <2>1. StoreRead /\ UNCHANGED <<job, file, undo, crossed>>
    BY <1>5, Zenon DEF DialogLoads, Setup, entryVars
  <2>2. gen' = (IF Working THEN gen + 1 ELSE 1)
        /\ stores' = [g \in 1 .. gen' |-> IF g = gen' THEN file ELSE stores[g]]
    BY <2>1, Zenon DEF StoreRead
  <2> SUFFICES ASSUME ~crossed PROVE FollowInv'
    BY <2>1, Zenon DEF FollowInv
  <2>3. /\ Followed(file) /\ (\A g \in 1..gen : Followed(stores[g]))
        /\ (\A w \in Writers : job[w] # NoJob => FollowedJob(w, job[w]) /\ job[Other(w)] = NoJob)
        /\ undo # None => Followed(undo.to)
    BY Zenon DEF FollowInv
  <2>4. \A g \in 1..gen' : g = gen' \/ g \in 1..gen
    BY <1>0, <2>2
  <2>5. \A g \in 1..gen' : Followed(stores'[g])
    BY <2>2, <2>3, <2>4
  <2>6. ASSUME NEW w \in Writers, job[w] # NoJob PROVE stores'[job[w].gen] = stores[job[w].gen]
    <3>1. Working /\ job[w].gen \in 1..gen
      BY <1>0, <2>6, Zenon DEF Working, JobsOK
    <3>2. job[w].gen \in 1..gen' /\ job[w].gen # gen'
      BY <1>0, <2>2, <3>1
    <3> QED BY <2>2, <3>2
  <2>7. \A w \in Writers : job'[w] # NoJob => FollowedJob(w, job[w])' /\ job'[Other(w)] = NoJob
    BY <2>1, <2>3, <2>6, Zenon DEF FollowedJob
  <2> QED BY <2>1, <2>3, <2>5, <2>7, Zenon DEF FollowInv
<1>6. CASE UnloadDue \/ Unload
  <2>1. UNCHANGED <<stores, gen, job, file, undo, crossed>>
    BY <1>6, Zenon DEF UnloadDue, Unload, UnloadEntry
  <2> QED BY <2>1, Zenon DEF FollowInv, FollowedJob
<1>7. CASE Restart
  <2>1. /\ gen' = 1 /\ stores' = [g \in {1} |-> file] /\ file' = file /\ crossed' = crossed
        /\ job' = [w \in Writers |-> NoJob] /\ undo' = None
    BY <1>7, Zenon DEF Restart
  <2>2. 1..gen' = {1}
    BY <2>1
  <2> SUFFICES ASSUME ~crossed PROVE FollowInv'
    BY <2>1, Zenon DEF FollowInv
  <2>3. Followed(file)
    BY Zenon DEF FollowInv
  <2>4. (\A g \in 1..gen' : Followed(stores'[g])) /\ \A w \in Writers : job'[w] = NoJob
    BY <2>1, <2>2, <2>3
  <2> QED BY <2>1, <2>3, <2>4, Zenon DEF FollowInv
<1>8. CASE Rests
  <2>1. UNCHANGED <<stores, gen, job, file, crossed>> /\ undo' \in {None, undo}
    BY <1>8, Zenon DEF Rests
  <2>2. ~crossed /\ undo' # None => Followed(undo'.to)
    BY <2>1 DEF FollowInv
  <2> QED BY <2>1, <2>2, Zenon DEF FollowInv, FollowedJob
<1> QED BY <1>0, <1>2, <1>3, <1>4, <1>5, <1>6, <1>7, <1>8, PlannedKinds, Zenon

LEMMA FollowAlways == PanelSpec => [](MemoryInv /\ StoresInv /\ FollowInv)
<1>1. PanelInit => FollowInv
  <2> SUFFICES ASSUME PanelInit PROVE FollowInv
    OBVIOUS
  <2>1. /\ gen = 1 /\ stores = [g \in {1} |-> InitialStore] /\ file = InitialStore
        /\ job = [w \in Writers |-> NoJob] /\ undo = None
    BY Zenon DEF PanelInit
  <2>2. 1..gen = {1} /\ Followed(InitialStore)
    BY <2>1, PanelAssumption DEF PanelAssumption
  <2>3. (\A g \in 1..gen : Followed(stores[g])) /\ \A w \in Writers : job[w] = NoJob
    BY <2>1, <2>2
  <2> QED BY <2>1, <2>2, <2>3, Zenon DEF FollowInv
<1>2. MemoryInv /\ StoresInv /\ UndoInv /\ FollowInv /\ [PanelNext]_panelVars => FollowInv'
  BY FollowStep
<1> QED BY StoresAlways, <1>1, <1>2, PTL DEF PanelSpec

\* No cover is left following a profile nobody defines, unless two writers crossed; no
\* record says nothing and no cover is in the order twice, come what may.
THEOREM NobodyIsLeftFollowing == PanelSpec => []FollowersStayDefined
<1>1. MemoryInv /\ StoresInv /\ FollowInv => FollowersStayDefined
  <2> SUFFICES ASSUME MemoryInv, StoresInv, FollowInv PROVE FollowersStayDefined
    OBVIOUS
  <2>1. DOMAIN stores = 1..gen
    BY DEF MemoryInv
  <2>2. \A s : StoreOK(s) => Tidy(s)
    BY Zenon DEF StoreOK, Tidy, Said
  <2> QED BY <2>1, <2>2, Zenon DEF StoresInv, FollowInv, FollowersStayDefined, SoundStore
<1> QED BY FollowAlways, <1>1, PTL
=============================================================================
