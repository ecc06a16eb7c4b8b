---------------------------- MODULE PanelWrite ----------------------------
(***************************************************************************)
(* Who writes the stored calibrations of a gateway, and when: the panel's   *)
(* commands behind their lock (panel_write.py), the guided dialog beside    *)
(* them (calibration_flow.py), the saves on their way to the disk, the one  *)
(* slot of undo, the covers that run on what is stored, and the entry that  *)
(* is unloaded and set up under all of it (__init__.py).                    *)
(*                                                                          *)
(* A command is a sequence of steps of CalibrationStore.  It changes the    *)
(* store in memory and awaits the file once per step that changes anything; *)
(* between two awaits nothing else runs, so Run takes it from one save to   *)
(* the next, or to its end.                                                 *)
(***************************************************************************)
EXTENDS CalibrationStore

CONSTANTS InitialStore,   \* the file when Home Assistant starts
          Batches,        \* the batches a client sends: sequences of [cover, profile]
          Drags,          \* the orders a client sends: sequences without repeats
          Windows,        \* the covers whose own record is edited, or calibrated
          MaxCommands,    \* bound: commands of the panel in a behaviour
          MaxDialog,      \* bound: writes of the dialog in a behaviour
          MaxFaults,      \* bound: restarts, saves the disk refuses, and unloads
                          \* that no change of the dialog asked for
          MaxEvents       \* bound: all three of them together

\* The profiles something can follow: the store's and the file's.
Defined(s) == {n \in Names : MergedProfile(s, n) # None}

\* Every follower has a profile.
Followed(s) == \A c \in Covers : Record(s, c).profile \in Defined(s) \cup {None}

\* No record says nothing, and no cover is in the order twice.
Tidy(s) ==
    /\ \A c \in Covers : s.covers[c] # None => SaysAnything(s.covers[c])
    /\ IsInjective(s.order)

ASSUME PanelAssumption ==
    /\ InitialStore \in Stores /\ Followed(InitialStore) /\ Tidy(InitialStore)
    /\ Batches \subseteq Seq([cover : Covers, profile : Names \cup {None}])
    /\ Drags \subseteq Seq(Covers) /\ Windows \subseteq Covers
    /\ MaxCommands \in Nat /\ MaxDialog \in Nat /\ MaxFaults \in Nat /\ MaxEvents \in Nat

VARIABLES
    stores,     \* the store objects somebody still holds, by number
    gen,        \* the number of the last one made, which is the entry's
    cached,     \* whether the entry's store object is in hass.data
    file,       \* what the disk holds
    job,        \* what the panel and the dialog are in the middle of, or NoJob; a
                \* job always has a save on its way to the disk
    undo,       \* the slot of the panel's "Annulla", or None
    loaded,     \* the config entry is set up
    runsOn,     \* the travel model each cover runs on
    measuring,  \* the guided calibration that holds a cover, or None
    dialog,     \* what the dialog has stored, and whether a reload is due for it
    crossed,    \* two writers wrote across each other, or a choice was stale (history)
    theirs,     \* the records the dialog was the last to write inside the panel's
                \* latest command (history)
    lost,       \* a save failed, or the entry was unloaded under one (history)
    spent       \* how much of each bound is used (history)

memoryVars == <<stores, gen, cached, undo>>
entryVars == <<loaded, runsOn, measuring>>
panelVars == <<stores, gen, cached, file, job, undo, loaded, runsOn, measuring,
               dialog, crossed, theirs, lost, spent>>

Writers == {"panel", "dialog"}
Other(w) == IF w = "panel" THEN "dialog" ELSE "panel"
NoJob == [what |-> "none"]
Working == \E w \in Writers : job[w] # NoJob
Live == stores[gen]

EmptyStore == [profiles |-> [n \in Names |-> None], covers |-> [c \in Covers |-> None],
               order |-> <<>>]
ModelOf(s) == [c \in Covers |-> Resolve(s, c)]

CanSpend(what, bound) ==
    /\ spent[what] < bound
    /\ spent["commands"] + spent["dialog"] + spent["faults"] < MaxEvents
Spend(what, bound) ==
    /\ CanSpend(what, bound)
    /\ spent' = [spent EXCEPT ![what] = @ + 1]

\* CalibrationStore.async_load: a new object for the entry.  The old ones are kept as
\* long as a writer has one in its hands.
StoreRead ==
    /\ gen' = IF Working THEN gen + 1 ELSE 1
    /\ stores' = [g \in 1 .. gen' |-> IF g = gen' THEN file ELSE stores[g]]
    /\ cached' = TRUE

--------------------------------------------------------------------------
(* One writer, from save to save *)

\* _remember, which an undo and the session's own save do not call.
Remember(j, after, slot) ==
    CASE j.what \in {"undo", "session"} -> slot
      [] j.what = "command" /\ j.before = after -> None
      [] OTHER -> [diff |-> Diff(j.before, after), to |-> j.before]

\* Mutant of Announced: only a write that can be taken back is announced.
AnnouncedWithItsToken(j, after) == loaded /\ j.what = "command" /\ j.before # after

\* SIGNAL_CALIBRATION_CHANGED reaches the covers of a loaded entry.
Announced(j, after) == loaded /\ j.before # after

\* The end of async_write: the lock, the undo and the signal.
PanelDone(j, jobs, slot) ==
    /\ job' = [jobs EXCEPT !["panel"] = NoJob]
    /\ undo' = Remember(j, stores[j.gen], slot)
    /\ runsOn' = IF Announced(j, stores[j.gen])
                 THEN ModelOf(IF cached THEN Live ELSE EmptyStore)
                 ELSE runsOn
    /\ UNCHANGED dialog

\* The end of a write of the dialog: it remembers that it has changed something,
\* unless nobody is left to remember it.
DialogDone(jobs, slot) ==
    /\ job' = [jobs EXCEPT !["dialog"] = NoJob]
    /\ dialog' = IF dialog = "left" THEN dialog ELSE "changed"
    /\ undo' = slot
    /\ UNCHANGED runsOn

\* Mutant of Withdrawn: the slot is the panel's, and only the panel empties it.
WithdrawnByThePanel(who, slot) == IF who = "panel" THEN None ELSE slot

\* forget_the_undo: the first thing any save does.
Withdrawn(who, slot) == None

\* Mutant of Saved: the save is called before the change is made.
SavedBefore(j, after) == stores[j.gen]

\* What _async_save hands to the disk: the store as the step has just made it.
Saved(j, after) == after

\* Store.async_save makes the saves of one object one after the other.
Behind(j, other) == other # NoJob /\ other.gen = j.gen

\* The job of `who`, its step made and saved.
Queued(who, j, i, after, jobs) ==
    [jobs EXCEPT ![who] =
        [j EXCEPT !.steps = SubSeq(j.steps, i + 1, Len(j.steps)),
                  !.content = Saved(j, after),
                  !.behind = Behind(j, jobs[Other(who)])]]

\* The records two readings of a store disagree about.
Touched(s, t) ==
    {<<"cover", c>> : c \in {d \in Covers : s.covers[d] # t.covers[d]}} \cup
    {<<"profile", n>> : n \in {m \in Names : s.profiles[m] # t.profiles[m]}}

\* What is the dialog's, once `who` has written: a command of the panel begins with
\* nothing, and what it writes again is its own again.
LastWritten(who, j, after, jobs) ==
    LET now == Touched(stores[j.gen], after)
    IN CASE who = "panel" -> IF j.content = None THEN {} ELSE theirs \ now
         [] jobs["panel"] = NoJob -> theirs
         [] OTHER -> theirs \cup now

\* The steps of a command that are still to be saved.
Due(j) == {i \in DOMAIN j.steps : Saves(stores[j.gen], j.steps[i])}

\* From here to the next await: the next step that changes anything, or the end.
Run(who, j, jobs, slot) ==
    /\ IF Due(j) = {}
       THEN /\ IF who = "panel" THEN PanelDone(j, jobs, slot) ELSE DialogDone(jobs, slot)
            /\ UNCHANGED <<stores, crossed, theirs>>
       ELSE LET i == Min(Due(j))
                after == Apply(stores[j.gen], j.steps[i])
            IN /\ stores' = [stores EXCEPT ![j.gen] = after]
               /\ job' = Queued(who, j, i, after, jobs)
               /\ undo' = Withdrawn(who, slot)
               /\ crossed' = (crossed \/ j.stale \/ jobs[Other(who)] # NoJob)
               /\ theirs' = LastWritten(who, j, after, jobs)
               /\ UNCHANGED <<runsOn, dialog>>
    /\ UNCHANGED gen

\* Saves of one store object are made in order; those of two objects are not.
NextSave(w) == job[w] # NoJob /\ ~job[w].behind

\* The other writer's save of the same object takes the content as it is by now.
Landed(w) ==
    [v \in Writers |->
        IF v # w /\ job[v] # NoJob /\ job[v].gen = job[w].gen
        THEN [job[v] EXCEPT !.behind = FALSE, !.content = stores[job[v].gen]]
        ELSE job[v]]

GoOn(w) == Run(w, job[w], Landed(w), undo)

SaveDone(w) ==
    /\ NextSave(w)
    /\ file' = job[w].content
    /\ GoOn(w)
    /\ UNCHANGED <<cached, loaded, measuring, lost, spent>>

\* A write the disk refuses is logged, and answered as if it had been made.
SaveFails(w) ==
    /\ NextSave(w)
    /\ Spend("faults", MaxFaults)
    /\ lost' = TRUE
    /\ GoOn(w)
    /\ UNCHANGED <<cached, file, loaded, measuring>>

--------------------------------------------------------------------------
(* The panel's commands *)

\* A command as it begins; its first step has no content yet.
Job(what, steps, stale) ==
    [what |-> what, steps |-> steps, stale |-> stale,
     before |-> IF what = "dialog" THEN None ELSE Live,
     gen |-> gen, content |-> None, behind |-> FALSE]

\* _refuse_if_busy
Busy(what) ==
    \/ measuring # None /\ ~(what = "session" /\ measuring.by = "panel")
    \/ job["panel"] # NoJob

\* async_write: the lock is taken without an await after the refusals.
PanelWrite(what, steps, stale, slot) ==
    /\ loaded /\ ~Busy(what)
    /\ Spend("commands", MaxCommands)
    /\ Run("panel", Job(what, steps, stale), job, slot)
    /\ UNCHANGED <<cached, file, loaded, measuring, lost>>

PanelCommand(steps) == PanelWrite("command", steps, FALSE, undo)

\* _known_travel
KnownTravel(c) == Record(Live, c).height # None \/ FileHeight[c] # None

\* What a batch says of each cover.
ItemsOf(batch, height) ==
    [c \in Covers |->
        IF \E i \in DOMAIN batch : batch[i].cover = c
        THEN [profile |-> batch[CHOOSE i \in DOMAIN batch : batch[i].cover = c].profile,
              height |-> height]
        ELSE Kept]

\* _Problem: one item of a batch that cannot be written.
Problem(item, height) ==
    /\ item.profile # None
    /\ item.profile \notin Defined(Live) \/ (height = None /\ ~KnownTravel(item.cover))

\* async_assign: nothing is applied unless every item passes.
Assign(batch, height, order) ==
    /\ \A i \in DOMAIN batch : ~Problem(batch[i], height)
    /\ PanelCommand(<<[op |-> "assign", items |-> ItemsOf(batch, height)],
                      IF order # None THEN [op |-> "order", order |-> order]
                      ELSE [op |-> "append", before |-> Live,
                            rows |-> [i \in DOMAIN batch |-> batch[i].cover]]>>)

\* async_reorder: the whole list, or one group's.
Reorder(order) == PanelCommand(<<[op |-> "order", order |-> order]>>)
ReorderGroup(group, order) ==
    /\ \A i \in DOMAIN order : ProfileNow(Live, order[i]) = group
    /\ PanelCommand(<<[op |-> "order", order |-> GroupReordered(Live, group, order)]>>)

\* _rewritten_record, _store_the_record
RecordStep(c, height, own) ==
    [op |-> "record", cover |-> c,
     record |-> KeptRecord([Record(Live, c) EXCEPT !.height = height, !.own = own])]

SetTravel(c, height) == PanelCommand(<<RecordStep(c, height, Record(Live, c).own)>>)
CoverEdit(c, own) == PanelCommand(<<RecordStep(c, Record(Live, c).height, own)>>)
ForgetStep(c) == [op |-> "record", cover |-> c, record |-> None]
CoverForget(c) == PanelCommand(<<ForgetStep(c)>>)

\* _stored_profile: a profile of the file is shown and not written.
StoredProfile(n) == Live.profiles[n] # None

ProfileStep(n, numbers) == [op |-> "profile", name |-> n, numbers |-> numbers]
ProfileEdit(n, numbers) ==
    /\ StoredProfile(n)
    /\ PanelCommand(<<ProfileStep(n, numbers)>>)

\* Mutant of RenameSteps: the followers are repointed before the new name is there.
RenameRepointsFirst(n, new) ==
    <<[op |-> "assign", items |->
        [c \in Covers |-> IF c \in CoversFollowing(Live, n)
                          THEN [profile |-> new, height |-> None] ELSE Kept]],
      ProfileStep(new, Live.profiles[n]), [op |-> "remove", name |-> n]>>

\* async_profile_rename: the new name, its followers, and only then the old one goes.
RenameSteps(n, new) ==
    <<ProfileStep(new, Live.profiles[n]),
      [op |-> "assign", items |->
        [c \in Covers |-> IF c \in CoversFollowing(Live, n)
                          THEN [profile |-> new, height |-> None] ELSE Kept]],
      [op |-> "remove", name |-> n]>>

ProfileRename(n, new) ==
    /\ StoredProfile(n) /\ new \notin Defined(Live)
    /\ PanelCommand(RenameSteps(n, new))

RemoveStep(n) == [op |-> "remove", name |-> n]
ProfileDelete(n) == StoredProfile(n) /\ PanelCommand(<<RemoveStep(n)>>)

\* async_undo: the slot is emptied, then its records are put back; after a save was
\* lost they may be the records of another store.
Undo ==
    /\ undo # None
    /\ PanelWrite("undo", <<[op |-> "restore", diff |-> undo.diff]>>, lost, None)

\* UNDO_TTL
UndoExpires == undo # None /\ undo' = None
    /\ UNCHANGED <<stores, gen, cached, file, job, entryVars, dialog, crossed, theirs, lost,
                   spent>>

\* The record Save leaves on the window: path A's ("first", or "alone" when the panel
\* keeps the numbers off the profiles), path B's ("same") and path C's ("refine").
MeasuredRecord(by, path, r, n, number) ==
    CASE path = "alone" -> [r EXCEPT !.height = number, !.own = number]
      [] path = "refine" -> [r EXCEPT !.profile = n, !.wins = TRUE, !.own = number]
      [] OTHER -> [profile |-> n, wins |-> by = "panel" \/ path = "same", height |-> number,
                   own |-> IF by = "dialog" /\ path = "first" THEN number ELSE None]

\* Everything Save writes: path A measures a profile first.
MeasuredSteps(path, n, number) ==
    LET c == measuring.cover
        save == [op |-> "record", cover |-> c,
                 record |-> MeasuredRecord(measuring.by, path, Record(Live, c), n, number)]
    IN IF path = "first" THEN <<ProfileStep(n, number), save>> ELSE <<save>>

\* Paths B and C follow a profile that was chosen before the measurements.
StaleChoice(path, n) == path \in {"same", "refine"} /\ n \notin Defined(Live)

SessionSave(path, n, number) ==
    /\ measuring # None /\ measuring.by = "panel"
    /\ PanelWrite("session", MeasuredSteps(path, n, number), StaleChoice(path, n), undo)

--------------------------------------------------------------------------
(* The dialog: the same records, without the lock and without the signal *)

DialogWrite(steps, stale) ==
    /\ dialog \in {"open", "changed"} /\ cached /\ job["dialog"] = NoJob
    /\ Spend("dialog", MaxDialog)
    /\ Due(Job("dialog", steps, stale)) # {}
    /\ Run("dialog", Job("dialog", steps, stale), job, undo)
    /\ UNCHANGED <<cached, file, loaded, measuring, lost>>

\* async_get_store, by a dialog that is still open after its entry went down.
DialogLoads ==
    /\ dialog \in {"open", "changed"} /\ ~cached /\ CanSpend("dialog", MaxDialog)
    /\ StoreRead
    /\ UNCHANGED <<file, job, undo, entryVars, dialog, crossed, theirs, lost, spent>>

\* The form may have been shown before the profile it offered was removed.
DialogAssign(c, n) ==
    LET items == [d \in Covers |-> IF d = c THEN [profile |-> n, height |-> None] ELSE Kept]
    IN DialogWrite(<<[op |-> "assign", items |-> items]>>, n \notin Defined(Live) \cup {None})

DialogEdit(c, own) == DialogWrite(<<RecordStep(c, Record(Live, c).height, own)>>, FALSE)
DialogForget(c) == DialogWrite(<<ForgetStep(c)>>, FALSE)
DialogProfile(n, numbers) ==
    Live.profiles[n] # None /\ DialogWrite(<<ProfileStep(n, numbers)>>, FALSE)
DialogDelete(n) == DialogWrite(<<RemoveStep(n)>>, FALSE)

DialogSave(path, n, number) ==
    /\ measuring # None /\ measuring.by = "dialog"
    /\ DialogWrite(MeasuredSteps(path, n, number), StaleChoice(path, n))

\* Mutant of Closed: only the step "Chiudi" asks for the reload.
ClosedByTheX == "open"

\* OptionsFlow.async_remove, however the dialog is left.  One that is left in the
\* middle of a save has not marked the change yet, and nothing will reload for it.
Closed == IF job["dialog"] # NoJob THEN "left" ELSE "due"

DialogCloses ==
    /\ dialog = "changed" \/ (dialog = "open" /\ job["dialog"] # NoJob)
    /\ dialog' = Closed
    /\ measuring' = IF measuring # None /\ measuring.by = "dialog" THEN None ELSE measuring
    /\ UNCHANGED <<memoryVars, file, job, loaded, runsOn, crossed, theirs, lost, spent>>

--------------------------------------------------------------------------
(* Measurements, and the entry *)

\* Starting a calibration looks at the other calibrations, and not at the lock.
StartMeasuring(who, c) ==
    /\ loaded /\ measuring = None /\ (who = "dialog" => dialog \in {"open", "changed"})
    /\ CanSpend(IF who = "panel" THEN "commands" ELSE "dialog",
                IF who = "panel" THEN MaxCommands ELSE MaxDialog)
    /\ measuring' = [by |-> who, cover |-> c]
    /\ UNCHANGED <<memoryVars, file, job, loaded, runsOn, dialog, crossed, theirs, lost, spent>>

EndMeasuring ==
    /\ measuring # None /\ job[measuring.by] = NoJob
    /\ measuring' = None
    /\ UNCHANGED <<memoryVars, file, job, loaded, runsOn, dialog, crossed, theirs, lost, spent>>

\* async_unload_entry: the sessions are ended and the store is forgotten; a write
\* that is under way keeps the object it has.
UnloadEntry ==
    /\ loaded
    /\ loaded' = FALSE /\ cached' = FALSE /\ measuring' = None
    /\ lost' = (lost \/ Working)
    /\ UNCHANGED <<stores, gen, file, job, undo, runsOn, crossed, theirs>>

UnloadDue ==
    /\ dialog = "due"
    /\ UnloadEntry /\ dialog' = "open"
    /\ UNCHANGED spent

Unload ==
    /\ Spend("faults", MaxFaults)
    /\ UnloadEntry /\ UNCHANGED dialog

\* async_setup_entry reads the file again, whoever has loaded it in between.
Setup ==
    /\ ~loaded
    /\ StoreRead
    /\ loaded' = TRUE /\ runsOn' = ModelOf(file)
    /\ lost' = (lost \/ Working)
    /\ UNCHANGED <<file, job, undo, measuring, dialog, crossed, theirs, spent>>

\* Home Assistant stops, however abruptly, and comes back.
Restart ==
    /\ Spend("faults", MaxFaults)
    /\ stores' = [g \in {1} |-> file] /\ gen' = 1 /\ cached' = TRUE
    /\ loaded' = TRUE /\ runsOn' = ModelOf(file)
    /\ job' = [w \in Writers |-> NoJob] /\ undo' = None
    /\ measuring' = None /\ dialog' = "open" /\ lost' = FALSE
    /\ theirs' = {}
    /\ UNCHANGED <<file, crossed>>

PanelInit ==
    /\ stores = [g \in {1} |-> InitialStore] /\ gen = 1 /\ cached = TRUE
    /\ file = InitialStore /\ job = [w \in Writers |-> NoJob] /\ undo = None
    /\ loaded = TRUE /\ runsOn = ModelOf(InitialStore) /\ measuring = None
    /\ dialog = "open" /\ crossed = FALSE /\ theirs = {} /\ lost = FALSE
    /\ spent = [w \in {"commands", "dialog", "faults"} |-> 0]

PanelActs ==
    \/ \E batch \in Batches, height \in Numbers \cup {None}, order \in Drags \cup {None} :
            Assign(batch, height, order)
    \/ \E order \in Drags : Reorder(order)
    \/ \E group \in Names \cup {None}, order \in Drags : ReorderGroup(group, order)
    \/ \E c \in Windows, number \in Numbers \cup {None} : SetTravel(c, number)
    \/ \E c \in Windows, number \in Numbers \cup {None} : CoverEdit(c, number)
    \/ \E c \in Windows : CoverForget(c)
    \/ \E n \in Names, number \in Numbers : ProfileEdit(n, number)
    \/ \E n, new \in Names : ProfileRename(n, new)
    \/ \E n \in Names : ProfileDelete(n)
    \/ \E path \in {"first", "alone", "same", "refine"}, n \in Names, number \in Numbers :
            SessionSave(path, n, number)
    \/ Undo
    \/ UndoExpires

DialogActs ==
    \/ DialogLoads
    \/ \E c \in Windows, n \in Names \cup {None} : DialogAssign(c, n)
    \/ \E c \in Windows, number \in Numbers \cup {None} : DialogEdit(c, number)
    \/ \E c \in Windows : DialogForget(c)
    \/ \E n \in Names, number \in Numbers : DialogProfile(n, number)
    \/ \E n \in Names : DialogDelete(n)
    \/ \E path \in {"first", "same", "refine"}, n \in Names, number \in Numbers :
            DialogSave(path, n, number)
    \/ DialogCloses

EntryActs ==
    \/ \E w \in Writers : SaveDone(w)
    \/ \E w \in Writers : SaveFails(w)
    \/ \E who \in Writers, c \in Windows : StartMeasuring(who, c)
    \/ EndMeasuring
    \/ UnloadDue
    \/ Unload
    \/ Setup
    \/ Restart

PanelNext == PanelActs \/ DialogActs \/ EntryActs

PanelSpec == PanelInit /\ [][PanelNext]_panelVars

--------------------------------------------------------------------------
(* Properties *)

\* What "Annulla" would make of the store, were it pressed now.
Back == Restore(Live, undo.diff)

\* "Annulla", while it is offered, puts every record and the order back exactly as they
\* were before the command it stands for, whatever has been written, edited, reloaded or
\* expired since.  The records the dialog wrote inside that command are left out.
UndoIsExact ==
    undo # None /\ ~lost =>
        /\ \A c \in Covers : <<"cover", c>> \notin theirs => Back.covers[c] = undo.to.covers[c]
        /\ \A n \in Names :
            <<"profile", n>> \notin theirs => Back.profiles[n] = undo.to.profiles[n]
        /\ Back.order = undo.to.order

\* ... and those it leaves as the dialog has saved them: an undo that is still offered
\* loses no write of the guided dialog (calibration_store.py:158, panel_write.py:224).
UndoSparesTheDialog ==
    undo # None /\ ~lost =>
        /\ \A c \in Covers : <<"cover", c>> \in theirs => Back.covers[c] = Live.covers[c]
        /\ \A n \in Names :
            <<"profile", n>> \in theirs => Back.profiles[n] = Live.profiles[n]

\* No cover is left following a profile nobody defines, in memory or on the disk, at
\* any point of a command of several saves or after a restart between two of them; no
\* record says nothing; no cover is in the order twice.
SoundStore(s) == (~crossed => Followed(s)) /\ Tidy(s)
FollowersStayDefined == SoundStore(file) /\ \A g \in DOMAIN stores : SoundStore(stores[g])

\* What is in memory is on the disk as soon as no save is on its way, so the reload that
\* follows a write cannot undo it.
StoreIsOnDisk == ~Working /\ ~lost => file = Live

\* With nothing being written and no reload due, every cover runs on what the store
\* says of it now.
CoversRunOnTheStore ==
    loaded /\ dialog = "open" /\ ~Working
        => runsOn = ModelOf(Live)

===========================================================================
