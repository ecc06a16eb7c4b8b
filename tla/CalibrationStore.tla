------------------------- MODULE CalibrationStore -------------------------
(***************************************************************************)
(* The stored calibrations of one gateway (calibration_store.py) as a      *)
(* value, its writers as operators, and the precedence by which a cover's  *)
(* travel model is read off it.  Everything a writer may touch is here; who *)
(* writes, and when, is in PanelWrite.                                      *)
(*                                                                          *)
(* A profile is its numbers, and a number is a member of a small set: no    *)
(* rule of the store looks inside one.  A cover has one travel key.         *)
(***************************************************************************)
EXTENDS Integers, Sequences, FiniteSets, SequencesExt

CONSTANTS Covers,        \* the basic covers of the gateway, by unique id
          Gateway,       \* the same, in the order of myhome.yaml
          Names,         \* profile names
          Numbers,       \* what a measurement, or a tape, may say
          None,          \* no such record, no such key
          Kept,          \* a key an undo does not mention
          FileProfiles,  \* cover_profiles: the numbers of a name, or None
          FileFollows,   \* profile: the name a cover follows in the file, or None
          FileWrites,    \* the covers whose travel key the file writes
          FileHeight     \* height: a cover's travel in the file, or None

Records == [profile : Names \cup {None}, wins : BOOLEAN,
            height : Numbers \cup {None}, own : Numbers \cup {None}]

ASSUME StoreAssumption ==
    /\ Gateway \in Seq(Covers)
    /\ None \notin Numbers \cup Names /\ Kept \notin Numbers \cup Names \cup {None}
    /\ {None, Kept} \cap Records = {}
    /\ FileProfiles \in [Names -> Numbers \cup {None}]
    /\ FileFollows \in [Covers -> Names \cup {None}]
    /\ FileHeight \in [Covers -> Numbers \cup {None}]
    /\ FileWrites \subseteq Covers

Orders == Seq(Covers)
Stores == [profiles : [Names -> Numbers \cup {None}],
           covers : [Covers -> Records \cup {None}],
           order : Orders]

NoRecord == [profile |-> None, wins |-> FALSE, height |-> None, own |-> None]

\* stored_calibration: a cover without a record reads as an empty one.
Record(s, c) == IF s.covers[c] = None THEN NoRecord ELSE s.covers[c]

\* StoredCalibration.says_anything
SaysAnything(r) == r.own # None \/ r.profile # None \/ r.height # None

\* A record that has stopped saying anything is not kept.
KeptRecord(r) == IF SaysAnything(r) THEN r ELSE None

\* A name as the integration knows it; the stored profile wins a clash.
MergedProfile(s, n) ==
    CASE n = None -> None
      [] n # None /\ s.profiles[n] # None -> s.profiles[n]
      [] OTHER -> FileProfiles[n]

CoversFollowing(s, n) == {c \in Covers : Record(s, c).profile = n}

--------------------------------------------------------------------------
(* The order: one flat list, of which a group is a slice *)

\* What a list holds at some of its places, in their order: a comprehension over it.
Nth(places, i) == CHOOSE k \in places : Cardinality({j \in places : j <= k}) = i
Picked(list, places) == [i \in 1 .. Cardinality(places) |-> list[Nth(places, i)]]
Only(list, S) == Picked(list, {k \in DOMAIN list : list[k] \in S})

\* normalised_order, with the ids that name no cover of the gateway left out.
NormalisedOrder(order) ==
    Picked(order, {k \in DOMAIN order : \A j \in 1 .. k - 1 : order[j] # order[k]})

\* ordered: the covers the list names first, then the others as the file has them.
Ordered(s) ==
    Only(s.order, ToSet(Gateway)) \o Only(Gateway, Covers \ ToSet(s.order))

\* _profile_now: the group a cover is in.
ProfileNow(s, c) == IF Record(s, c).profile # None THEN Record(s, c).profile ELSE FileFollows[c]

\* One cover taken out of the list and put back behind the last of its group.
MovedBehindItsGroup(s, order, c) ==
    LET rest == Only(order, ToSet(order) \ {c})
        group == {i \in DOMAIN rest : ProfileNow(s, rest[i]) = ProfileNow(s, c)}
        at == IF group = {} THEN Len(rest) ELSE Max(group)
    IN SubSeq(rest, 1, at) \o <<c>> \o SubSeq(rest, at + 1, Len(rest))

\* _appended_to_their_groups: the moved covers, one after the other.
AppendedToTheirGroups(s, moved) ==
    LET after[i \in 0 .. Len(moved)] ==
            IF i = 0 THEN Ordered(s) ELSE MovedBehindItsGroup(s, after[i - 1], moved[i])
    IN after[Len(moved)]

\* async_reorder of one group: its seats, filled again in the order asked for.
GroupReordered(s, group, wanted) ==
    LET before == Ordered(s)
        Member(c) == ProfileNow(s, c) = group
        filled == wanted \o Only(before, {c \in Covers : Member(c)} \ ToSet(wanted))
        Seat(i) == Cardinality({j \in 1 .. i : Member(before[j])})
    IN [i \in DOMAIN before |-> IF Member(before[i]) THEN filled[Seat(i)] ELSE before[i]]

--------------------------------------------------------------------------
(* The writers.  A step of a command is a record whose `op` names its writer *)

\* async_remove_profile: the followers lose the name, and a mute record goes.
RemoveProfile(s, n) ==
    IF s.profiles[n] = None THEN s
    ELSE [s EXCEPT
            !.profiles[n] = None,
            !.covers = [c \in Covers |->
                IF c \in CoversFollowing(s, n)
                THEN KeptRecord([s.covers[c] EXCEPT !.profile = None, !.wins = FALSE])
                ELSE s.covers[c]]]

\* One item of async_set_assignments; a profile assigned is one that wins.
Assigned(r, item) ==
    [r EXCEPT !.profile = item.profile, !.wins = item.profile # None,
              !.height = IF item.height # None THEN item.height ELSE r.height]

\* async_set_assignments: a record is only looked at again when it moved.
SetAssignments(s, items) ==
    [s EXCEPT !.covers = [c \in Covers |->
        IF items[c] = Kept \/ Assigned(Record(s, c), items[c]) = Record(s, c)
        THEN s.covers[c]
        ELSE KeptRecord(Assigned(Record(s, c), items[c]))]]

\* async_set_profile, async_set_calibration / async_remove_calibration, async_set_order
SetProfile(s, n, numbers) == [s EXCEPT !.profiles[n] = numbers]
SetCalibration(s, c, r) == [s EXCEPT !.covers[c] = r]
SetOrder(s, order) == [s EXCEPT !.order = NormalisedOrder(order)]

\* panel_write._diff: what `before` said about every record `after` disagrees with.
Diff(before, after) ==
    LET Was(old, new) == IF old = new THEN Kept ELSE old
    IN [profiles |-> [n \in Names |-> Was(before.profiles[n], after.profiles[n])],
        covers |-> [c \in Covers |-> Was(before.covers[c], after.covers[c])],
        order |-> IF before.order = after.order THEN <<>> ELSE <<before.order>>]

\* async_restore: the records the diff mentions, as it has them; no other.
Restore(s, d) ==
    [profiles |-> [n \in Names |-> IF d.profiles[n] = Kept THEN s.profiles[n] ELSE d.profiles[n]],
     covers |-> [c \in Covers |-> IF d.covers[c] = Kept THEN s.covers[c] ELSE d.covers[c]],
     order |-> IF d.order = <<>> THEN s.order ELSE NormalisedOrder(d.order[1])]

\* What one step of a command makes of the store.
Apply(s, step) ==
    CASE step.op = "profile" -> SetProfile(s, step.name, step.numbers)
      [] step.op = "remove" -> RemoveProfile(s, step.name)
      [] step.op = "record" -> SetCalibration(s, step.cover, step.record)
      [] step.op = "assign" -> SetAssignments(s, step.items)
      [] step.op = "order" -> SetOrder(s, step.order)
      [] step.op = "append" ->
            LET moved == Only(step.rows, {c \in Covers :
                            Record(step.before, c).profile # Record(s, c).profile})
            IN IF moved = <<>> THEN s ELSE SetOrder(s, AppendedToTheirGroups(s, moved))
      [] step.op = "restore" -> Restore(s, step.diff)

\* Whether the step writes the file; two writers do not ask whether anything moved.
Saves(s, step) ==
    \/ step.op = "profile"
    \/ step.op = "record" /\ step.record # None
    \/ Apply(s, step) # s

--------------------------------------------------------------------------
(* The precedence, key by key (resolve_cover, resolve_cover_keys) *)

\* keys_written_by_the_file
WrittenByTheFile(c) == c \in FileWrites

\* derive_cover_from_profile: the numbers are told apart by the profile and the
\* height they are scaled from.
Scaled(profile, height) == <<profile, height>>

\* The profile of a cover, scaled to its window.
Derived(s, c) ==
    LET name == ProfileNow(s, c)
        height == IF Record(s, c).height # None THEN Record(s, c).height ELSE FileHeight[c]
    IN IF MergedProfile(s, name) = None THEN None
       ELSE Scaled(MergedProfile(s, name), height)

\* resolve_cover_keys: the first of the four sources that says anything.
ResolvedKey(own, derived, written, wins) ==
    CASE own # None -> [origin |-> "own", value |-> <<own>>]
      [] own = None /\ derived # None /\ (wins \/ ~written) ->
             [origin |-> "profile", value |-> derived]
      [] own = None /\ written /\ (derived = None \/ ~wins) ->
             [origin |-> "file", value |-> <<>>]
      [] OTHER -> [origin |-> "default", value |-> <<>>]

\* resolve_cover
Resolve(s, c) ==
    LET r == Record(s, c)
    IN ResolvedKey(r.own, Derived(s, c), WrittenByTheFile(c), r.profile # None /\ r.wins)

===========================================================================
