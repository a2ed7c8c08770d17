------------------------------ MODULE HotKeys ------------------------------
(***************************************************************************)
(* What the tracker promises its clients, without maps, rankings or files  *)
(* in sight: every submission of a key is counted, and a set of at most M  *)
(* hot keys is kept that no other key outnumbers.  A submission may make   *)
(* the submitted key hot, never another one.  A save takes time, and until *)
(* it ends there is no copy to load; a load takes time too, and brings     *)
(* back the last copy exactly, unless it runs into a save, finds no copy   *)
(* or the disk fails: then anything may come back, and only from there on  *)
(* are the hot keys not the right ones.  MapManager implements this        *)
(* specification (property HotKeysSpec of its run).                        *)
(***************************************************************************)
EXTENDS Naturals, FiniteSets

CONSTANTS Key,           \* the keys clients submit
          M,             \* the number of hot keys kept
          Faulty         \* TRUE: saves and loads may fail

VARIABLES count,         \* count[k]: how often k was submitted
          hot,           \* the hot keys
          sound,         \* whether the hot keys are promised to be right
          saved,         \* the last <<count, hot>> written to disk, or <<>>
          loading        \* "no"; "clean"; or "crossed", having met a save

vars == <<count, hot, sound, saved, loading>>

Known(c) == {k \in Key : c[k] > 0}

\* h is a set of hot keys for the counts c: as many keys as fit, and none left
\* out with a count above that of one taken in.
IsTop(h, c) ==
  /\ h \subseteq Known(c)
  /\ Cardinality(h) <= M
  /\ h # Known(c) => Cardinality(h) = M
  /\ \A in \in h, out \in Known(c) \ h : c[in] >= c[out]

Init ==
  /\ count = [k \in Key |-> 0] /\ hot = {} /\ sound = TRUE
  /\ saved = <<>> /\ loading = "no"

\* k is submitted: it may become hot, at the expense of one other key at most.
Submit(k) ==
  /\ count' = [count EXCEPT ![k] = @ + 1]
  /\ hot' \in SUBSET (hot \cup {k})
  /\ Cardinality(hot \ hot') <= 1
  /\ sound => IsTop(hot', count')
  /\ UNCHANGED <<sound, saved, loading>>

\* A save begins by giving up the copy before it, also for a load under way.
BeginSave ==
  /\ saved' = <<>>
  /\ loading' = IF loading = "no" THEN "no" ELSE "crossed"
  /\ UNCHANGED <<count, hot, sound>>

\* Only what is right is a copy to rely on.
Save ==
  /\ sound /\ saved' = <<count, hot>>
  /\ UNCHANGED <<count, hot, sound, loading>>

BeginLoad ==
  /\ loading = "no" /\ loading' = "clean"
  /\ UNCHANGED <<count, hot, sound, saved>>

\* The last copy saved comes back, the counts and the hot keys together.
Load ==
  /\ loading = "clean" /\ saved # <<>>
  /\ count' = saved[1] /\ hot' = saved[2] /\ sound' = TRUE
  /\ loading' = "no"
  /\ UNCHANGED saved

\* A load that need not succeed: it met a save, there is no copy, the disk fails.
Hindered == loading = "crossed" \/ (loading = "clean" /\ (saved = <<>> \/ Faulty))

LoadNothing ==
  /\ Hindered /\ loading' = "no"
  /\ UNCHANGED <<count, hot, sound, saved>>

LoadAnything ==
  /\ Hindered /\ loading' = "no"
  /\ count' \in [Key -> Nat] /\ hot' \subseteq Key /\ sound' = FALSE
  /\ UNCHANGED saved

\* The process ends and a new one starts: only what was saved is left.
Restart ==
  /\ count' = [k \in Key |-> 0] /\ hot' = {} /\ sound' = TRUE /\ loading' = "no"
  /\ UNCHANGED saved

Next ==
  \/ \E k \in Key : Submit(k)
  \/ BeginSave \/ Save
  \/ BeginLoad \/ Load \/ LoadNothing \/ LoadAnything
  \/ Restart

Spec == Init /\ [][Next]_vars
============================================================================
