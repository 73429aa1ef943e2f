---------------------------- MODULE MaterialSlot ----------------------------
(***************************************************************************)
(* What a material's selection promises to the people and the runs that    *)
(* change it, with no lock, database, file or crash in sight.              *)
(*                                                                         *)
(* A run reads the version of the content when it is compiled.  Its result *)
(* takes effect at most once, atomically, and only on that version; the    *)
(* verdict recorded for it is final and truthful.  Users replace or trim   *)
(* the content whenever they like, but only as it was shown to them.       *)
(***************************************************************************)
EXTENDS Naturals

CONSTANTS
  Runs,     \* generation runs
  Editors,  \* who changes the selection by hand
  Values,   \* contents a material can have
  Nothing   \* the content of a material never filled

VARIABLES
  content,  \* what the material shows
  version,  \* how often its content was replaced
  edition,  \* how often it was replaced or trimmed
  shown,    \* the edition each editor has before them
  born,     \* the version a run was compiled from, when it was
  applied,  \* the runs whose result took effect
  settled   \* the verdict of the runs that have one: did the material show it

vars == <<content, version, edition, shown, born, applied, settled>>

Compiled(r) == r \in DOMAIN born

Init ==
  /\ content = Nothing
  /\ version = 0
  /\ edition = 0
  /\ shown = [e \in Editors |-> 0]
  /\ born = [r \in {} |-> 0]
  /\ applied = {}
  /\ settled = [r \in {} |-> FALSE]

\* A run is compiled from a version no newer than the current one.
Compile(r) ==
  /\ ~Compiled(r)
  /\ \E v \in 0..version :
       born' = [s \in DOMAIN born \union {r} |-> IF s = r THEN v ELSE born[s]]
  /\ UNCHANGED <<content, version, edition, shown, applied, settled>>

\* Editors are shown the selection, or turn away from it.
Look ==
  /\ \A e \in Editors : shown'[e] \in {0, shown[e], edition}
  /\ shown' = [e \in Editors |-> shown'[e]]
  /\ UNCHANGED <<content, version, edition, born, applied, settled>>

\* An editor uploads or types a new content for what they were shown, if it is
\* still there.
Replace(e) ==
  /\ shown[e] = edition
  /\ content' \in Values
  /\ version' = version + 1
  /\ edition' = edition + 1
  /\ shown' = [shown EXCEPT ![e] = 0]
  /\ UNCHANGED <<born, applied, settled>>

\* Likewise another interval of the same content.
Trim(e) ==
  /\ shown[e] = edition
  /\ edition' = edition + 1
  /\ shown' = [shown EXCEPT ![e] = 0]
  /\ UNCHANGED <<content, version, born, applied, settled>>

\* A run's result replaces the very version it was compiled from.
Apply(r) ==
  /\ Compiled(r)
  /\ r \notin applied /\ r \notin DOMAIN settled
  /\ version = born[r]
  /\ content' \in Values
  /\ version' = version + 1
  /\ edition' = edition + 1
  /\ applied' = applied \union {r}
  /\ UNCHANGED <<shown, born, settled>>

\* The verdict: a result nobody replaced yet must have been applied; one that
\* was not applied must have been overtaken by another content.
Settle(r) ==
  /\ Compiled(r) /\ r \notin DOMAIN settled
  /\ version > born[r]
  /\ \E selected \in BOOLEAN :
       /\ selected => version = born[r] + 1
       /\ r \in applied /\ version = born[r] + 1 => selected
       /\ settled' = [s \in DOMAIN settled \union {r} |->
                        IF s = r THEN selected ELSE settled[s]]
  /\ UNCHANGED <<content, version, edition, shown, born, applied>>

Next ==
  \/ Look
  \/ \E e \in Editors : Replace(e) \/ Trim(e)
  \/ \E r \in Runs : Compile(r) \/ Apply(r) \/ Settle(r)

Spec == Init /\ [][Next]_vars
=============================================================================
