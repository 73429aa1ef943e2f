---------------------------- MODULE ProjectStore ----------------------------
(***************************************************************************)
(* What a Canvas project's files promise to their clients: a save changes  *)
(* all the files it names at one instant, or none, and only while the      *)
(* files it was checked against are as its client last saw them.           *)
(***************************************************************************)
EXTENDS Naturals

CONSTANTS
  Clients,
  Files,
  Contents, \* what a file may hold: its revision, and the values it leaves out
  Start,    \* what the files hold at first
  Plans     \* what a save writes and revises, and which revisions it checks

VARIABLES
  content,  \* what each file holds
  known,    \* the revisions each client was last shown
  edits     \* how often somebody edited a file outside the program

vars == <<content, known, edits>>

Shown(c, F, now) ==
  [known EXCEPT ![c] =
     [f \in Files |-> IF f \in F THEN now[f].revision ELSE known[c][f]]]

Init ==
  /\ content = [f \in Files |-> Start]
  /\ known = [c \in Clients |-> [f \in Files |-> Start.revision]]
  /\ edits = 0

\* A client is shown some files, or the late answer to its own save.
Learn(c) ==
  /\ \E F \in SUBSET Files : known' = Shown(c, F, content)
  /\ UNCHANGED <<content, edits>>

Save(c) ==
  \E plan \in Plans :
    /\ \A f \in plan.checked : known[c][f] = content[f].revision
    /\ content' \in [Files -> Contents]
    /\ \A f \in Files :
         /\ content'[f] # content[f] <=> f \in plan.writes
         /\ content'[f].revision # content[f].revision <=> f \in plan.revises
    /\ known' \in {known, Shown(c, plan.checked, content')}
    /\ UNCHANGED edits

\* Somebody edits a file outside the program.
Edit(f) ==
  /\ content' \in [Files -> Contents]
  /\ \A g \in Files \ {f} : content'[g] = content[g]
  /\ edits' = edits + 1
  /\ UNCHANGED known

Next ==
  \/ \E c \in Clients : Learn(c) \/ Save(c)
  \/ \E f \in Files : Edit(f)

Spec == Init /\ [][Next]_vars
=============================================================================
