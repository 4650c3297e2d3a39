---------------------------- MODULE PackRegistry ----------------------------
(***************************************************************************)
(* filler_pack.py: immutable packs of filler clips, each generated for one *)
(* voice and one version of the texts.  A pack is built in the staging     *)
(* directory, published by a rename, and collected by a rename into the    *)
(* trash; the file operations of each are steps, since a kill may come     *)
(* between them.  Packs damaged on disk are left out.                      *)
(***************************************************************************)
EXTENDS OverlayConfig, FiniteSets

VARIABLES place,   \* per pack: none / bare (a stage without its lock file) /
                   \* stage / ready / published / trash / gone
          made,    \* per pack: the voice and text version it was generated for
          pin,     \* lkg.json
          strays,  \* gc journals that no collection will remove
          left,    \* history: packs that this service knows to have left there
          spoiled  \* history: journals it could not remove, "gc" and "activation"

residue  == <<left, spoiled>>
registry == <<place, made, pin, strays, residue>>

NotMade == [voice |-> NoVoice, text |-> 0]

InitRegistry ==
    /\ place = [p \in Pack |-> "none"]
    /\ made = [p \in Pack |-> NotMade]
    /\ pin = NoPack
    /\ strays = FALSE
    /\ left = {} /\ spoiled = {}

In(where) == {p \in Pack : place[p] = where}
Published == In("published")

Unmake(p) == made' = [made EXCEPT ![p] = NotMade]
Move(p, from, to) == place[p] = from /\ place' = [place EXCEPT ![p] = to]

\* stage_pack(): a directory of its own, then its lock; manifest "staged", then
\* validated and "ready"; renamed among the packs under the registry's lock.
CreateStage(p, voice, text) ==
    /\ \A q \in Pack : q < p => place[q] # "none"
    /\ Move(p, "none", "bare")
    /\ made' = [made EXCEPT ![p] = [voice |-> voice, text |-> text]]
    /\ UNCHANGED <<pin, strays, residue>>

LockStage(p) == Move(p, "bare", "stage") /\ UNCHANGED <<made, pin, strays, residue>>
ValidateStage(p) == Move(p, "stage", "ready") /\ UNCHANGED <<made, pin, strays, residue>>
PublishStage(p) == Move(p, "ready", "published") /\ UNCHANGED <<made, pin, strays, residue>>

\* A stage is abandoned by a failure; one without its lock goes if it can.
AbandonStage(p) ==
    \/ (left' = left \cup {p} /\ UNCHANGED <<place, made>>)
    \/ (Move(p, "bare", "gone") /\ Unmake(p) /\ UNCHANGED left)

\* resolve(): an intact pack, and for this very voice.
Resolves(p, voice) == p \in Published /\ made[p].voice = voice

\* pin_lkg(): raises for a pack that is not there.
PinLkg(p) == p \in Published /\ pin' = p /\ UNCHANGED <<place, made, strays, residue>>

\* garbage_collect(): what of the candidates goes.
Doomed(candidates, protected) == candidates \ (protected \cup {pin})

Discard(p)  == Move(p, "published", "trash") /\ UNCHANGED <<made, pin, strays, residue>>
EmptyTrash(p) == Move(p, "trash", "gone") /\ Unmake(p) /\ UNCHANGED <<pin, strays, residue>>

-----------------------------------------------------------------------------
(* recover_staging(): ready stages are published, the others removed, then  *)
(* trash, then the journals that name it; it can be killed and run again.   *)

RecoverStage(p) ==
    /\ p \notin left
    /\ \/ (\E from \in {"bare", "stage"} : Move(p, from, "gone")) /\ Unmake(p)
       \/ Move(p, "ready", "published") /\ UNCHANGED made
    /\ UNCHANGED <<pin, strays, residue>>

\* A young stage without a lock may be one that another process is creating.
RecoverSkips(p) ==
    /\ place[p] = "bare" /\ p \notin left
    /\ left' = left \cup {p}
    /\ UNCHANGED <<place, made, pin, strays, spoiled>>

\* A stage that cannot be removed or renamed stays, perhaps without its lock; one
\* that cannot be read is removed.
StageStays(p) ==
    /\ place[p] \in {"bare", "stage", "ready"} /\ p \notin left
    /\ \/ /\ UNCHANGED place \/ Move(p, "stage", "bare")
          /\ left' = left \cup {p} /\ UNCHANGED made
       \/ /\ Move(p, "ready", "gone") /\ Unmake(p)
          /\ UNCHANGED left
    /\ UNCHANGED <<pin, strays, spoiled>>

Unstaged == In("bare") \cup In("stage") \cup In("ready") \subseteq left
Emptied  == Unstaged /\ In("trash") \subseteq left

RecoverTrash(p) == Unstaged /\ p \notin left /\ EmptyTrash(p)

TrashStays(p) ==
    /\ Unstaged /\ place[p] = "trash" /\ p \notin left
    /\ left' = left \cup {p} /\ spoiled' = spoiled \cup {"gc"}
    /\ UNCHANGED <<place, made, pin, strays>>

RecoverJournals ==
    /\ Emptied /\ strays /\ "gc" \notin spoiled
    /\ strays' = FALSE
    /\ UNCHANGED <<place, made, pin, residue>>

JournalStays ==
    /\ Emptied /\ strays /\ "gc" \notin spoiled
    /\ spoiled' = spoiled \cup {"gc"}
    /\ UNCHANGED <<place, made, pin, strays, left>>

Recovered == Emptied /\ (strays => "gc" \in spoiled)
=============================================================================
