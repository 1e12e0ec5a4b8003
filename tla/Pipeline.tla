------------------------------ MODULE Pipeline ------------------------------
(***************************************************************************)
(* `aio-agent notes run`: one pass over the note files of a user, captured *)
(* to Memory, exported as wiki files once Memory has worked on them, and   *)
(* moved to the trash when the policy says so.  Meanwhile the user writes, *)
(* replaces, renames and removes files, Memory completes, changes and      *)
(* drops sources, requests fail, and the process crashes; a scheduler      *)
(* starts it again and again.                                              *)
(*                                                                         *)
(* All files have one base name, so that equal texts are duplicates.       *)
(* "old" says that a file was not modified for fifteen minutes.            *)
(*                                                                         *)
(* A definition introduced with "As if" is not part of the model: it is the *)
(* next one with a plausible mistake, kept to see which property notices.  *)
(***************************************************************************)
EXTENDS Integers, FiniteSets

CONSTANTS
  Paths,        \* paths of the note files, numbered in the order of the walk
  Plain,        \* texts Memory accepts, without attachments
  Huge,         \* texts over the limit of an intake
  Initial,      \* texts the files may have at first
  Policies,     \* values of "cleanup" the user configures
  None,
  Batch,        \* batchSize
  MaxEvents     \* bound of the user's changes, the faults and what changes in Memory

Texts == Plain \cup Huge

ASSUME PathsAssumption == IsFiniteSet(Paths) /\ Paths = 1..Cardinality(Paths)
ASSUME PolicyAssumption == Policies \subseteq {"none", "duplicates", "archived"}
ASSUME BoundsAssumption == Batch \in Nat \ {0} /\ MaxEvents \in Nat
ASSUME TextsAssumption == Initial \subseteq Texts /\ Plain \cap Huge = {}

VARIABLES
  files,        \* the note files: text, inode and age
  trash,        \* files moved to the trash
  edits, faults,
  cleanup,      \* the policy of the configuration
  source,       \* Memory: the source captured for a text, and its wiki version
  entries,      \* the wiki files of a text on disk: the version they hold
  manifest,     \* the version the manifest of a text names
  disk,         \* state.json: a record per path
  lock,         \* .run.lock: absent, empty, or a pid that is live or stale
  pc,
  mem,          \* the records of this run
  notes,        \* the notes this run collected
  todo,         \* those not yet looked at
  count,        \* how many of them this run worked on: batch in the source
  cur,          \* the path it works on
  proof,        \* the version the export of its text read
  owned,        \* history: what the user wrote and did not itself write over
  touched,      \* history: texts of which the user removed, moved or changed a copy
  late,         \* history: files put where the run had found none
  held          \* history: texts Memory held complete at some time of this run

user == <<files, edits, cleanup, owned, touched, late>>
memory == <<source, held>>
output == <<entries, manifest>>
process == <<pc, mem, notes, todo, count, cur, proof>>
vars == <<user, trash, faults, memory, output, disk, lock, process>>

Versions == 0..MaxEvents
Numbered(n) == [text : Texts, captured : BOOLEAN, verified : BOOLEAN,
                cleanup : Policies \cup {None}, attempt : 0..n, trash : BOOLEAN]
Record == Numbered(Cardinality(Paths))
Latest == Numbered(Cardinality(Paths) + 1)  \* before the attempts are renumbered
Inodes == 0..MaxEvents + Cardinality(Paths)
File == [text : Texts, inode : Inodes, old : BOOLEAN]
Trashed == [path : Paths, object : [inode : Inodes, text : Texts]]
Proof == [version : Versions, secrets : BOOLEAN]
NoRecords == [p \in Paths |-> None]
Stage == {"down", "opening", "next", "capture", "export", "entries", "recheck", "kept",
          "current", "rename", "moved", "giveback", "save", "failed"}

ASSUME NoneAssumption == None \notin File \cup Latest \cup Proof \cup Versions \cup Paths

TypeOK ==
  /\ files \in [Paths -> File \cup {None}] /\ trash \subseteq Trashed
  /\ edits \in Nat /\ faults \in Nat /\ edits + faults <= MaxEvents
  /\ DOMAIN notes \subseteq Paths /\ notes \in [DOMAIN notes -> File]
  /\ disk \in [Paths -> Record \cup {None}] /\ mem \in [Paths -> Record \cup {None}]
  /\ source \in [Texts -> [status : {"none", "pending", "complete", "dropped"},
                         version : Versions, secrets : BOOLEAN]]
  /\ entries \in [Texts -> Versions \cup {None}] /\ manifest \in [Texts -> Versions \cup {None}]
  /\ cleanup \in Policies
  /\ lock \in {"absent", "empty", "live", "stale"}
  /\ pc \in Stage /\ todo \subseteq DOMAIN notes /\ count \in 0..Batch
  /\ cur \in Paths \cup {None} /\ proof \in Proof \cup {None}

Object(f) == [inode |-> f.inode, text |-> f.text]

Init ==
  /\ \E f \in [Paths -> Initial] :
       files = [p \in Paths |-> [text |-> f[p], inode |-> p, old |-> TRUE]]
  /\ owned = {Object(files[p]) : p \in Paths}
  /\ trash = {} /\ edits = 0 /\ faults = 0
  /\ cleanup \in Policies
  /\ source = [t \in Texts |-> [status |-> "none", version |-> 0, secrets |-> FALSE]]
  /\ entries = [t \in Texts |-> None] /\ manifest = [t \in Texts |-> None]
  /\ disk = NoRecords /\ lock = "absent"
  /\ pc = "down" /\ mem = NoRecords /\ notes = <<>> /\ todo = {}
  /\ count = 0 /\ cur = None /\ proof = None
  /\ touched = {} /\ late = {} /\ held = {}

Fault == edits + faults < MaxEvents /\ faults' = faults + 1

(*-------------------------------- the user -------------------------------*)

Edits == edits + faults < MaxEvents /\ edits' = edits + 1
NewInode == Cardinality(Paths) + edits + 1
Old(p) == IF files[p] = None THEN {} ELSE {files[p]}
Touches(ps) == touched' = IF pc = "down" THEN {}
                           ELSE touched \cup {f.text : f \in UNION {Old(p) : p \in ps}}
PutsAt(p) == late' = IF pc = "giveback" /\ cur = p THEN late \cup {files'[p].inode} ELSE late
UserOnly == UNCHANGED <<trash, faults, memory, output, disk, lock, process>>

\* A file is written in place, replaced, or created.
Write(p, t) ==
  /\ Edits
  /\ \E i \in {NewInode} \cup {f.inode : f \in Old(p)} :
       files' = [files EXCEPT ![p] = [text |-> t, inode |-> i, old |-> FALSE]]
  /\ owned' = (owned \ {Object(f) : f \in Old(p)}) \cup {Object(files'[p])}
  /\ Touches({p}) /\ PutsAt(p) /\ UNCHANGED cleanup /\ UserOnly

Remove(p) ==
  /\ Edits /\ files[p] # None
  /\ files' = [files EXCEPT ![p] = None]
  /\ owned' = owned \ {Object(files[p])}
  /\ Touches({p}) /\ UNCHANGED <<cleanup, late>> /\ UserOnly

\* A file is moved, and keeps its inode and its age.
Rename(p, q) ==
  /\ Edits /\ files[p] # None /\ p # q
  /\ files' = [files EXCEPT ![q] = files[p], ![p] = None]
  /\ owned' = owned \ {Object(f) : f \in Old(q)}
  /\ Touches({p, q}) /\ PutsAt(q) /\ UNCHANGED cleanup /\ UserOnly

\* A run judges by the age at its start.
Age(p) ==
  /\ pc = "down" /\ files[p] # None /\ ~files[p].old
  /\ files' = [files EXCEPT ![p].old = TRUE]
  /\ UNCHANGED <<edits, cleanup, owned, touched, late>> /\ UserOnly

\* The configuration is edited; a run reads it once.
Configure(policy) ==
  /\ Edits /\ pc = "down" /\ policy # cleanup /\ cleanup' = policy
  /\ UNCHANGED <<files, owned, touched, late>> /\ UserOnly

(*--------------------------------- Memory --------------------------------*)

Clean == {t \in Texts : source[t].status = "complete" /\ ~source[t].secrets}
MemoryOnly == UNCHANGED <<user, trash, output, disk, lock, process>>

\* Memory has worked on a source, and has found secrets in it or not.
Complete(t) ==
  /\ source[t].status = "pending"
  /\ \E s \in BOOLEAN : source' = [source EXCEPT ![t].status = "complete", ![t].secrets = s]
  /\ held' = IF pc = "down" THEN {} ELSE held \cup Clean'
  /\ UNCHANGED faults /\ MemoryOnly

\* A wiki node of the source gets a new version, or the user drops the source.
Revise(t) ==
  /\ Fault /\ source[t].status = "complete"
  /\ source' = [source EXCEPT ![t].version = @ + 1]
  /\ UNCHANGED held /\ MemoryOnly
Drop(t) ==
  /\ Fault /\ source[t].status \in {"pending", "complete"}
  /\ source' = [source EXCEPT ![t].status = "dropped"]
  /\ UNCHANGED held /\ MemoryOnly

\* An intake is done once per request id, which is made of the text.
Intake(t) == IF source[t].status = "none" THEN [source EXCEPT ![t].status = "pending"] ELSE source

(*--------------------------------- a run ---------------------------------*)

Keep(v) == UNCHANGED <<user, trash, faults, memory, output, disk, lock>> /\ UNCHANGED v

\* The scheduler starts a run, which takes the lock of one that is gone; a
\* lock that cannot be read is an error.
Start ==
  /\ pc = "down" /\ lock \in {"absent", "stale"}
  /\ lock' = "empty" /\ pc' = "opening"
  /\ UNCHANGED <<user, trash, faults, memory, output, disk, mem, notes, todo, count, cur, proof>>

\* The state is read and every note collected.
Collect ==
  /\ pc = "opening" /\ lock' = "live"
  /\ mem' = disk
  /\ notes' = [p \in {q \in Paths : files[q] # None} |-> files[p]]
  /\ todo' = DOMAIN notes'
  /\ touched' = {} /\ held' = Clean
  /\ pc' = "next"
  /\ UNCHANGED <<files, edits, cleanup, owned, late, trash, faults, source, output, disk,
                 count, cur, proof>>

Same(p) == mem[p] # None /\ mem[p].text = notes[p].text
Attempt(p) == IF Same(p) THEN mem[p].attempt ELSE 0
\* As if the notes came in the order of their paths.
WalkOrder(p, q) == p < q
Before(p, q) == Attempt(p) < Attempt(q) \/ (Attempt(p) = Attempt(q) /\ p < q)
First(p) == p \in todo /\ \A q \in todo \ {p} : Before(p, q)

\* Only the order of the attempts matters: they are renumbered without gaps.
Attempts(recs) == {recs[p].attempt : p \in {q \in Paths : recs[q] # None}} \ {0}
Renumbered(recs) ==
  [p \in Paths |-> IF recs[p] = None THEN None
                   ELSE [recs[p] EXCEPT !.attempt = Cardinality({a \in Attempts(recs) : a <= @})]]
Attempted(p) ==
  LET prior == IF Same(p) THEN mem[p]
               ELSE [text |-> notes[p].text, captured |-> FALSE, verified |-> FALSE,
                     cleanup |-> None, attempt |-> 0, trash |-> FALSE]
  IN Renumbered([mem EXCEPT ![p] = [prior EXCEPT !.attempt = Cardinality(Paths) + 1]])

Settled(p) == Same(p) /\ mem[p].verified /\ mem[p].cleanup = cleanup

\* As if a run took all the notes there are.
Unlimited == FALSE
Full == count >= Batch

Skip(p) ==
  /\ pc = "next" /\ First(p)
  /\ Settled(p) \/ ~notes[p].old \/ Full
  /\ todo' = todo \ {p}
  /\ Keep(<<pc, mem, notes, count, cur, proof>>)

\* A text that is too long fails at once; what was captured is not sent again.
Begin(p) ==
  /\ pc = "next" /\ First(p)
  /\ ~Settled(p) /\ notes[p].old /\ ~Full
  /\ todo' = todo \ {p} /\ cur' = p
  /\ mem' = Attempted(p)
  /\ pc' = IF notes[p].text \in Huge THEN "failed"
           ELSE IF mem'[p].captured THEN "export" ELSE "capture"
  /\ Keep(<<notes, count, proof>>)

Text == notes[cur].text

\* The note is captured, and the state written; the answer may be
\* lost, or the state not be written.
Capture ==
  /\ pc = "capture"
  /\ source' = Intake(Text)
  /\ \/ /\ mem' = [mem EXCEPT ![cur].captured = TRUE] /\ disk' = mem'
        /\ pc' = "export" /\ UNCHANGED faults
     \/ /\ Fault /\ pc' = "failed" /\ UNCHANGED disk
        /\ mem' \in {mem, [mem EXCEPT ![cur].captured = TRUE]}
  /\ UNCHANGED <<user, held, trash, output, lock, notes, todo, count, cur, proof>>

\* The source and its nodes are read: not complete is no proof, gone an error.
Export ==
  /\ pc = "export"
  /\ pc' = CASE source[Text].status = "complete" -> "entries"
             [] source[Text].status = "pending" -> "save"
             [] OTHER -> "failed"
  /\ proof' = IF source[Text].status = "complete" 
              THEN [version |-> source[Text].version, secrets |-> source[Text].secrets] ELSE None
  /\ Keep(<<mem, notes, todo, count, cur>>)

\* The wiki files of the version that was read are written.
WriteEntries ==
  /\ pc = "entries" /\ pc' = "recheck"
  /\ entries' = [entries EXCEPT ![Text] = proof.version]
  /\ UNCHANGED <<user, trash, faults, memory, manifest, disk, lock, mem, notes, todo, count, cur, proof>>

Unchanged(t) == source[t].status = "complete" /\ source[t].version = proof.version

\* The source and the versions are read again before the manifest is written.
Recheck ==
  /\ pc = "recheck"
  /\ IF Unchanged(Text) THEN manifest' = [manifest EXCEPT ![Text] = proof.version] /\ pc' = "kept"
                        ELSE UNCHANGED manifest /\ pc' = "failed"
  /\ UNCHANGED <<user, trash, faults, memory, entries, disk, lock, mem, notes, todo, count, cur, proof>>

\* The first path of the walk that held the text when the notes were collected.
Canonical == CHOOSE p \in DOMAIN notes :
               /\ notes[p].text = Text
               /\ \A q \in DOMAIN notes : notes[q].text = Text => p <= q

\* As if the first copy were not read again.
Presumed == TRUE
FirstStands == files[Canonical].text = Text
\* As if secrets were no reason to keep the original.
Open == FALSE
HasSecrets == proof.secrets

\* Under "duplicates" only another copy goes, and only while the first is
\* there; a file that is not there is an error.
CheckKept ==
  /\ pc = "kept"
  /\ touched' = {}
  /\ pc' = IF cleanup = "none" \/ HasSecrets THEN "save"
           ELSE IF cleanup = "archived" THEN "current"
           ELSE IF Canonical = cur THEN "save"
           ELSE IF files[Canonical] = None THEN "failed"
           ELSE IF FirstStands THEN "current" ELSE "save"
  /\ UNCHANGED <<files, edits, cleanup, owned, late, trash, faults, memory, output, disk, lock,
                 mem, notes, todo, count, cur, proof>>

Reread == IF files[cur] = None THEN "failed"
          ELSE IF Object(files[cur]) = Object(notes[cur]) THEN "rename" ELSE "save"
CheckCurrent ==
  /\ pc = "current" /\ pc' = Reread
  /\ Keep(<<mem, notes, todo, count, cur, proof>>)

\* Whatever is at the path now goes to the trash.
Move ==
  /\ pc = "rename"
  /\ IF files[cur] = None THEN pc' = "failed" /\ UNCHANGED <<files, trash>>
     ELSE /\ pc' = "moved"
          /\ trash' = trash \cup {[path |-> cur, object |-> Object(files[cur])]}
          /\ files' = [files EXCEPT ![cur] = None]
  /\ UNCHANGED <<edits, cleanup, owned, touched, late, faults, memory, output, disk, lock,
                 mem, notes, todo, count, cur, proof>>

Target == CHOOSE m \in trash : m.path = cur /\ \A x \in trash : x.path = cur => x.object.inode <= m.object.inode
AsVerified == Target.object = Object(notes[cur])

\* As if the path were not looked at before the file is given back.
NotLooked == TRUE
Vacant == files[cur] = None

\* It is read there; when it is another file and nothing took its place, it
\* is to be given back.
CheckMoved ==
  /\ pc = "moved"
  /\ IF AsVerified
     THEN mem' = [mem EXCEPT ![cur].trash = TRUE] /\ pc' = "save"
     ELSE UNCHANGED mem /\ pc' = IF Vacant THEN "giveback" ELSE "failed"
  /\ Keep(<<notes, todo, count, cur, proof>>)

\* The rename back replaces what was put at the path in between.
GiveBack ==
  /\ pc = "giveback" /\ pc' = "failed"
  /\ files' = [files EXCEPT ![cur] = [text |-> Target.object.text, inode |-> Target.object.inode,
                                      old |-> FALSE]]
  /\ trash' = trash \ {Target}
  /\ UNCHANGED <<edits, cleanup, owned, touched, late, faults, memory, output, disk, lock,
                 mem, notes, todo, count, cur, proof>>

Written(r) == /\ mem' = [mem EXCEPT ![cur] = r] /\ disk' = mem'
              /\ count' = count + 1 /\ pc' = "next" /\ cur' = None /\ proof' = None
              /\ UNCHANGED <<user, trash, faults, memory, output, lock, notes, todo>>

\* As if no proof at all were every proof verified.
Vacuous == TRUE
Proven == proof # None

\* The outcome is written: verified, still in work at Memory, or failed.
SaveRecord ==
  /\ pc = "save"
  /\ Written(IF ~Proven THEN mem[cur]
             ELSE [mem[cur] EXCEPT !.verified = TRUE, !.cleanup = cleanup])
SaveFailure ==
  /\ pc = "failed"
  /\ Written([mem[cur] EXCEPT !.verified = FALSE, !.cleanup = None])

Ended == /\ pc' = "down" /\ mem' = NoRecords /\ notes' = <<>> /\ todo' = {}
         /\ count' = 0 /\ cur' = None /\ proof' = None
         /\ touched' = {} /\ held' = {}
         /\ UNCHANGED <<files, edits, cleanup, owned, late, trash, source, output, disk>>

Finish ==
  /\ pc = "next" /\ todo = {} /\ Ended /\ lock' = "absent" /\ UNCHANGED faults

\* A request, a read or a write for the note fails.
Fails ==
  /\ Fault /\ pc \in {"capture", "export", "entries", "recheck", "kept", "current", "rename", "moved",
                     "giveback", "save"}
  /\ pc' = "failed"
  /\ UNCHANGED <<user, trash, memory, output, disk, lock, mem, notes, todo, count, cur, proof>>

\* The failure cannot be written either: the run ends.
Abort ==
  /\ Fault /\ pc \in {"failed", "next"} /\ Ended /\ lock' = "absent"

Crash ==
  /\ Fault /\ pc # "down" /\ Ended
  /\ lock' = IF pc = "opening" THEN "empty" ELSE "stale"

Steps == \/ Start \/ Collect \/ \E p \in Paths : Skip(p) \/ Begin(p)
         \/ (Capture /\ faults' = faults) \/ Export \/ WriteEntries \/ Recheck
         \/ CheckKept \/ CheckCurrent \/ Move \/ CheckMoved \/ GiveBack
         \/ SaveRecord \/ SaveFailure \/ Finish

Next ==
  \/ \E p \in Paths, t \in Texts : Write(p, t)
  \/ \E p \in Paths : Remove(p) \/ Age(p) \/ \E q \in Paths : Rename(p, q)
  \/ \E policy \in Policies : Configure(policy)
  \/ \E t \in Texts : Complete(t) \/ Revise(t) \/ Drop(t)
  \/ Start \/ Collect \/ (\E p \in Paths : Skip(p) \/ Begin(p))
  \/ Capture \/ Export \/ WriteEntries \/ Recheck
  \/ CheckKept \/ CheckCurrent \/ Move \/ CheckMoved \/ GiveBack
  \/ SaveRecord \/ SaveFailure \/ Finish \/ Fails \/ Abort \/ Crash

Spec == Init /\ [][Next]_vars

\* The scheduler starts runs, runs go on, Memory works, and files grow old.
FairSpec == /\ Spec /\ WF_vars(Steps)
            /\ \A t \in Texts : WF_vars(Complete(t))
            /\ \A p \in Paths : SF_vars(Age(p))

(*------------------------------- properties ------------------------------*)

\* What the user wrote and did not write over or remove is at a path or in the
\* trash, however its edits fall between the checks of the run, its moves and
\* its crashes; except what it puts at a path in the moment between the run
\* finding nothing there and giving a file back (cleanup.mjs 15-25).
NothingLost ==
  \A o \in owned :
    \/ \E p \in Paths : files[p] # None /\ Object(files[p]) = o
    \/ \E m \in trash : m.object = o
    \/ o.inode \in late

\* A record that says its note was verified has its wiki files on disk, at
\* least as new as the manifest says, whichever later export broke off
\* (wiki.mjs 30-47, pipeline.mjs 124-143).
ExportBacked ==
  /\ \A p \in Paths : disk[p] # None /\ disk[p].verified => manifest[disk[p].text] # None
  /\ \A t \in Texts : manifest[t] # None => entries[t] # None /\ entries[t] >= manifest[t]

\* What a run leaves in the trash as cleaned is free of secrets,
\* and Memory held it complete during that very run: a permission
\* of an earlier run is not used (pipeline.mjs 104-131).
CleanedIsHeld ==
  [][pc = "moved" /\ pc' = "save" =>
       Target.object.text \in held /\ cleanup # "none"]_vars

\* Cleaning up duplicates takes no text away from the user's paths, unless the
\* user changed or moved a copy itself after the first of them was read again (cleanup.mjs 10-16).
CopyStays ==
  [][pc = "moved" /\ pc' = "save" /\ cleanup = "duplicates" =>
       \/ Target.object.text \in touched
       \/ \E p \in Paths : files[p] # None /\ files[p].text = Target.object.text]_vars

\* A note that stays as it is is verified in the end, also while others fail
\* for good, unless the user dropped its source, or the lock cannot be read
\* (pipeline.mjs 94-109).
EventuallyVerified ==
  \A p \in Paths, t \in Plain :
    <>[](/\ files[p] # None /\ files[p].text = t
         /\ source[t].status # "dropped" /\ ~(pc = "down" /\ lock = "empty"))
      => <>(disk[p] # None /\ disk[p].text = t /\ disk[p].verified)
=============================================================================
