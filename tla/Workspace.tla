----------------------------- MODULE Workspace -----------------------------
(***************************************************************************)
(* The files of a project: the write and patch calls of its turns, the     *)
(* snapshots and change records they leave, undoing a turn, and a person   *)
(* who edits the same files.                                               *)
(*                                                                         *)
(* The turns of a project take turns (the mutation lock), and the          *)
(* scheduler runs calls on one path one after the other, so each file has  *)
(* at most one call at a time.  Undoing takes no lock at all.  A content   *)
(* is a sequence of spans, a hash is the content it is of, and None is no  *)
(* file, for which the hash is empty.                                      *)
(***************************************************************************)
EXTENDS Naturals, Sequences, FiniteSets

CONSTANTS
  Files, Turns,
  Texts,      \* contents that calls and people write
  Spans,      \* what a patch replaces and puts in its place
  None,       \* no file, no expected hash, no turn
  Known,      \* contents at the start, and the hashes that calls pass
  MaxCalls,   \* bound on the calls of all turns
  MaxUpsets   \* bound on the edits of others and the failed writes and restores

\* What a snapshot holds whose writing was cut short, by an error or a crash.
Torn == <<>>

ASSUME TextsAssumption == None \notin Texts \cup {Torn} /\ Texts \subseteq Seq(Spans) \ {Torn}
ASSUME KnownAssumption == Known \subseteq Texts \cup {None}
ASSUME BoundsAssumption == MaxCalls \in Nat /\ MaxUpsets \in Nat

VARIABLES
  disk,     \* per file its content
  store,    \* the snapshot store: per content whether it is stored, and whole
  slot,     \* per file the call that works on it
  running,  \* the turn that holds the project's mutation lock
  over,     \* the turns that have run
  calls,    \* the number of calls so far
  written,  \* history: per turn the writes that succeeded
  changes,  \* per turn the rows of file_changes
  undo,     \* the request to undo a turn
  undone,   \* s.undone, which the process forgets
  lost,     \* history: a call replaced what nobody stored
  upsets, crashed

vars == <<disk, store, slot, running, over, calls, written, changes, undo, undone,
          lost, upsets, crashed>>

Contents == Texts \cup {Torn}
Row == [file : Files, before : Contents \cup {None}, after : Contents]

Free == [at |-> "free", old |-> None, text |-> None, expected |-> None,
         before |-> None, raced |-> FALSE]
NoUndo == [at |-> "idle", turn |-> None, rows |-> <<>>, next |-> 0,
           restored |-> FALSE, raced |-> {}]

----------------------------------------------------------------------------
(* Patches.                                                                *)

Places(content, span) == {i \in DOMAIN content : content[i] = span}

\* strings.Replace, once.
Patched(content, old, new) ==
  [content EXCEPT ![CHOOSE i \in Places(content, old) : TRUE] = new]

\* A patched text is a text.
ASSUME PatchAssumption ==
  \A content \in Texts, old, new \in Spans :
    Cardinality(Places(content, old)) = 1 => Patched(content, old, new) \in Texts

----------------------------------------------------------------------------
(* States.                                                                 *)

Init ==
  /\ disk \in [Files -> Known]
  /\ store = [c \in Contents |-> "none"]
  /\ slot = [f \in Files |-> Free]
  /\ running = None
  /\ over = {} /\ calls = 0 /\ written = [t \in Turns |-> 0]
  /\ changes = [t \in Turns |-> <<>>]
  /\ undo = NoUndo
  /\ undone = {}
  /\ lost = FALSE
  /\ upsets = 0 /\ crashed = FALSE

\* Type invariant: every row tells two contents apart, and what it calls the
\* content before is stored.
TypeOK ==
  /\ disk \in [Files -> Contents \cup {None}]
  /\ store \in [Contents -> {"none", "torn", "whole"}]
  /\ \A f \in Files : /\ slot[f].at \in {"free", "read", "base", "capture", "rename", "record"}
                      /\ slot[f].at # "free" => running # None
  /\ running \in over \cup {None} /\ over \subseteq Turns /\ calls \in 0..MaxCalls
  /\ written \in [Turns -> Nat] /\ changes \in [Turns -> Seq(Row)]
  /\ \A t \in Turns : \A i \in DOMAIN changes[t] :
       LET row == changes[t][i]
       IN row.before # row.after /\ (row.before # None => store[row.before] # "none")
  /\ undo.at \in {"idle", "check", "restore", "done", "refused"}
  /\ undo.next \in 0..Len(undo.rows)
  /\ undone \subseteq Turns

Undoing == undo.at \in {"check", "restore", "done"}

\* File f gets a new content from someone other than the call at work on it
\* and the request to undo.
Disturb(f) ==
  /\ slot' = [slot EXCEPT ![f].raced = slot[f].at = "rename"]
  /\ undo' = IF Undoing THEN [undo EXCEPT !.raced = @ \cup {f}] ELSE undo

\* Capture keeps a copy of the content under its hash; what is there already
\* is believed.
Store(content) ==
  store' = IF content # None /\ store[content] = "none"
           THEN [store EXCEPT ![content] = "whole"] ELSE store

Upset == upsets < MaxUpsets /\ upsets' = upsets + 1

\* The copy cannot be written, or not to its end: Capture returns the error, and
\* leaves what it has written where the copy should be.
StoreFails(content) ==
  /\ Upset
  /\ content # None /\ store[content] = "none"
  /\ store' \in {store, [store EXCEPT ![content] = "torn"]}
Leave(f) == slot' = [slot EXCEPT ![f] = Free]

----------------------------------------------------------------------------
(* Calls.                                                                  *)

BeginTurn(t) ==
  /\ running = None
  /\ t \notin over
  /\ running' = t
  /\ over' = over \cup {t}
  /\ UNCHANGED <<disk, store, slot, calls, written, changes, undo, undone,
                 lost, upsets, crashed>>

EndTurn ==
  /\ running # None
  /\ \A f \in Files : slot[f].at = "free"
  /\ running' = None
  /\ UNCHANGED <<disk, store, slot, over, calls, written, changes, undo,
                 undone, lost, upsets, crashed>>

Begin(f, frame) ==
  /\ running # None
  /\ slot[f].at = "free"
  /\ calls < MaxCalls
  /\ calls' = calls + 1
  /\ slot' = [slot EXCEPT ![f] = frame]
  /\ UNCHANGED <<disk, store, running, over, written, changes, undo, undone,
                 lost, upsets, crashed>>

\* write_file, with the hash the model expects or without one.
WriteFile(f, text, expected) ==
  Begin(f, [Free EXCEPT !.at = "capture", !.text = text, !.expected = expected])

\* apply_patch; until the patch is applied text holds the new span.
ApplyPatch(f, old, new, expected) ==
  Begin(f, [Free EXCEPT !.at = "read", !.old = old, !.text = new, !.expected = expected])

\* The first read of ApplyPatch: the text that is patched.
ReadCurrent(f) ==
  /\ slot[f].at = "read"
  /\ IF disk[f] = None THEN Leave(f)
     ELSE slot' = [slot EXCEPT ![f].at = "base", ![f].before = disk[f]]
  /\ UNCHANGED <<disk, store, running, over, calls, written, changes, undo,
                 undone, lost, upsets, crashed>>

\* The second read of ApplyPatch: the hash that WriteFile is to expect.  An
\* empty hash, of a file that is gone, expects nothing.
PatchBase(f) ==
  LET current == slot[f].before
      refused == \/ slot[f].expected \notin {None, disk[f]}
                 \/ Cardinality(Places(current, slot[f].old)) # 1
  IN /\ slot[f].at = "base"
     /\ Store(disk[f])
     /\ IF refused THEN Leave(f)
        ELSE slot' = [slot EXCEPT ![f].at = "capture", ![f].expected = disk[f],
                                  ![f].text = Patched(current, slot[f].old, slot[f].text)]
     /\ UNCHANGED <<disk, running, over, calls, written, changes, undo, undone,
                    lost, upsets, crashed>>

\* Mutant: the content is hashed and not stored.
MUT_CaptureHashOnly(f) ==
  LET refused == slot[f].expected \notin {None, disk[f]} \/ disk[f] = slot[f].text
  IN /\ slot[f].at = "capture"
     /\ IF refused THEN Leave(f)
        ELSE slot' = [slot EXCEPT ![f].at = "rename", ![f].before = disk[f]]
     /\ UNCHANGED <<disk, store, running, over, calls, written, changes, undo,
                    undone, lost, upsets, crashed>>

\* Mutant: a content that is there already is written and recorded once more.
MUT_CaptureNoChange(f) ==
  /\ slot[f].at = "capture"
  /\ Store(disk[f])
  /\ IF slot[f].expected \notin {None, disk[f]} THEN Leave(f)
     ELSE slot' = [slot EXCEPT ![f].at = "rename", ![f].before = disk[f]]
  /\ UNCHANGED <<disk, running, over, calls, written, changes, undo, undone,
                 lost, upsets, crashed>>

\* WriteFile up to atomicWrite: the baseline is stored and compared, and a
\* content that is there already is not written again.
Capture(f) ==
  LET refused == slot[f].expected \notin {None, disk[f]} \/ disk[f] = slot[f].text
  IN /\ slot[f].at = "capture"
     /\ Store(disk[f])
     /\ IF refused THEN Leave(f)
        ELSE slot' = [slot EXCEPT ![f].at = "rename", ![f].before = disk[f]]
     /\ UNCHANGED <<disk, running, over, calls, written, changes, undo, undone,
                    lost, upsets, crashed>>

CaptureFails(f) ==
  /\ slot[f].at \in {"base", "capture"}
  /\ StoreFails(disk[f])
  /\ Leave(f)
  /\ UNCHANGED <<disk, running, over, calls, written, changes, undo, undone,
                 lost, crashed>>

Rename(f) ==
  /\ slot[f].at = "rename"
  /\ disk' = [disk EXCEPT ![f] = slot[f].text]
  /\ lost' = (lost \/ (disk[f] # None /\ ~slot[f].raced /\ store[disk[f]] = "none"))
  /\ slot' = [slot EXCEPT ![f].at = "record"]
  /\ written' = [written EXCEPT ![running] = @ + 1]
  /\ undo' = IF Undoing THEN [undo EXCEPT !.raced = @ \cup {f}] ELSE undo
  /\ UNCHANGED <<store, running, over, calls, changes, undone, upsets, crashed>>

RenameFails(f) ==
  /\ slot[f].at = "rename"
  /\ Upset
  /\ Leave(f)
  /\ UNCHANGED <<disk, store, running, over, calls, written, changes, undo,
                 undone, lost, crashed>>

Record(f) ==
  /\ slot[f].at = "record"
  /\ changes' = [changes EXCEPT ![running] =
                  Append(@, [file |-> f, before |-> slot[f].before, after |-> slot[f].text])]
  /\ Leave(f)
  /\ UNCHANGED <<disk, store, running, over, calls, written, undo, undone,
                 lost, upsets, crashed>>

\* The row names no call, and the foreign key of that column refuses it: the
\* file is written all the same.  Of the connections of the pool only the one
\* that Open configured enforces foreign keys, so a row on another is stored.
RecordRefused(f) ==
  /\ slot[f].at = "record"
  /\ Leave(f)
  /\ UNCHANGED <<disk, store, running, over, calls, written, changes, undo,
                 undone, lost, upsets, crashed>>

----------------------------------------------------------------------------
(* Undoing a turn, and what else happens.                                  *)

UndoTurn(t) ==
  /\ undo.at = "idle"
  /\ t \notin undone
  /\ undo' = [NoUndo EXCEPT !.at = IF changes[t] = <<>> THEN "restore" ELSE "check",
                            !.turn = t, !.rows = changes[t],
                            !.next = IF changes[t] = <<>> THEN 0 ELSE 1]
  /\ UNCHANGED <<disk, store, slot, running, over, calls, written, changes,
                 undone, lost, upsets, crashed>>

UndoRow == undo.rows[undo.next]

\* Mutant: each file is restored as soon as it has been checked.
MUT_UndoCheckAndRestore ==
  /\ undo.at = "check"
  /\ UNCHANGED store
  /\ IF disk[UndoRow.file] # UndoRow.after
     THEN undo' = [undo EXCEPT !.at = "refused"] /\ UNCHANGED disk
     ELSE /\ undo' = IF undo.next = Len(undo.rows)
                     THEN [undo EXCEPT !.at = "restore", !.next = 0, !.restored = TRUE]
                     ELSE [undo EXCEPT !.next = @ + 1, !.restored = TRUE]
          /\ disk' = [disk EXCEPT ![UndoRow.file] = UndoRow.before]
  /\ UNCHANGED <<slot, running, over, calls, written, changes, undone,
                 lost, upsets, crashed>>

\* The first loop of Undo: every row is checked before anything is restored.
UndoCheck ==
  /\ undo.at = "check"
  /\ Store(disk[UndoRow.file])
  /\ undo' = IF disk[UndoRow.file] # UndoRow.after THEN [undo EXCEPT !.at = "refused"]
             ELSE IF undo.next = Len(undo.rows) THEN [undo EXCEPT !.at = "restore"]
             ELSE [undo EXCEPT !.next = @ + 1]
  /\ UNCHANGED <<disk, slot, running, over, calls, written, changes, undone,
                 lost, upsets, crashed>>

\* The error of a Capture ends the request.
UndoCheckFails ==
  /\ undo.at = "check"
  /\ StoreFails(disk[UndoRow.file])
  /\ undo' = NoUndo
  /\ UNCHANGED <<disk, slot, running, over, calls, written, changes, undone,
                 lost, crashed>>

\* What Restore finds in the copy.
Stored(content) ==
  IF content # None /\ store[content] = "torn" THEN Torn ELSE content

\* Mutant: the rows are restored in the order in which they were written.
MUT_RestoreForward ==
  /\ undo.at = "restore"
  /\ undo.next > 0
  /\ LET row == undo.rows[Len(undo.rows) + 1 - undo.next]
     IN disk' = [disk EXCEPT ![row.file] = Stored(row.before)]
  /\ undo' = [undo EXCEPT !.next = @ - 1, !.restored = TRUE]
  /\ UNCHANGED <<store, slot, running, over, calls, written, changes, undone,
                 lost, upsets, crashed>>

\* The second loop of Undo, backwards.
Restore ==
  /\ undo.at = "restore"
  /\ undo.next > 0
  /\ disk' = [disk EXCEPT ![UndoRow.file] = Stored(UndoRow.before)]
  /\ undo' = [undo EXCEPT !.next = @ - 1, !.restored = TRUE]
  /\ slot' = [slot EXCEPT ![UndoRow.file].raced = slot[UndoRow.file].at = "rename"]
  /\ UNCHANGED <<store, running, over, calls, written, changes, undone,
                 lost, upsets, crashed>>

RestoreFails ==
  /\ undo.at = "restore"
  /\ undo.next > 0
  /\ Upset
  /\ undo' = NoUndo
  /\ UNCHANGED <<disk, store, slot, running, over, calls, written, changes,
                 undone, lost, crashed>>

Undone ==
  /\ undo.at = "restore"
  /\ undo.next = 0
  /\ undo' = [undo EXCEPT !.at = "done"]
  /\ undone' = undone \cup {undo.turn}
  /\ UNCHANGED <<disk, store, slot, running, over, calls, written, changes,
                 lost, upsets, crashed>>

UndoReturns ==
  /\ undo.at \in {"done", "refused"}
  /\ undo' = NoUndo
  /\ UNCHANGED <<disk, store, slot, running, over, calls, written, changes,
                 undone, lost, upsets, crashed>>

\* A person, or a program, writes or deletes a file.
Edit(f, content) ==
  /\ Upset
  /\ content # disk[f]
  /\ disk' = [disk EXCEPT ![f] = content]
  /\ Disturb(f)
  /\ UNCHANGED <<store, running, over, calls, written, changes, undone,
                 lost, crashed>>

\* The process ends; a snapshot that was about to be written may be left torn.
Restart ==
  /\ ~crashed
  /\ \E torn \in SUBSET {disk[f] : f \in {g \in Files : slot[g].at \in {"base", "capture"}}} :
       store' = [c \in Contents |-> IF c \in torn /\ store[c] = "none" THEN "torn" ELSE store[c]]
  /\ slot' = [f \in Files |-> Free]
  /\ running' = None
  /\ undo' = NoUndo
  /\ undone' = {}
  /\ crashed' = TRUE
  /\ UNCHANGED <<disk, over, calls, written, changes, lost, upsets>>

Next ==
  \/ \E t \in Turns : BeginTurn(t) \/ UndoTurn(t)
  \/ EndTurn
  \/ \E f \in Files :
       \/ \E text \in Texts, expected \in Known : WriteFile(f, text, expected)
       \/ \E old, new \in Spans, expected \in Known :
            old # new /\ ApplyPatch(f, old, new, expected)
       \/ ReadCurrent(f) \/ PatchBase(f) \/ Capture(f) \/ CaptureFails(f)
       \/ Rename(f) \/ RenameFails(f) \/ Record(f) \/ RecordRefused(f)
       \/ \E content \in Texts \cup {None} : Edit(f, content)
  \/ UndoCheck \/ UndoCheckFails \/ Restore \/ RestoreFails \/ Undone \/ UndoReturns
  \/ Restart

Spec == Init /\ [][Next]_vars

----------------------------------------------------------------------------
(* Properties.                                                             *)

\* Row i is the first of its file.
First(rows, i) == \A j \in 1..(i - 1) : rows[j].file # rows[i].file

\* A turn that was undone left no trace: each file that its rows name is as the
\* first of them found it, unless someone wrote the file while it was undone.
\* The one exception is a snapshot whose writing was cut short, by an error that
\* some call was told of or by a crash: the file gets the fragment.
UndoRestores ==
  undo.at = "done" =>
    \A i \in DOMAIN undo.rows : First(undo.rows, i) =>
      undo.rows[i].file \in undo.raced \/ disk[undo.rows[i].file] = Stored(undo.rows[i].before)

\* Undoing is all or nothing as far as checks go: a request that is refused has
\* not touched a file, and one that restores has found every file as the turn
\* left it, up to what others wrote since the request began.
UndoChecksFirst ==
  /\ undo.at = "refused" => ~undo.restored
  /\ undo.at = "restore" /\ ~undo.restored =>
       \A i \in DOMAIN undo.rows :
         undo.rows[i].file \in undo.raced \/ disk[undo.rows[i].file] = undo.rows[i].after

\* No call destroys a content: whatever it replaces is in the snapshot store,
\* also when a person wrote the file between the reads of a patch, unless the
\* file was written after the call's last look at it.  (The copy may be one
\* whose writing was cut short, which the store never finds out.)
ReplacedIsKept == ~lost

\* What the change-review specification says: each successful modification of
\* a file leaves its FileChange before the tool returns.
WritesAreRecorded ==
  ~crashed => \A t \in Turns :
    (running # t \/ \A f \in Files : slot[f].at = "free") => Len(changes[t]) = written[t]

=============================================================================
