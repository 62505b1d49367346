--------------------------- MODULE WorkspaceProofs ---------------------------
(***************************************************************************)
(* Proofs about Workspace, for every set of files, turns and contents and  *)
(* every bound.                                                            *)
(***************************************************************************)
EXTENDS Workspace, FiniteSetTheorems, TLAPS

Frame == [at : {"free", "read", "base", "capture", "rename", "record"},
          old : Spans \cup {None}, text : Texts \cup Spans \cup {None},
          expected : Contents \cup {None}, before : Contents \cup {None}, raced : BOOLEAN]

Request == [at : {"idle", "check", "restore", "done", "refused"}, turn : Turns \cup {None},
            rows : Seq(Row), next : Nat, restored : BOOLEAN, raced : SUBSET Files]

RequestOK ==
  /\ undo \in Request
  /\ undo.next \in 0..Len(undo.rows)
  /\ undo.at = "check" => undo.next # 0
  /\ undo.at # "idle" => undo.turn \in Turns

\* The variables with all the fields of their records.
Typed ==
  /\ disk \in [Files -> Contents \cup {None}]
  /\ store \in [Contents -> {"none", "torn", "whole"}]
  /\ slot \in [Files -> Frame]
  /\ running \in Turns \cup {None} /\ running \in over \cup {None}
  /\ over \subseteq Turns /\ calls \in 0..MaxCalls
  /\ written \in [Turns -> Nat]
  /\ changes \in [Turns -> Seq(Row)]
  /\ RequestOK
  /\ undone \subseteq Turns
  /\ lost \in BOOLEAN /\ crashed \in BOOLEAN

\* What a call holds at each place; in particular, what it is about to replace
\* is stored, unless the file was disturbed.
FramesOK ==
  \A f \in Files :
    /\ slot[f].at # "free" => running # None
    /\ slot[f].at \in {"read", "base"} => slot[f].old \in Spans /\ slot[f].text \in Spans
    /\ slot[f].at = "base" => slot[f].before \in Contents
    /\ slot[f].at \in {"capture", "rename", "record"} => slot[f].text \in Texts
    /\ slot[f].at \in {"rename", "record"} =>
         /\ slot[f].before # slot[f].text
         /\ slot[f].before # None => store[slot[f].before] # "none"
    /\ slot[f].at = "rename" /\ ~slot[f].raced /\ disk[f] # None => store[disk[f]] # "none"

\* The rows tell two contents apart, and what was there before is stored.
RowsOK ==
  \A t \in Turns : \A i \in DOMAIN changes[t] :
    /\ changes[t][i].before # changes[t][i].after
    /\ changes[t][i].before # None => store[changes[t][i].before] # "none"

CallInv == Typed /\ FramesOK /\ RowsOK /\ ReplacedIsKept

\* Contents and None are told apart, and a patch is applied to texts only.
LEMMA Told == None \notin Contents /\ Texts \subseteq Contents
  BY TextsAssumption DEF Contents

\* A patch of the empty snapshot is refused, any other gives a text.
LEMMA PatchTyped ==
  ASSUME NEW content \in Contents, NEW old \in Spans, NEW new \in Spans,
         Cardinality(Places(content, old)) = 1
  PROVE  Patched(content, old, new) \in Texts
<1>1. CASE content = Torn
  <2>1. Places(content, old) = {}
    BY <1>1 DEF Places, Torn
  <2> QED
    BY <2>1, FS_EmptySet
<1>2. CASE content \in Texts
  BY <1>2, PatchAssumption
<1> QED
  BY <1>1, <1>2 DEF Contents

\* Capturing a content leaves it stored, and everything else as it was.
LEMMA StoreKeeps ==
  ASSUME Typed, NEW content \in Contents \cup {None}, Store(content)
  PROVE  /\ store' \in [Contents -> {"none", "torn", "whole"}]
         /\ \A c \in Contents : store[c] # "none" => store'[c] = store[c]
         /\ \A c \in Contents : store'[c] = "torn" => store[c] = "torn"
         /\ content # None => store'[content] # "none"
  BY Told DEF Typed, Store

\* So does failing to write a copy.
LEMMA FailureKeeps ==
  ASSUME Typed, NEW content \in Contents \cup {None}, StoreFails(content)
  PROVE  /\ store' \in [Contents -> {"none", "torn", "whole"}]
         /\ \A c \in Contents : store[c] # "none" => store'[c] = store[c]
  BY Told DEF Typed, StoreFails

\* The calls and rows of the initial state are in order: there are none.
LEMMA CallInit == Init => CallInv
<1> SUFFICES ASSUME Init PROVE CallInv
  OBVIOUS
<1>1. disk \in [Files -> Contents \cup {None}]
  BY KnownAssumption DEF Init, Contents
<1>2. RequestOK
  BY DEF Init, NoUndo, Request, RequestOK
<1>3. slot \in [Files -> Frame]
  BY DEF Init, Free, Frame
<1>4. Typed
  <2>1. changes \in [Turns -> Seq(Row)] /\ written \in [Turns -> Nat]
    BY DEF Init
  <2>2. store \in [Contents -> {"none", "torn", "whole"}] /\ calls \in 0..MaxCalls
    BY BoundsAssumption DEF Init
  <2> QED
    BY <1>1, <1>2, <1>3, <2>1, <2>2 DEF Init, Typed
<1>5. FramesOK
  BY DEF Init, FramesOK, Free
<1>6. RowsOK
  BY DEF Init, RowsOK
<1> QED
  BY <1>4, <1>5, <1>6 DEF Init, CallInv, ReplacedIsKept

-----------------------------------------------------------------------------
(* The steps of a call.                                                    *)

\* A call that begins, goes on or returns without writing the file.
LEMMA FrameChange ==
  ASSUME CallInv, NEW f \in Files, NEW frame \in Frame,
         slot' = [slot EXCEPT ![f] = frame],
         frame.at # "free" => running # None,
         frame.at \in {"read", "base"} => frame.old \in Spans /\ frame.text \in Spans,
         frame.at = "base" => frame.before \in Contents,
         frame.at \in {"capture", "rename", "record"} => frame.text \in Texts,
         frame.at \in {"rename", "record"} =>
           /\ frame.before # frame.text
           /\ frame.before # None => store'[frame.before] # "none",
         frame.at = "rename" /\ ~frame.raced /\ disk[f] # None => store'[disk[f]] # "none",
         store' \in [Contents -> {"none", "torn", "whole"}],
         \A c \in Contents : store[c] # "none" => store'[c] = store[c],
         calls' \in 0..MaxCalls,
         UNCHANGED <<disk, running, over, written, changes, undo, undone, lost, crashed>>
  PROVE  CallInv'
<1>1. Typed'
  BY DEF CallInv, Typed, RequestOK
<1>2. FramesOK'
  <2> SUFFICES ASSUME NEW g \in Files
               PROVE  /\ slot'[g].at # "free" => running' # None
                      /\ slot'[g].at \in {"read", "base"} =>
                           slot'[g].old \in Spans /\ slot'[g].text \in Spans
                      /\ slot'[g].at = "base" => slot'[g].before \in Contents
                      /\ slot'[g].at \in {"capture", "rename", "record"} => slot'[g].text \in Texts
                      /\ slot'[g].at \in {"rename", "record"} =>
                           /\ slot'[g].before # slot'[g].text
                           /\ slot'[g].before # None => store'[slot'[g].before] # "none"
                      /\ slot'[g].at = "rename" /\ ~slot'[g].raced /\ disk'[g] # None =>
                           store'[disk'[g]] # "none"
    BY DEF FramesOK
  <2>1. CASE g = f
    BY <2>1 DEF CallInv, Typed
  <2>2. CASE g # f
    <3>1. slot'[g] = slot[g] /\ slot[g] \in Frame /\ disk[g] \in Contents \cup {None}
      BY <2>2 DEF CallInv, Typed
    <3>2. slot[g].before \in Contents \cup {None}
      BY <3>1 DEF Frame
    <3> QED
      BY <3>1, <3>2 DEF CallInv, FramesOK
  <2> QED
    BY <2>1, <2>2
<1>3. RowsOK'
  <2> SUFFICES ASSUME NEW t \in Turns, NEW i \in DOMAIN changes[t]
               PROVE  /\ changes[t][i].before # changes[t][i].after
                      /\ changes[t][i].before # None => store'[changes[t][i].before] # "none"
    BY DEF RowsOK
  <2>1. changes[t][i] \in Row
    BY DEF CallInv, Typed
  <2> QED
    BY <2>1 DEF Row, CallInv, RowsOK
<1> QED
  BY <1>1, <1>2, <1>3 DEF CallInv, ReplacedIsKept

\* Leaving is always in order.
LEMMA LeaveKept ==
  ASSUME CallInv, NEW f \in Files, Leave(f),
         store' \in [Contents -> {"none", "torn", "whole"}],
         \A c \in Contents : store[c] # "none" => store'[c] = store[c],
         UNCHANGED <<disk, running, over, calls, written, changes, undo, undone, lost, crashed>>
  PROVE  CallInv'
<1>1. Free \in Frame /\ Free.at = "free"
  BY DEF Free, Frame
<1> QED
  BY <1>1, FrameChange DEF Leave, CallInv, Typed

\* write_file and apply_patch begin.
LEMMA BeginKept ==
  ASSUME CallInv, NEW f \in Files,
         \/ \E text \in Texts, expected \in Known : WriteFile(f, text, expected)
         \/ \E old, new \in Spans, expected \in Known : ApplyPatch(f, old, new, expected)
  PROVE  CallInv'
<1>0. calls < MaxCalls => calls + 1 \in 0..MaxCalls
  BY BoundsAssumption DEF CallInv, Typed
<1>1. ASSUME NEW text \in Texts, NEW expected \in Known, WriteFile(f, text, expected)
      PROVE  CallInv'
  <2> DEFINE frame == [Free EXCEPT !.at = "capture", !.text = text, !.expected = expected]
  <2>1. frame \in Frame /\ frame.at = "capture" /\ frame.text = text
    BY KnownAssumption DEF Free, Frame, Contents
  <2> HIDE DEF frame
  <2>2. Begin(f, frame)
    BY <1>1 DEF WriteFile, frame
  <2> QED
    BY <2>1, <2>2, <1>0, FrameChange DEF Begin, CallInv, Typed
<1>2. ASSUME NEW old \in Spans, NEW new \in Spans, NEW expected \in Known,
             ApplyPatch(f, old, new, expected)
      PROVE  CallInv'
  <2> DEFINE frame == [Free EXCEPT !.at = "read", !.old = old, !.text = new, !.expected = expected]
  <2>1. frame \in Frame /\ frame.at = "read" /\ frame.text = new /\ frame.old = old
    BY KnownAssumption DEF Free, Frame, Contents
  <2> HIDE DEF frame
  <2>2. Begin(f, frame)
    BY <1>2 DEF ApplyPatch, frame
  <2> QED
    BY <2>1, <2>2, <1>0, FrameChange DEF Begin, CallInv, Typed
<1> QED
  BY <1>1, <1>2

\* The first read of a patch.
LEMMA ReadKept == ASSUME CallInv, NEW f \in Files, ReadCurrent(f) PROVE CallInv'
<1>1. CASE disk[f] = None
  BY <1>1, LeaveKept DEF ReadCurrent, CallInv, Typed
<1>2. CASE disk[f] # None
  <2> DEFINE frame == [slot[f] EXCEPT !.at = "base", !.before = disk[f]]
  <2>1. slot[f] \in Frame /\ disk[f] \in Contents /\ slot[f].at = "read"
    BY <1>2 DEF ReadCurrent, CallInv, Typed
  <2>2. slot[f].old \in Spans /\ slot[f].text \in Spans /\ running # None
    BY <2>1 DEF CallInv, FramesOK
  <2>3. /\ frame \in Frame /\ frame.at = "base" /\ frame.before \in Contents
        /\ frame.old \in Spans /\ frame.text \in Spans
    BY <2>1, <2>2 DEF Frame
  <2>4. slot' = [slot EXCEPT ![f] = frame]
    BY <1>2 DEF ReadCurrent, CallInv, Typed
  <2> HIDE DEF frame
  <2> QED
    BY <2>2, <2>3, <2>4, FrameChange DEF ReadCurrent, CallInv, Typed
<1> QED
  BY <1>1, <1>2

\* The second read of a patch, and the patch.
LEMMA BaseKept == ASSUME CallInv, NEW f \in Files, PatchBase(f) PROVE CallInv'
<1>1. slot[f] \in Frame /\ disk[f] \in Contents \cup {None} /\ slot[f].at = "base"
  BY DEF PatchBase, CallInv, Typed
<1>2. /\ slot[f].old \in Spans /\ slot[f].text \in Spans /\ slot[f].before \in Contents
      /\ running # None
  BY <1>1 DEF CallInv, FramesOK
<1>3. /\ store' \in [Contents -> {"none", "torn", "whole"}]
      /\ \A c \in Contents : store[c] # "none" => store'[c] = store[c]
  BY <1>1, StoreKeeps DEF PatchBase, CallInv
<1>4. CASE Leave(f)
  BY <1>3, <1>4, LeaveKept DEF PatchBase
<1>5. CASE ~Leave(f)
  <2> DEFINE text == Patched(slot[f].before, slot[f].old, slot[f].text)
             frame == [slot[f] EXCEPT !.at = "capture", !.expected = disk[f], !.text = text]
  <2>1. /\ Cardinality(Places(slot[f].before, slot[f].old)) = 1
        /\ slot' = [slot EXCEPT ![f].at = "capture", ![f].expected = disk[f], ![f].text = text]
    BY <1>5 DEF PatchBase
  <2>2. text \in Texts
    BY <1>2, <2>1, PatchTyped
  <2> HIDE DEF text
  <2>3. frame \in Frame /\ frame.at = "capture" /\ frame.text \in Texts
    BY <1>1, <2>2 DEF Frame
  <2>4. slot' = [slot EXCEPT ![f] = frame]
    BY <2>1 DEF CallInv, Typed
  <2> HIDE DEF frame
  <2> QED
    BY <1>2, <1>3, <2>3, <2>4, FrameChange DEF PatchBase, CallInv, Typed
<1> QED
  BY <1>4, <1>5

\* The baseline is stored before the call goes on to the rename.
LEMMA CaptureKept == ASSUME CallInv, NEW f \in Files, Capture(f) PROVE CallInv'
<1>1. slot[f] \in Frame /\ disk[f] \in Contents \cup {None} /\ slot[f].at = "capture"
  BY DEF Capture, CallInv, Typed
<1>2. slot[f].text \in Texts /\ running # None
  BY <1>1 DEF CallInv, FramesOK
<1>3. /\ store' \in [Contents -> {"none", "torn", "whole"}]
      /\ \A c \in Contents : store[c] # "none" => store'[c] = store[c]
      /\ disk[f] # None => store'[disk[f]] # "none"
  BY <1>1, StoreKeeps DEF Capture, CallInv
<1>4. CASE Leave(f)
  BY <1>3, <1>4, LeaveKept DEF Capture
<1>5. CASE ~Leave(f)
  <2> DEFINE frame == [slot[f] EXCEPT !.at = "rename", !.before = disk[f]]
  <2>1. /\ disk[f] # slot[f].text
        /\ slot' = [slot EXCEPT ![f].at = "rename", ![f].before = disk[f]]
    BY <1>5 DEF Capture
  <2>2. /\ frame \in Frame /\ frame.at = "rename" /\ frame.before = disk[f]
        /\ frame.text = slot[f].text
    BY <1>1 DEF Frame
  <2>3. slot' = [slot EXCEPT ![f] = frame]
    BY <2>1 DEF CallInv, Typed
  <2> HIDE DEF frame
  <2>4. /\ frame.before # frame.text
        /\ frame.before # None => store'[frame.before] # "none"
        /\ frame.text \in Texts
    BY <1>2, <1>3, <2>1, <2>2
  <2>5. calls \in 0..MaxCalls
    BY DEF CallInv, Typed
  <2> QED
    BY <1>2, <1>3, <2>2, <2>3, <2>4, <2>5, FrameChange DEF Capture
<1> QED
  BY <1>4, <1>5

\* The rename: what it replaces is stored, unless the file was disturbed.
LEMMA RenameKept == ASSUME CallInv, NEW f \in Files, Rename(f) PROVE CallInv'
<1>1. slot[f] \in Frame /\ disk[f] \in Contents \cup {None} /\ slot[f].at = "rename"
  BY DEF Rename, CallInv, Typed
<1>2. slot[f].text \in Texts /\ running \in Turns
  BY <1>1 DEF CallInv, FramesOK, Typed
<1>3. slot' = [slot EXCEPT ![f] = [slot[f] EXCEPT !.at = "record"]]
  BY DEF Rename, CallInv, Typed
<1>4. [slot[f] EXCEPT !.at = "record"] \in Frame
  BY <1>1 DEF Frame
<1>5. lost' = FALSE
  BY <1>1 DEF Rename, CallInv, ReplacedIsKept, FramesOK
<1>6. RequestOK'
  BY DEF Rename, CallInv, Typed, Request, RequestOK
<1>7. Typed'
  BY <1>1, <1>2, <1>3, <1>4, <1>5, <1>6, Told DEF Rename, CallInv, Typed
<1>8. FramesOK'
  BY <1>1, <1>3 DEF Rename, CallInv, Typed, FramesOK, Frame
<1>9. RowsOK'
  BY DEF Rename, CallInv, RowsOK
<1> QED
  BY <1>5, <1>7, <1>8, <1>9 DEF CallInv, ReplacedIsKept

\* The record: the row tells what the call replaced from what it wrote.
LEMMA RecordKept == ASSUME CallInv, NEW f \in Files, Record(f) PROVE CallInv'
<1>1. slot[f] \in Frame /\ slot[f].at = "record"
  BY DEF Record, CallInv, Typed
<1>2. /\ slot[f].text \in Texts /\ running \in Turns /\ slot[f].before # slot[f].text
      /\ slot[f].before # None => store[slot[f].before] # "none"
  BY <1>1 DEF CallInv, FramesOK, Typed
<1> DEFINE row == [file |-> f, before |-> slot[f].before, after |-> slot[f].text]
<1>3. row \in Row
  BY <1>1, <1>2, Told DEF Row, Frame
<1>4. /\ changes' = [changes EXCEPT ![running] = Append(changes[running], row)]
      /\ changes \in [Turns -> Seq(Row)]
  BY DEF Record, CallInv, Typed
<1>5. row.before = slot[f].before /\ row.after = slot[f].text
  OBVIOUS
<1> HIDE DEF row
<1>6. Free \in Frame /\ Free.at = "free"
  BY DEF Free, Frame
<1>7. Typed'
  BY <1>2, <1>3, <1>4, <1>6 DEF Record, Leave, CallInv, Typed, RequestOK
<1>8. FramesOK'
  BY <1>6 DEF Record, Leave, CallInv, Typed, FramesOK
<1>9. RowsOK'
  <2> SUFFICES ASSUME NEW t \in Turns, NEW i \in DOMAIN changes'[t]
               PROVE  /\ changes'[t][i].before # changes'[t][i].after
                      /\ changes'[t][i].before # None => store[changes'[t][i].before] # "none"
    BY DEF RowsOK, Record
  <2>1. CASE i \in DOMAIN changes[t] /\ changes'[t][i] = changes[t][i]
    BY <2>1 DEF CallInv, RowsOK
  <2>2. CASE changes'[t][i] = row
    BY <1>2, <1>5, <2>2
  <2> QED
    BY <1>2, <1>3, <1>4, <2>1, <2>2
<1> QED
  BY <1>7, <1>8, <1>9 DEF Record, CallInv, ReplacedIsKept

-----------------------------------------------------------------------------
(* The other steps.                                                        *)

\* What a call or a row relies on stays when only the store changes and keeps
\* what it has, and when the calls are as they were or gone.
LEMMA StoreGrows ==
  ASSUME Typed, RowsOK, UNCHANGED <<changes>>,
         \A c \in Contents : store[c] # "none" => store'[c] = store[c]
  PROVE  /\ RowsOK'
         /\ FramesOK /\ UNCHANGED <<disk, slot, running>> => FramesOK'
<1>1. \A t \in Turns : \A i \in DOMAIN changes[t] : changes[t][i].before \in Contents \cup {None}
  <2>1. \A t \in Turns : \A i \in DOMAIN changes[t] : changes[t][i] \in Row
    BY DEF Typed
  <2> QED
    BY <2>1 DEF Row
<1>2. \A f \in Files : slot[f].before \in Contents \cup {None} /\ disk[f] \in Contents \cup {None}
  BY DEF Typed, Frame
<1>3. RowsOK'
  BY <1>1 DEF RowsOK
<1>4. FramesOK /\ UNCHANGED <<disk, slot, running>> => FramesOK'
  BY <1>2 DEF FramesOK
<1> QED
  BY <1>3, <1>4

\* A file gets a new content from someone else: a call that is about to rename
\* is marked as disturbed.
LEMMA DisturbKept ==
  ASSUME CallInv, NEW f \in Files, NEW content \in Contents \cup {None},
         disk' = [disk EXCEPT ![f] = content],
         slot' = [slot EXCEPT ![f].raced = slot[f].at = "rename"],
         RequestOK',
         UNCHANGED <<store, running, over, calls, written, changes, undone, lost, crashed>>
  PROVE  CallInv'
<1>1. slot[f] \in Frame
  BY DEF CallInv, Typed
<1> DEFINE frame == [slot[f] EXCEPT !.raced = (slot[f].at = "rename")]
<1>2. /\ frame \in Frame /\ frame.at = slot[f].at /\ frame.old = slot[f].old
      /\ frame.text = slot[f].text /\ frame.before = slot[f].before
      /\ frame.raced = (slot[f].at = "rename")
  BY <1>1 DEF Frame
<1>3. slot' = [slot EXCEPT ![f] = frame]
  BY DEF CallInv, Typed
<1> HIDE DEF frame
<1>4. Typed'
  <2>1. slot' \in [Files -> Frame]
    BY <1>2, <1>3 DEF CallInv, Typed
  <2>2. disk' \in [Files -> Contents \cup {None}]
    BY DEF CallInv, Typed
  <2> QED
    BY <2>1, <2>2 DEF CallInv, Typed
<1>5. FramesOK'
  <2> SUFFICES ASSUME NEW g \in Files
               PROVE  /\ slot'[g].at # "free" => running # None
                      /\ slot'[g].at \in {"read", "base"} =>
                           slot'[g].old \in Spans /\ slot'[g].text \in Spans
                      /\ slot'[g].at = "base" => slot'[g].before \in Contents
                      /\ slot'[g].at \in {"capture", "rename", "record"} => slot'[g].text \in Texts
                      /\ slot'[g].at \in {"rename", "record"} =>
                           /\ slot'[g].before # slot'[g].text
                           /\ slot'[g].before # None => store[slot'[g].before] # "none"
                      /\ slot'[g].at = "rename" /\ ~slot'[g].raced /\ disk'[g] # None =>
                           store[disk'[g]] # "none"
    BY DEF FramesOK
  <2>1. CASE g = f
    <3>1. slot'[g] = frame
      BY <1>3, <2>1 DEF CallInv, Typed
    <3> QED
      BY <1>2, <2>1, <3>1 DEF CallInv, FramesOK
  <2>2. CASE g # f
    BY <1>3, <2>2 DEF CallInv, Typed, FramesOK
  <2> QED
    BY <2>1, <2>2
<1>6. RowsOK'
  BY DEF CallInv, RowsOK
<1> QED
  BY <1>4, <1>5, <1>6 DEF CallInv, ReplacedIsKept

\* The check of a request looks at a file.
LEMMA CheckedFile ==
  ASSUME CallInv, undo.at = "check"
  PROVE  disk[UndoRow.file] \in Contents \cup {None}
<1>1. undo.rows \in Seq(Row) /\ undo.next \in 1..Len(undo.rows)
  BY DEF CallInv, Typed, Request, RequestOK
<1>2. UndoRow \in Row
  BY <1>1 DEF UndoRow
<1>3. UndoRow.file \in Files
  BY <1>2 DEF Row
<1> QED
  BY <1>3 DEF CallInv, Typed

\* No step of a request to undo, of a person, of the lock or of the process
\* takes a content out of the store or loses one.
LEMMA OthersKept ==
  ASSUME CallInv,
         \/ \E t \in Turns : BeginTurn(t) \/ UndoTurn(t)
         \/ EndTurn \/ UndoCheck \/ UndoCheckFails \/ Restore \/ RestoreFails \/ Undone \/ UndoReturns \/ Restart
         \/ \E f \in Files, content \in Texts \cup {None} : Edit(f, content)
         \/ UNCHANGED vars
  PROVE  CallInv'
<1>0. undo' = NoUndo => RequestOK'
  BY DEF NoUndo, Request, RequestOK
<1>1. ASSUME NEW t \in Turns, BeginTurn(t) PROVE CallInv'
  BY <1>1 DEF BeginTurn, CallInv, Typed, FramesOK, RowsOK, ReplacedIsKept, RequestOK
<1>2. ASSUME NEW t \in Turns, UndoTurn(t) PROVE CallInv'
  <2>1. changes[t] \in Seq(Row)
    BY DEF CallInv, Typed
  <2>2. undo' = [at |-> IF changes[t] = <<>> THEN "restore" ELSE "check", turn |-> t,
                 rows |-> changes[t], next |-> IF changes[t] = <<>> THEN 0 ELSE 1,
                 restored |-> FALSE, raced |-> {}]
    BY <1>2 DEF UndoTurn, NoUndo
  <2>3. RequestOK'
    BY <2>1, <2>2 DEF Request, RequestOK
  <2> QED
    BY <1>2, <2>3 DEF UndoTurn, CallInv, Typed, FramesOK, RowsOK, ReplacedIsKept
<1>3. CASE EndTurn
  BY <1>3 DEF EndTurn, CallInv, Typed, FramesOK, RowsOK, ReplacedIsKept, RequestOK
<1>4. CASE UndoCheck
  <2>1. /\ undo.rows \in Seq(Row) /\ undo \in Request /\ undo.next \in 1..Len(undo.rows)
        /\ UndoRow \in Row
    BY <1>4 DEF UndoCheck, UndoRow, CallInv, Typed, Request, RequestOK
  <2>2. UndoRow.file \in Files
    BY <2>1 DEF Row
  <2>3. disk[UndoRow.file] \in Contents \cup {None}
    BY <2>2 DEF CallInv, Typed
  <2>4. /\ store' \in [Contents -> {"none", "torn", "whole"}]
        /\ \A c \in Contents : store[c] # "none" => store'[c] = store[c]
    BY <1>4, <2>3, StoreKeeps DEF UndoCheck, CallInv
  <2>5. RequestOK'
    <3>1. undo.turn \in Turns
      BY <1>4 DEF UndoCheck, CallInv, Typed, RequestOK
    <3>2. ASSUME NEW at \in {"refused", "restore"}, undo' = [undo EXCEPT !.at = at]
          PROVE  RequestOK'
      BY <2>1, <3>1, <3>2 DEF Request, RequestOK
    <3>3. CASE undo' = [undo EXCEPT !.next = undo.next + 1] /\ undo.next # Len(undo.rows)
      BY <2>1, <3>1, <3>3 DEF Request, RequestOK
    <3> QED
      BY <1>4, <3>2, <3>3 DEF UndoCheck
  <2>6. Typed'
    BY <1>4, <2>4, <2>5 DEF UndoCheck, CallInv, Typed
  <2>7. FramesOK' /\ RowsOK'
    BY <1>4, <2>4, StoreGrows DEF UndoCheck, CallInv
  <2> QED
    BY <1>4, <2>6, <2>7 DEF UndoCheck, CallInv, ReplacedIsKept
<1>5. CASE Restore
  <2>1. /\ undo.rows \in Seq(Row) /\ undo \in Request /\ undo.next \in 1..Len(undo.rows)
        /\ UndoRow \in Row
    BY <1>5 DEF Restore, UndoRow, CallInv, Typed, Request, RequestOK
  <2>2. UndoRow.file \in Files /\ UndoRow.before \in Contents \cup {None}
    BY <2>1 DEF Row
  <2>3. Stored(UndoRow.before) \in Contents \cup {None}
    BY <2>2 DEF Stored, Contents
  <2>4. RequestOK'
    <3>1. undo.turn \in Turns
      BY <1>5 DEF Restore, CallInv, Typed, RequestOK
    <3>2. undo' = [undo EXCEPT !.next = undo.next - 1, !.restored = TRUE] /\ undo.at = "restore"
      BY <1>5 DEF Restore
    <3>3. undo.next - 1 \in 0..Len(undo.rows) /\ undo.next - 1 \in Nat
      BY <2>1
    <3>4. /\ undo' \in Request /\ undo'.next = undo.next - 1 /\ undo'.rows = undo.rows
          /\ undo'.at = "restore" /\ undo'.turn = undo.turn
      BY <2>1, <3>2, <3>3 DEF Request
    <3> QED
      BY <3>1, <3>3, <3>4 DEF RequestOK
  <2> QED
    BY <1>5, <2>2, <2>3, <2>4, DisturbKept DEF Restore
<1>6. CASE RestoreFails \/ UndoReturns
  <2>1. /\ undo' = NoUndo
        /\ UNCHANGED <<disk, store, slot, running, over, calls, written, changes, undone, lost,
                       crashed>>
    BY <1>6 DEF RestoreFails, UndoReturns
  <2> QED
    BY <1>0, <2>1 DEF CallInv, Typed, FramesOK, RowsOK, ReplacedIsKept
<1>7. CASE Undone
  <2>1. undo \in Request /\ undo.turn \in Turns /\ undo' = [undo EXCEPT !.at = "done"]
    BY <1>7 DEF Undone, CallInv, Typed, RequestOK
  <2>2. RequestOK'
    BY <2>1 DEF CallInv, Typed, Request, RequestOK
  <2> QED
    BY <1>7, <2>1, <2>2 DEF Undone, CallInv, Typed, FramesOK, RowsOK, ReplacedIsKept
<1>8. CASE Restart
  <2>1. Free \in Frame /\ Free.at = "free"
    BY DEF Free, Frame
  <2>2. PICK torn : store' = [c \in Contents |->
                               IF c \in torn /\ store[c] = "none" THEN "torn" ELSE store[c]]
    BY <1>8 DEF Restart
  <2>3. /\ store' \in [Contents -> {"none", "torn", "whole"}]
        /\ \A c \in Contents : store[c] # "none" => store'[c] = store[c]
    BY <2>2 DEF CallInv, Typed
  <2>4. Typed'
    <3>1. slot' \in [Files -> Frame] /\ RequestOK'
      BY <1>0, <1>8, <2>1 DEF Restart
    <3> QED
      BY <1>8, <2>3, <3>1 DEF Restart, CallInv, Typed
  <2>5. FramesOK'
    BY <1>8, <2>1 DEF Restart, FramesOK
  <2>6. RowsOK'
    BY <1>8, <2>3, StoreGrows DEF Restart, CallInv
  <2> QED
    BY <1>8, <2>4, <2>5, <2>6 DEF Restart, CallInv, ReplacedIsKept
<1>9. ASSUME NEW f \in Files, NEW content \in Texts \cup {None}, Edit(f, content) PROVE CallInv'
  <2>1. RequestOK'
    BY <1>9 DEF Edit, Disturb, CallInv, Typed, RequestOK, Request
  <2> QED
    BY <1>9, <2>1, Told, DisturbKept DEF Edit, Disturb
<1>10. CASE UNCHANGED vars
  BY <1>10 DEF vars, CallInv, Typed, FramesOK, RowsOK, ReplacedIsKept, RequestOK
<1>11. CASE UndoCheckFails
  <2>1. disk[UndoRow.file] \in Contents \cup {None}
    BY <1>11, CheckedFile DEF UndoCheckFails
  <2>2. /\ store' \in [Contents -> {"none", "torn", "whole"}]
        /\ \A c \in Contents : store[c] # "none" => store'[c] = store[c]
    BY <1>11, <2>1, FailureKeeps DEF UndoCheckFails, CallInv
  <2>3. Typed'
    BY <1>0, <1>11, <2>2 DEF UndoCheckFails, CallInv, Typed
  <2>4. FramesOK' /\ RowsOK'
    BY <1>11, <2>2, StoreGrows DEF UndoCheckFails, CallInv
  <2> QED
    BY <1>11, <2>3, <2>4 DEF UndoCheckFails, CallInv, ReplacedIsKept
<1> QED
  BY <1>1, <1>2, <1>3, <1>4, <1>5, <1>6, <1>7, <1>8, <1>9, <1>10, <1>11

\* No step of any actor makes a call lose what it replaces.
LEMMA CallNext == CallInv /\ [Next]_vars => CallInv'
<1> SUFFICES ASSUME CallInv, [Next]_vars PROVE CallInv'
  OBVIOUS
<1>1. ASSUME NEW f \in Files, RenameFails(f) \/ RecordRefused(f) PROVE CallInv'
  BY <1>1, LeaveKept DEF RenameFails, RecordRefused, CallInv, Typed
<1>2. ASSUME NEW f \in Files, CaptureFails(f) PROVE CallInv'
  <2>1. /\ store' \in [Contents -> {"none", "torn", "whole"}]
        /\ \A c \in Contents : store[c] # "none" => store'[c] = store[c]
    BY <1>2, FailureKeeps DEF CaptureFails, CallInv, Typed
  <2> QED
    BY <1>2, <2>1, LeaveKept DEF CaptureFails, CallInv, Typed
<1> QED
  BY <1>1, <1>2, BeginKept, ReadKept, BaseKept, CaptureKept, RenameKept, RecordKept, OthersKept DEF Next

\* The invariant of the calls holds in every state.
LEMMA CallAlways == Spec => []CallInv
  BY CallInit, CallNext, PTL DEF Spec

\* No call destroys a content that nobody kept: what it replaces is in the
\* snapshot store, unless someone wrote the file after the call's last look.
THEOREM ReplacedCorrect == Spec => []ReplacedIsKept
<1>1. CallInv => ReplacedIsKept
  BY DEF CallInv
<1> QED
  BY <1>1, CallAlways, PTL

\* Every variable has its type, every row tells two contents apart, and what a
\* row calls the content before is stored.
THEOREM TypeCorrect == Spec => []TypeOK
<1>1. CallInv => TypeOK
  <2> SUFFICES ASSUME CallInv PROVE TypeOK
    OBVIOUS
  <2>1. \A f \in Files : slot[f] \in Frame
    BY DEF CallInv, Typed
  <2>2. \A f \in Files :
          /\ slot[f].at \in {"free", "read", "base", "capture", "rename", "record"}
          /\ slot[f].at # "free" => running # None
    BY <2>1 DEF Frame, CallInv, FramesOK
  <2>3. undo.at \in {"idle", "check", "restore", "done", "refused"}
    BY DEF CallInv, Typed, Request, RequestOK
  <2> QED
    BY <2>2, <2>3 DEF CallInv, Typed, RequestOK, RowsOK, TypeOK
<1> QED
  BY <1>1, CallAlways, PTL

-----------------------------------------------------------------------------
(* Undoing a turn.                                                         *)

\* What is in the snapshot store stays as it is, torn or whole.
StoreHolds == \A c \in Contents : store[c] # "none" => store'[c] = store[c]

\* The file of row i is as the turn left it, up to what others wrote since.
Found(i) == undo.rows[i].file \in undo.raced \/ disk[undo.rows[i].file] = undo.rows[i].after

\* The rows before the one to be checked have been found in order.
CheckedOK ==
  /\ undo.at \in {"check", "refused"} => ~undo.restored
  /\ undo.at = "check" => \A i \in 1..(undo.next - 1) : Found(i)
  /\ undo.at = "restore" /\ ~undo.restored =>
       undo.next = Len(undo.rows) /\ \A i \in 1..Len(undo.rows) : Found(i)

\* The file of row i is what the store has of it from before the turn.
Back(i) == undo.rows[i].file \in undo.raced \/ disk[undo.rows[i].file] = Stored(undo.rows[i].before)

\* The rows of a request have their snapshots.
SnapshotsOK ==
  \A i \in 1..Len(undo.rows) :
    undo.rows[i].before # None => store[undo.rows[i].before] # "none"

\* Of the rows that have been restored, from the last backwards, the first of
\* each file is what the file holds.
RestoredOK ==
  /\ undo.at = "done" => undo.next = 0
  /\ undo.at \in {"restore", "done"} =>
       \A i \in (undo.next + 1)..Len(undo.rows) :
         (\A j \in (undo.next + 1)..(i - 1) : undo.rows[j].file # undo.rows[i].file) => Back(i)

UndoInv == CallInv /\ SnapshotsOK /\ CheckedOK /\ RestoredOK

\* The rows of a request are rows, and their files are files.
LEMMA RowsTyped ==
  ASSUME CallInv
  PROVE  /\ undo \in Request /\ undo.next \in 0..Len(undo.rows) /\ Len(undo.rows) \in Nat
         /\ \A i \in 1..Len(undo.rows) :
              /\ undo.rows[i] \in Row /\ undo.rows[i].file \in Files
              /\ undo.rows[i].before \in Contents \cup {None}
<1>1. undo \in Request /\ undo.next \in 0..Len(undo.rows)
  BY DEF CallInv, Typed, RequestOK
<1>2. undo.rows \in Seq(Row)
  BY <1>1 DEF Request
<1>3. \A i \in 1..Len(undo.rows) : undo.rows[i] \in Row
  BY <1>2
<1> QED
  BY <1>1, <1>2, <1>3 DEF Row

\* While the rows of a request stay, so do their snapshots, and what Restore finds.
LEMMA SnapshotsKept ==
  ASSUME UndoInv, CallInv', StoreHolds, undo'.rows = undo.rows
  PROVE  /\ SnapshotsOK'
         /\ \A i \in 1..Len(undo.rows) : Stored(undo.rows[i].before)' = Stored(undo.rows[i].before)
<1>1. \A i \in 1..Len(undo.rows) : undo.rows[i].before \in Contents \cup {None}
  BY RowsTyped DEF UndoInv
<1>2. SnapshotsOK'
  BY <1>1 DEF UndoInv, SnapshotsOK, StoreHolds
<1>3. \A i \in 1..Len(undo.rows) :
        undo.rows[i].before # None => store'[undo.rows[i].before] = store[undo.rows[i].before]
  BY <1>1 DEF UndoInv, SnapshotsOK, StoreHolds
<1> QED
  BY <1>2, <1>3 DEF Stored

\* Every step of a call or a person leaves the request to undo as it is, except
\* that it marks the file it writes.
LEMMA UndisturbedKept ==
  ASSUME UndoInv, CallInv', StoreHolds,
         \/ UNCHANGED <<disk, undo>>
         \/ \E f \in Files :
              /\ \A g \in Files \ {f} : disk'[g] = disk[g]
              /\ undo' = IF Undoing THEN [undo EXCEPT !.raced = @ \cup {f}] ELSE undo
  PROVE  UndoInv'
<1>1. CASE UNCHANGED <<disk, undo>>
  <2>1. RestoredOK'
    BY <1>1, SnapshotsKept, RowsTyped DEF UndoInv, RestoredOK, Back
  <2> QED
    BY <1>1, <2>1, SnapshotsKept DEF UndoInv, CheckedOK, Found
<1>2. ASSUME NEW f \in Files, \A g \in Files \ {f} : disk'[g] = disk[g],
             undo' = IF Undoing THEN [undo EXCEPT !.raced = @ \cup {f}] ELSE undo
      PROVE  UndoInv'
  <2>1. CASE ~Undoing
    BY <1>2, <2>1, SnapshotsKept DEF Undoing, UndoInv, CheckedOK, RestoredOK, Found
  <2>2. CASE Undoing
    <3>1. /\ undo'.at = undo.at /\ undo'.next = undo.next /\ undo'.rows = undo.rows
          /\ undo'.restored = undo.restored /\ undo'.raced = undo.raced \cup {f}
      BY <1>2, <2>2, RowsTyped DEF UndoInv, Request
    <3>2. \A i \in 1..Len(undo.rows) : undo.rows[i].file # f =>
            disk'[undo.rows[i].file] = disk[undo.rows[i].file]
      BY <1>2, RowsTyped DEF UndoInv
    <3>3. CheckedOK'
      BY <3>1, <3>2, RowsTyped DEF UndoInv, CheckedOK, Found
    <3>4. \A i \in 1..Len(undo.rows) : Back(i) => Back(i)'
      BY <3>1, <3>2, SnapshotsKept DEF Back
    <3>5. RestoredOK'
      BY <3>1, <3>4, RowsTyped DEF UndoInv, RestoredOK
    <3> QED
      BY <3>1, <3>3, <3>5, SnapshotsKept DEF UndoInv
  <2> QED
    BY <2>1, <2>2
<1> QED
  BY <1>1, <1>2

\* One step of the check: the row compared is as the turn left it.
LEMMA CheckKept == ASSUME UndoInv, CallInv', StoreHolds, UndoCheck PROVE UndoInv'
<1>1. /\ undo \in Request /\ undo.next \in 1..Len(undo.rows) /\ undo.at = "check"
      /\ ~undo.restored /\ UndoRow = undo.rows[undo.next]
  BY RowsTyped DEF UndoCheck, UndoRow, UndoInv, CallInv, Typed, RequestOK, CheckedOK
<1>0. SnapshotsOK'
  BY <1>1, SnapshotsKept DEF UndoCheck, Request
<1>2. CASE undo' = [undo EXCEPT !.at = "refused"]
  BY <1>0, <1>1, <1>2 DEF UndoInv, CheckedOK, RestoredOK, Request
<1>3. CASE /\ disk[UndoRow.file] = UndoRow.after
           /\ undo.next = Len(undo.rows)
           /\ undo' = [undo EXCEPT !.at = "restore"]
  <2>1. /\ undo'.at = "restore" /\ undo'.next = undo.next /\ undo'.rows = undo.rows
        /\ undo'.restored = undo.restored /\ undo'.raced = undo.raced
    BY <1>1, <1>3 DEF Request
  <2>2. \A i \in 1..Len(undo.rows) : Found(i)
    BY <1>1, <1>3, RowsTyped DEF UndoInv, CheckedOK, Found
  <2>3. disk' = disk
    BY DEF UndoCheck
  <2>4. CheckedOK'
    BY <1>1, <1>3, <2>1, <2>2, <2>3 DEF CheckedOK, Found
  <2>5. RestoredOK'
    BY <1>1, <1>3, <2>1, RowsTyped DEF RestoredOK, UndoInv
  <2> QED
    BY <1>0, <2>4, <2>5 DEF UndoInv
<1>4. CASE /\ disk[UndoRow.file] = UndoRow.after
           /\ undo.next # Len(undo.rows)
           /\ undo' = [undo EXCEPT !.next = undo.next + 1]
  <2>1. /\ undo'.at = "check" /\ undo'.next = undo.next + 1 /\ undo'.rows = undo.rows
        /\ undo'.restored = undo.restored /\ undo'.raced = undo.raced
    BY <1>1, <1>4 DEF Request
  <2>2. \A i \in 1..undo.next : Found(i)
    BY <1>1, <1>4, RowsTyped DEF UndoInv, CheckedOK, Found
  <2>3. disk' = disk
    BY DEF UndoCheck
  <2>4. ASSUME NEW i \in 1..undo.next PROVE Found(i)'
    BY <2>1, <2>2, <2>3 DEF Found
  <2>5. undo'.next - 1 = undo.next
    BY <1>1, <2>1 DEF Request
  <2>6. CheckedOK'
    <3> SUFFICES ASSUME NEW i \in 1..(undo'.next - 1) PROVE Found(i)'
      BY <1>1, <2>1 DEF CheckedOK
    <3> QED
      BY <2>4, <2>5
  <2>7. RestoredOK'
    BY <1>1, <2>1 DEF RestoredOK
  <2> QED
    BY <1>0, <2>6, <2>7 DEF UndoInv
<1> QED
  BY <1>1, <1>2, <1>3, <1>4 DEF UndoCheck

\* One step of the restoration: the row restored is now the first of its file
\* among those restored.
LEMMA RestoreKept == ASSUME UndoInv, CallInv', StoreHolds, Restore PROVE UndoInv'
<1>1. /\ undo \in Request /\ undo.next \in 1..Len(undo.rows) /\ undo.at = "restore"
      /\ UndoRow = undo.rows[undo.next] /\ UndoRow.file \in Files
      /\ UndoRow.before \in Contents \cup {None}
  BY RowsTyped DEF Restore, UndoRow, UndoInv
<1>2. /\ undo'.at = "restore" /\ undo'.next = undo.next - 1 /\ undo'.rows = undo.rows
      /\ undo'.restored = TRUE /\ undo'.raced = undo.raced
  BY <1>1 DEF Restore, Request
<1>3. CheckedOK'
  BY <1>2 DEF CheckedOK
<1>4. RestoredOK'
  <2> SUFFICES ASSUME NEW i \in undo.next..Len(undo.rows),
                      \A j \in undo.next..(i - 1) : undo.rows[j].file # undo.rows[i].file
               PROVE  \/ undo.rows[i].file \in undo.raced
                      \/ disk'[undo.rows[i].file] = Stored(undo.rows[i].before)'
    BY <1>1, <1>2 DEF RestoredOK, Back
  <2>1. Stored(undo.rows[i].before)' = Stored(undo.rows[i].before)
    BY <1>1, <1>2, SnapshotsKept
  <2>2. disk' = [disk EXCEPT ![UndoRow.file] = Stored(UndoRow.before)]
    BY DEF Restore
  <2>3. CASE i = undo.next
    BY <1>1, <2>1, <2>2, <2>3 DEF UndoInv, CallInv, Typed
  <2>4. CASE i # undo.next
    <3>1. i \in (undo.next + 1)..Len(undo.rows) /\ undo.rows[i].file # UndoRow.file
      BY <1>1, <2>4
    <3>2. Back(i)
      BY <1>1, <3>1 DEF UndoInv, RestoredOK
    <3>3. undo.rows[i].file \in Files
      BY <1>1, <3>1, RowsTyped DEF UndoInv
    <3> QED
      BY <2>1, <2>2, <3>1, <3>2, <3>3 DEF Back, UndoInv, CallInv, Typed
  <2> QED
    BY <2>3, <2>4
<1> QED
  BY <1>2, <1>3, <1>4, SnapshotsKept DEF UndoInv

\* No step changes a snapshot that is in the store.
LEMMA StoreNext == CallInv /\ [Next]_vars => StoreHolds
<1> SUFFICES ASSUME CallInv, [Next]_vars PROVE StoreHolds
  OBVIOUS
<1>1. CASE UNCHANGED store
  BY <1>1 DEF StoreHolds
<1>2. ASSUME NEW content \in Contents \cup {None}, Store(content) \/ StoreFails(content)
      PROVE  StoreHolds
  BY <1>2, StoreKeeps, FailureKeeps DEF StoreHolds, CallInv
<1>3. ASSUME NEW f \in Files, PatchBase(f) \/ Capture(f) \/ CaptureFails(f) PROVE StoreHolds
  BY <1>2, <1>3 DEF PatchBase, Capture, CaptureFails, CallInv, Typed
<1>4. CASE UndoCheck \/ UndoCheckFails
  BY <1>2, <1>4, CheckedFile DEF UndoCheck, UndoCheckFails
<1>5. CASE Restart
  <2>1. PICK torn : store' = [c \in Contents |->
                               IF c \in torn /\ store[c] = "none" THEN "torn" ELSE store[c]]
    BY <1>5 DEF Restart
  <2> QED
    BY <2>1 DEF StoreHolds
<1> QED
  BY <1>1, <1>3, <1>4, <1>5
  DEF Next, vars, BeginTurn, EndTurn, WriteFile, ApplyPatch, Begin, ReadCurrent, Rename,
      RenameFails, Record, RecordRefused, Edit, UndoTurn, Restore, RestoreFails, Undone, UndoReturns

\* No step of any actor breaks what a request to undo relies on.
LEMMA UndoNext == UndoInv /\ [Next]_vars => UndoInv'
<1> SUFFICES ASSUME UndoInv, [Next]_vars PROVE UndoInv'
  OBVIOUS
<1>0. CallInv' /\ StoreHolds
  BY CallNext, StoreNext DEF UndoInv
<1>1. CASE UNCHANGED <<disk, undo>>
  BY <1>0, <1>1, UndisturbedKept
<1>2. ASSUME NEW f \in Files, \/ Rename(f) \/ \E content \in Texts \cup {None} : Edit(f, content)
      PROVE  UndoInv'
  <2>1. /\ \A g \in Files \ {f} : disk'[g] = disk[g]
        /\ undo' = IF Undoing THEN [undo EXCEPT !.raced = @ \cup {f}] ELSE undo
    BY <1>2 DEF Rename, Edit, Disturb, UndoInv, CallInv, Typed
  <2> QED
    BY <1>0, <2>1, UndisturbedKept
<1>3. ASSUME NEW t \in Turns, UndoTurn(t) PROVE UndoInv'
  <2>1. /\ undo'.at \in {"restore", "check"} /\ undo'.rows = changes[t]
        /\ undo'.at = "restore" => changes[t] = <<>> /\ undo'.next = 0
        /\ undo'.at = "check" => undo'.next = 1
        /\ undo'.restored = FALSE /\ store' = store
    BY <1>3 DEF UndoTurn, NoUndo
  <2>2. CheckedOK'
    BY <2>1 DEF CheckedOK
  <2>3. RestoredOK'
    BY <2>1 DEF RestoredOK
  <2>4. changes[t] \in Seq(Row)
    BY DEF UndoInv, CallInv, Typed
  <2>5. SnapshotsOK'
    BY <2>1, <2>4 DEF UndoInv, CallInv, RowsOK, SnapshotsOK
  <2> QED
    BY <1>0, <2>2, <2>3, <2>5 DEF UndoInv
<1>4. CASE undo' = NoUndo
  BY <1>0, <1>4 DEF UndoInv, SnapshotsOK, CheckedOK, RestoredOK, NoUndo
<1>5. CASE Undone
  <2>1. /\ undo'.at = "done" /\ undo'.next = undo.next /\ undo'.rows = undo.rows
        /\ undo'.raced = undo.raced /\ undo.at = "restore" /\ undo.next = 0
        /\ UNCHANGED <<disk, store>>
    BY <1>5, RowsTyped DEF Undone, UndoInv, Request
  <2>2. SnapshotsOK' /\ CheckedOK'
    BY <2>1 DEF UndoInv, SnapshotsOK, CheckedOK
  <2>3. RestoredOK'
    BY <2>1 DEF UndoInv, RestoredOK, Back, Stored
  <2> QED
    BY <1>0, <2>2, <2>3 DEF UndoInv
<1> QED
  BY <1>0, <1>1, <1>2, <1>3, <1>4, <1>5, CheckKept, RestoreKept
  DEF Next, vars, BeginTurn, EndTurn, WriteFile, ApplyPatch, Begin, ReadCurrent, PatchBase,
      Capture, CaptureFails, RenameFails, Record, RecordRefused, UndoCheckFails, RestoreFails,
      UndoReturns, Restart

\* The invariant of undoing holds in every state.
LEMMA UndoAlways == Spec => []UndoInv
<1>1. Init => UndoInv
  BY CallInit DEF Init, UndoInv, SnapshotsOK, CheckedOK, RestoredOK, NoUndo
<1> QED
  BY <1>1, UndoNext, PTL DEF Spec

\* A turn that was undone left no trace in the files that its rows name, up to
\* what others wrote while it was undone and up to snapshots that were cut short.
THEOREM UndoCorrect == Spec => []UndoRestores
<1>1. UndoInv => UndoRestores
  BY RowsTyped DEF UndoInv, RestoredOK, Back, UndoRestores, First
<1> QED
  BY <1>1, UndoAlways, PTL

\* A request to undo that is refused has touched no file, and the first one it
\* touches is touched only when all rows have been found in order.
THEOREM CheckCorrect == Spec => []UndoChecksFirst
<1>1. UndoInv => UndoChecksFirst
  BY RowsTyped DEF UndoInv, CheckedOK, Found, UndoChecksFirst
<1> QED
  BY <1>1, UndoAlways, PTL

=============================================================================
