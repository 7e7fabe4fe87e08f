------------------------------- MODULE LiveText -------------------------------
(***************************************************************************)
(* How the words of one recording reach the target window, the clipboard   *)
(* and the result: the capture that hands out audio slices (core/audio.py),*)
(* the live worker and its reconciler (runtime.py, providers/streaming.py),*)
(* the final insertion (FinalizingTextInserter), the routes into the       *)
(* desktop (core/desktop.py, core/insertion.py) and the X11 paste that     *)
(* borrows the user's clipboard (X11PasteBackend, ui/clipboard.py).        *)
(*                                                                         *)
(* A word is a number and stands both for its sound and for its comparable *)
(* token; Noises are words nobody says.  Audio frames, spaces and           *)
(* normalisation are left out.                                             *)
(***************************************************************************)
EXTENDS Naturals, Sequences, FiniteSetsExt, SequencesExt

CONSTANTS
  Speeches,     \* what the user may say: sequences of words
  Live,         \* live insertion is on
  OutputModes,  \* the output modes, a subset of insert, clipboard and both
  Overlap,      \* maximum_overlap_words of the reconciler
  Repeats,      \* bound on the words a chunk's hypothesis repeats
  Noises,       \* the words the recogniser may take one of a chunk for
  MaxCopies,    \* bound on how often the user copies something
  Faults        \* among "key", "clipboard", "protected", "image"

ASSUME LiveTextAssumption ==
  /\ Noises \subseteq Nat /\ Speeches \subseteq Seq(Nat \ Noises)
  /\ Live \in BOOLEAN
  /\ OutputModes \subseteq {"insert", "clipboard", "both"}
  /\ Overlap \in Nat \ {0} /\ Repeats \in Nat /\ MaxCopies \in Nat

VARIABLES
  speech,     \* what the user says in this recording
  mode,       \* output_mode
  source,     \* "open", "stopped" or "cancelled"
  heard,      \* how many words are in the PCM buffer
  offset,     \* _stream_offset: how many of them a live chunk took
  stop,       \* the _live_stop event
  worker,     \* where the live worker is
  chunk,      \* the words of the chunk it works on
  stable,     \* the reconciler's stable text
  paused,     \* LiveInsertionState._paused
  lastResult, \* LiveInsertionState._last_result is set
  final,      \* where the final insertion is
  text,       \* the transcript it delivers
  result,     \* its InsertionResult
  paste,      \* the insertion that runs: who, what, and the clipboard it read
  at,         \* where that insertion is
  target,     \* what was typed into the target window
  clipboard,  \* what the clipboard holds
  copies,     \* how often the user copied
  copied,     \* history: the words of transcripts copied for the user
  raced,      \* history: the user copied between a look at the clipboard and the write after it
  broken,     \* history: a paste failed or left the clipboard unread
  misheard    \* history: how many words of the chunks nobody said

audioVars == <<source, heard, offset>>
liveVars == <<stop, worker, chunk, stable, paused, lastResult, misheard>>
finalVars == <<final, text, result>>
pasteVars == <<paste, at, target, clipboard, copied, raced, broken>>
vars == <<speech, mode, audioVars, liveVars, finalVars, pasteVars, copies>>

UserText(n) == [kind |-> "user", words |-> <<n>>]
Image == [kind |-> "image", words |-> <<>>]
Ours(who, words) == [kind |-> who, words |-> words]
NoPaste == [who |-> "nobody", words |-> <<>>, previous |-> Image]
Nothing == [inserted |-> FALSE, copied |-> FALSE]

Init ==
  /\ speech \in Speeches /\ mode \in OutputModes
  /\ source = "open" /\ heard = 0 /\ offset = 0
  /\ stop = FALSE /\ worker = IF Live THEN "wait" ELSE "ended"
  /\ chunk = <<>> /\ stable = <<>> /\ paused = FALSE /\ lastResult = FALSE
  /\ final = "off" /\ text = <<>> /\ result = Nothing
  /\ paste = NoPaste /\ at = "free"
  /\ target = <<>>
  /\ clipboard \in {UserText(0)} \cup (IF "image" \in Faults THEN {Image} ELSE {})
  /\ copies = 0
  /\ copied = <<>> /\ raced = FALSE /\ broken = FALSE /\ misheard = 0

-----------------------------------------------------------------------------
(***************************************************************************)
(* The reconciler, as functions of what was and is heard                   *)
(***************************************************************************)

Upto(s, n) == SubSeq(s, 1, IF n < Len(s) THEN n ELSE Len(s))
LastOf(s, n) == SubSeq(s, (IF n < Len(s) THEN Len(s) - n ELSE 0) + 1, Len(s))

\* _suffix_prefix_overlap
SuffixPrefix(existing, incoming) ==
  Max({n \in 0..Len(incoming) :
         n <= Len(existing) /\ LastOf(existing, n) = Upto(incoming, n)})

\* reconcile_chunk: what of a hypothesis is new.
ReconcileChunk(known, incoming) ==
  LastOf(incoming, Len(incoming)
                 - SuffixPrefix(LastOf(known, Overlap), Upto(incoming, Overlap)))

\* _common_prefix and _matching_run
CommonPrefix(left, right) ==
  Max({n \in 0..Len(left) : n <= Len(right) /\ Upto(left, n) = Upto(right, n)})

\* Where a run of the last live words ends in the final words after `prefix'.
AlignedEnds(tail, words, prefix) ==
  {to \in (prefix + 1)..Len(words) :
     \E from \in (prefix + 1)..to, i \in 1..Len(tail) :
       LET run == CommonPrefix(LastOf(tail, Len(tail) - i + 1), LastOf(words, Len(words) - from + 1))
       IN run > 0 /\ to = from + run - 1}

\* Mutant: only the common beginning counts.
ReconcileFinalByPrefix(known, words) == LastOf(words, Len(words) - CommonPrefix(known, words))

\* reconcile_final: what of the final text follows the text typed live.
ReconcileFinal(known, words) ==
  LET prefix == CommonPrefix(known, words)
      end == Max({prefix} \cup AlignedEnds(LastOf(known, Overlap), words, prefix))
  IN IF known = <<>> THEN words
     ELSE IF prefix = Len(known) THEN LastOf(words, Len(words) - prefix)
     ELSE IF end = 0 THEN <<>>
     ELSE LastOf(words, Len(words) - end)

-----------------------------------------------------------------------------
(***************************************************************************)
(* The capture, the user and the application thread                        *)
(***************************************************************************)

\* readyRead: whole frames are appended while the source is open.
Speak ==
  /\ source = "open" /\ heard < Len(speech)
  /\ heard' = heard + 1
  /\ UNCHANGED <<speech, mode, source, offset, liveVars, finalVars, pasteVars, copies>>

\* The user copies something else while an insertion may be under way.
UserCopies ==
  /\ copies < MaxCopies
  /\ copies' = copies + 1
  /\ clipboard' = UserText(copies + 1)
  /\ raced' = (raced \/ at \in {"copy", "restore"})
  /\ UNCHANGED <<speech, mode, audioVars, liveVars, finalVars, paste, at, target, copied, broken>>

\* stop joins the live worker before it drains the source; a cancel only tells
\* it and drops the audio.
RequestStop ==
  /\ source = "open" /\ ~stop /\ stop' = TRUE
  /\ UNCHANGED <<speech, mode, audioVars, worker, chunk, stable, paused, lastResult, misheard,
                 finalVars, pasteVars, copies>>

\* Mutant: the capture is stopped without waiting for the live worker.
StopCaptureAtOnce ==
  /\ source = "open" /\ stop
  /\ source' = "stopped"
  /\ final' = IF heard = 0 THEN "done" ELSE "transcribe"
  /\ UNCHANGED <<speech, mode, heard, offset, liveVars, text, result, pasteVars, copies>>

\* Nothing was heard: the stop fails and there is no final text.
StopCapture ==
  /\ source = "open" /\ stop /\ worker = "ended"
  /\ source' = "stopped"
  /\ final' = IF heard = 0 THEN "done" ELSE "transcribe"
  /\ UNCHANGED <<speech, mode, heard, offset, liveVars, text, result, pasteVars, copies>>

Cancel ==
  /\ source = "open" /\ source' = "cancelled"
  /\ stop' = TRUE
  /\ heard' = 0 /\ offset' = 0
  /\ final' = "done"
  /\ UNCHANGED <<speech, mode, worker, chunk, stable, paused, lastResult, misheard, text, result,
                 pasteVars, copies>>

-----------------------------------------------------------------------------
(***************************************************************************)
(* The live worker                                                         *)
(***************************************************************************)

LiveIdle == UNCHANGED <<stop, stable, paused, lastResult>>

\* take_chunk hands out what no chunk took before; a stopped source raises.  The
\* hypothesis may repeat words of the chunk before, and mistake one of this one.
TakeChunk ==
  /\ worker = "wait"
  /\ IF stop \/ source # "open"
     THEN worker' = "ended" /\ UNCHANGED <<chunk, offset, misheard>>
     ELSE /\ offset < heard
          /\ \E back \in 0..Repeats :
               /\ back <= offset
               /\ LET said == SubSeq(speech, offset - back + 1, heard) IN
                  \/ chunk' = said /\ UNCHANGED misheard
                  \/ \E i \in (back + 1)..Len(said), noise \in Noises :
                       chunk' = [said EXCEPT ![i] = noise] /\ misheard' = misheard + 1
          /\ offset' = heard
          /\ worker' = "insert"
  /\ LiveIdle
  /\ UNCHANGED <<speech, mode, source, heard, finalVars, pasteVars, copies>>

\* insert_chunk: the reconciler takes the new words before they are typed.
InsertChunk ==
  /\ worker = "insert" /\ at = "free"
  /\ LET new == ReconcileChunk(stable, chunk)
     IN /\ stable' = stable \o new
        /\ IF new = <<>>
           THEN worker' = "wait" /\ UNCHANGED <<paste, at>>
           ELSE /\ worker' = "typing"
                /\ paste' = [NoPaste EXCEPT !.who = "fragment", !.words = new]
                /\ at' = "route"
  /\ UNCHANGED <<speech, mode, audioVars, stop, chunk, paused, lastResult, misheard, finalVars,
                 target, clipboard, copied, raced, broken, copies>>

ChunkTyped ==
  /\ worker = "typing" /\ at = "typed"
  /\ lastResult' = TRUE
  /\ worker' = "wait" /\ at' = "free" /\ paste' = NoPaste
  /\ UNCHANGED <<speech, mode, audioVars, stop, chunk, stable, paused, misheard, finalVars,
                 target, clipboard, copied, raced, broken, copies>>

\* Mutant: a failed chunk does not pause live insertion.
ChunkLost ==
  /\ worker = "typing" /\ at = "failed"
  /\ worker' = "ended" /\ at' = "free" /\ paste' = NoPaste
  /\ UNCHANGED <<speech, mode, audioVars, stop, chunk, stable, paused, lastResult, misheard, finalVars,
                 target, clipboard, copied, raced, broken, copies>>

\* A failed chunk pauses live insertion for the rest of the recording.
ChunkFailed ==
  /\ worker = "typing" /\ at = "failed"
  /\ paused' = TRUE
  /\ worker' = "ended" /\ at' = "free" /\ paste' = NoPaste
  /\ UNCHANGED <<speech, mode, audioVars, stop, chunk, stable, lastResult, misheard, finalVars,
                 target, clipboard, copied, raced, broken, copies>>

-----------------------------------------------------------------------------
(***************************************************************************)
(* The final insertion                                                     *)
(***************************************************************************)

Transcribe ==
  /\ final = "transcribe"
  /\ final' = "deliver"
  /\ text' = Upto(speech, heard)
  /\ UNCHANGED <<speech, mode, audioVars, liveVars, result, pasteVars, copies>>

\* Mutant: a paused route is treated as if its text had been typed.
RemainingIgnoringPause == ReconcileFinal(stable, text)

\* remaining_final_text: a paused live route makes the whole text due.
Remaining == IF paused THEN text ELSE ReconcileFinal(stable, text)

\* FinalizingTextInserter.insert: the clipboard mode only copies; else the rest
\* is typed, or, when nothing is left, the last live result stands.
Deliver ==
  /\ final = "deliver" /\ at = "free"
  /\ IF mode = "clipboard"
     THEN /\ final' = "done"
          /\ \/ /\ clipboard' = Ours("transcript", text) /\ copied' = text
                /\ result' = [inserted |-> lastResult, copied |-> TRUE]
             \/ /\ "clipboard" \in Faults
                /\ result' = [inserted |-> lastResult, copied |-> FALSE]
                /\ UNCHANGED <<clipboard, copied>>
          /\ UNCHANGED <<paste, at>>
     ELSE /\ IF Remaining = <<>>
             THEN /\ final' = "both"
                  /\ result' = [inserted |-> lastResult, copied |-> ~lastResult]
                  /\ UNCHANGED <<paste, at>>
             ELSE /\ final' = "typing"
                  /\ paste' = [NoPaste EXCEPT !.who = "transcript", !.words = Remaining]
                  /\ at' = "route"
                  /\ result' = result
          /\ UNCHANGED <<clipboard, copied>>
  /\ UNCHANGED <<speech, mode, audioVars, liveVars, text, target, raced, broken, copies>>

FinalTyped ==
  /\ final = "typing" /\ at = "typed"
  /\ result' = [inserted |-> TRUE, copied |-> FALSE]
  /\ final' = "both" /\ at' = "free" /\ paste' = NoPaste
  /\ UNCHANGED <<speech, mode, audioVars, liveVars, text, target, clipboard, copied, raced, broken,
                 copies>>

\* A direct insertion that failed, or none being available, falls back to the
\* clipboard; a protected field raises, which fails the dictation.
FinalFailed ==
  /\ final = "typing" /\ at \in {"failed", "protected"}
  /\ IF at = "protected"
     THEN final' = "done" /\ UNCHANGED <<clipboard, copied, result>>
     ELSE /\ final' = "both"
          /\ \/ /\ clipboard' = Ours("transcript", paste.words) /\ copied' = paste.words
                /\ result' = [result EXCEPT !.copied = TRUE]
             \/ /\ "clipboard" \in Faults
                /\ UNCHANGED <<clipboard, copied, result>>
  /\ at' = "free" /\ paste' = NoPaste
  /\ UNCHANGED <<speech, mode, audioVars, liveVars, text, target, raced, broken, copies>>

\* The mode `both' copies the whole text afterwards.
CopyBoth ==
  /\ final = "both" /\ final' = "done"
  /\ IF mode # "both" THEN UNCHANGED <<clipboard, copied, result>>
     ELSE \/ /\ clipboard' = Ours("transcript", text) /\ copied' = text
             /\ result' = [result EXCEPT !.copied = TRUE]
          \/ /\ "clipboard" \in Faults
             /\ result' = [result EXCEPT !.copied = FALSE]
             /\ UNCHANGED <<clipboard, copied>>
  /\ UNCHANGED <<speech, mode, audioVars, liveVars, text, paste, at, target, raced, broken, copies>>

-----------------------------------------------------------------------------
(***************************************************************************)
(* The routes into the desktop                                             *)
(***************************************************************************)

PasteKeeps == <<speech, mode, audioVars, liveVars, finalVars, copies>>

\* CapabilityDesktopIntegration: an editable field takes the text directly, a
\* protected one refuses it, and anything else is pasted if a backend is there.
Route ==
  /\ at = "route"
  /\ \/ at' = "typed" /\ target' = target \o paste.words
     \/ at' = "read" /\ target' = target
     \/ at' = "failed" /\ "key" \in Faults /\ target' = target
     \/ /\ "protected" \in Faults
        /\ at' = IF paste.who = "fragment" THEN "failed" ELSE "protected"
        /\ target' = target
  /\ UNCHANGED <<PasteKeeps, paste, clipboard, copied, raced, broken>>

\* X11PasteBackend.insert, one access to the clipboard at a time.  What is not
\* text cannot be read, so it is not restored either.
PasteRead ==
  /\ at = "read" /\ at' = "copy"
  /\ paste' = [paste EXCEPT !.previous = clipboard]
  /\ UNCHANGED <<PasteKeeps, target, clipboard, copied, raced, broken>>

PasteCopy ==
  /\ at = "copy"
  /\ \/ at' = "key" /\ clipboard' = Ours(paste.who, paste.words)
     \/ "clipboard" \in Faults /\ at' = "failed" /\ clipboard' = clipboard
  /\ UNCHANGED <<PasteKeeps, paste, target, copied, raced, broken>>

PasteKey ==
  /\ at = "key"
  /\ \/ /\ at' = IF paste.previous = Image THEN "typed" ELSE "look"
        /\ target' = target \o paste.words
        /\ broken' = (broken \/ paste.previous = Image)
     \/ /\ "key" \in Faults
        /\ at' = "failed" /\ target' = target /\ broken' = TRUE
  /\ UNCHANGED <<PasteKeeps, paste, clipboard, copied, raced>>

\* Mutant: the previous content is restored whatever the clipboard holds now.
PasteLookAway ==
  /\ at = "look" /\ at' = "restore"
  /\ UNCHANGED <<PasteKeeps, paste, target, clipboard, copied, raced, broken>>

PasteLook ==
  /\ at = "look"
  /\ at' = IF clipboard = Ours(paste.who, paste.words) THEN "restore" ELSE "typed"
  /\ UNCHANGED <<PasteKeeps, paste, target, clipboard, copied, raced, broken>>

PasteRestore ==
  /\ at = "restore" /\ at' = "typed"
  /\ clipboard' = paste.previous
  /\ UNCHANGED <<PasteKeeps, paste, target, copied, raced, broken>>

-----------------------------------------------------------------------------

PasteStep == Route \/ PasteRead \/ PasteCopy \/ PasteKey \/ PasteLook \/ PasteRestore
LiveStep == TakeChunk \/ InsertChunk \/ ChunkTyped \/ ChunkFailed
FinalStep == Transcribe \/ Deliver \/ FinalTyped \/ FinalFailed \/ CopyBoth

Next ==
  \/ Speak \/ UserCopies \/ RequestStop \/ StopCapture \/ Cancel
  \/ LiveStep \/ FinalStep \/ PasteStep

Spec == Init /\ [][Next]_vars

-----------------------------------------------------------------------------
(***************************************************************************)
(* Properties                                                              *)
(***************************************************************************)

\* Every variable holds what its declaration says.
TypeOK ==
  /\ speech \in Speeches /\ mode \in OutputModes
  /\ source \in {"open", "stopped", "cancelled"}
  /\ heard \in 0..Len(speech) /\ offset \in 0..heard
  /\ worker \in {"wait", "insert", "typing", "ended"}
  /\ stop \in BOOLEAN /\ paused \in BOOLEAN /\ lastResult \in BOOLEAN
  /\ raced \in BOOLEAN /\ broken \in BOOLEAN
  /\ final \in {"off", "transcribe", "deliver", "typing", "both", "done"}
  /\ at \in {"free", "route", "read", "copy", "key", "look", "restore", "typed", "failed", "protected"}
  /\ copies \in 0..MaxCopies /\ misheard \in Nat

Delivered == final = "done" /\ source = "stopped" /\ heard > 0
Distinct == \A i, j \in DOMAIN speech : speech[i] = speech[j] => i = j

\* What was typed live and what the final insertion adds are the transcript,
\* exactly: whatever the recogniser repeats at the seams of chunks, up to the
\* overlap that is compared, no word is lost or typed twice.  When the rest could
\* only be copied it follows what was typed.  (Speech that repeats its own words may fool the reconciler; a
\* misheard word is left as it was typed; and in the mode `clipboard' the chunks
\* alone already count as inserted.)
Reported == result.copied \/ (result.inserted /\ mode # "clipboard")
WordsExact ==
  Delivered /\ Distinct /\ misheard = 0 /\ ~paused /\ Reported
    => text \in {target, copied, target \o copied}

\* A paused live route loses nothing: the whole text follows what was typed.
PausedTypesAll ==
  Delivered /\ paused /\ Reported
    => IsSuffix(text, target) \/ copied = text

\* Words that were misheard never make the final pass type again what was typed
\* live, as long as fewer of them than the reconciler looks back at: it goes on
\* after the last word that both texts have (reconcile_final).
NothingTwice ==
  Delivered /\ Distinct /\ ~paused /\ misheard < Overlap =>
    \A i \in 1..Len(stable), j \in (Len(stable) + 1)..Len(target) : target[i] # target[j]

\* The result does not claim a copy or an insertion that did not happen: it is
\* what the history row and the notification are written from.
ClaimsHold ==
  Delivered => /\ result.copied => copied # <<>>
               /\ result.inserted => target # <<>>

\* The clipboard is the user's again after every paste, with what the user
\* copied last: unless a paste failed, held no text before, or the user copied
\* in the instant between a look and the write after it.
ClipboardGivenBack ==
  at = "free" /\ copied = <<>> /\ ~broken /\ ~raced /\ clipboard # Image
    => clipboard = UserText(copies)

===============================================================================
