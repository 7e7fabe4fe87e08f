------------------------- MODULE StreamingDictation -------------------------
(***************************************************************************)
(* The stand-alone streaming dictation: Dictation (dictate.py) over        *)
(* OnlineASRProcessor and HypothesisBuffer (whisper_online.py), and the    *)
(* file simulation that drives the same processor.                         *)
(*                                                                         *)
(* A word lasts one tick; the recogniser hears the words of the audio      *)
(* buffer, except that the one the buffer ends in may be misheard.  A      *)
(* hypothesis is a sequence of records <<text, end>>; times are absolute.  *)
(***************************************************************************)
EXTENDS Integers, Sequences, FiniteSets, SequencesExt

CONSTANTS
  Speeches,      \* what may be said in one recording
  Courtesies,    \* the words "thank you" and "thanks"
  MaxRecordings, \* bound on the recordings
  TrimAfter,     \* buffer_trimming_sec, in ticks
  HardLimit,     \* the 30 seconds of the sentence trimming, in ticks
  Near,          \* the one second within which a repetition is looked for, in ticks
  Drivers,       \* "dictate", or "file" for the simulation
  Ways           \* buffer_trimming: "segment", "sentence"

Noise == "?"                \* a word that was misheard, which nobody says
Words == STRING \ {Noise}
MaxNgram == 5

ASSUME StreamingAssumption ==
  /\ Speeches \subseteq Seq(Words)
  /\ {MaxRecordings, TrimAfter, HardLimit, Near} \subseteq Nat
  /\ Drivers \subseteq {"dictate", "file"} /\ Ways \subseteq {"segment", "sentence"}

VARIABLES
  driver, way,
  english,     \* CONFIG["english_only"]
  model,       \* what became of the model: "loading", "ready" or "failed"
  recording,   \* Dictation.recording
  processing,  \* Dictation.processing
  count,       \* how many recordings were started
  speech,      \* what is said in this one
  heard,       \* how many ticks of it the reader has queued
  reader,      \* the audio reader runs
  stop,        \* _stop_event
  loop,        \* where the transcription thread is
  final,       \* where the finalising thread is
  drained,     \* how many ticks were put into the processor
  audioFrom,   \* the tick the audio buffer begins at
  offset,      \* buffer_time_offset
  hypothesis,  \* HypothesisBuffer: [committed, buffer, last]
  commited,    \* OnlineASRProcessor.commited
  output,      \* the words process_iter or finish returned, not yet typed
  typed,       \* _typed_text
  lastChunk,   \* _last_chunk_norm
  emitted,     \* _emitted_chunks > 0
  copied,      \* what the clipboard got
  right        \* history: how many words of the last hypothesis were heard right

setting == <<driver, way, english>>
flags == <<recording, processing, count, speech>>
audio == <<heard, reader, stop, loop, final>>
online == <<drained, audioFrom, offset, hypothesis, commited, right>>
chunks == <<output, typed, lastChunk, emitted, copied>>
streamingVars == <<setting, model, flags, audio, online, chunks>>

Empty == [committed |-> <<>>, buffer |-> <<>>, last |-> 0]
Texts(words) == [i \in DOMAIN words |-> words[i].text]
Upto(s, n) == SubSeq(s, 1, n)
From(s, n) == SubSeq(s, n + 1, Len(s))
Least(S) == CHOOSE n \in S : \A m \in S : n <= m
Most(S) == CHOOSE n \in S : \A m \in S : m <= n

-----------------------------------------------------------------------------
(***************************************************************************)
(* HypothesisBuffer                                                        *)
(***************************************************************************)

\* insert: the words that begin after the last committed one; they are the last
\* ones of a hypothesis, whose times grow ...
Fresh(h, words) ==
  From(words, Most({n \in 0..Len(words) : \A i \in 1..n : words[i].end - 1 < h.last}))

\* ... without the shortest run of them that repeats the end of what was
\* committed.
Repetition(h, fresh) ==
  LET runs == {n \in 1..MaxNgram :
                 /\ n <= Len(h.committed) /\ n <= Len(fresh)
                 /\ Texts(From(h.committed, Len(h.committed) - n)) = Texts(Upto(fresh, n))}
  IN IF fresh = <<>> \/ runs = {} THEN 0
     ELSE IF Head(fresh).end - 1 - h.last < Near THEN Least(runs) ELSE 0

\* flush: the longest common prefix of the last two hypotheses is committed.
Flush(h, words) ==
  LET new == From(Fresh(h, words), Repetition(h, Fresh(h, words)))
      agreed == Most({n \in 0..Len(new) :
                        n <= Len(h.buffer) /\ Texts(Upto(new, n)) = Texts(Upto(h.buffer, n))})
  IN [commit |-> Upto(new, agreed),
      next |-> [committed |-> h.committed \o Upto(new, agreed),
                buffer |-> From(new, agreed),
                last |-> IF agreed = 0 THEN h.last ELSE new[agreed].end]]

\* pop_commited
Popped(h, time) ==
  LET gone == {n \in 0..Len(h.committed) : \A i \in 1..n : h.committed[i].end <= time}
  IN [h EXCEPT !.committed = From(@, Most(gone))]

-----------------------------------------------------------------------------
(***************************************************************************)
(* OnlineASRProcessor                                                      *)
(***************************************************************************)

Inside(n) == n <= Len(speech)

\* What the recogniser may hear of the audio buffer that ends at tick `to'.
Hearings(to) ==
  LET words == {n \in audioFrom + 1..to : Inside(n)}
      size == IF words = {} THEN 0 ELSE Most(words) - audioFrom
      heardRight == [i \in 1..size |-> [text |-> speech[audioFrom + i], end |-> offset + i]]
  IN {heardRight} \cup
     (IF size > 0 /\ audioFrom + size = to /\ Inside(to + 1)
      THEN {[heardRight EXCEPT ![size].text = Noise]} ELSE {})

\* init
RestartProcessor ==
  /\ drained' = 0 /\ audioFrom' = 0 /\ offset' = 0
  /\ hypothesis' = Empty /\ commited' = <<>>

\* chunk_at: a time before the buffer makes the slice count from its end.
ChunkAt(h, time, to) ==
  /\ hypothesis' = Popped(h, time)
  /\ offset' = time
  /\ audioFrom' = IF time >= offset THEN audioFrom + (time - offset)
                  ELSE Most({audioFrom, to - (offset - time)})

NoChunk(h) == hypothesis' = h /\ UNCHANGED <<offset, audioFrom>>

\* Mutant: the buffer may be cut at the end of any segment that was heard.
SegmentCutsAnywhere(known, words) == {words[i].end : i \in DOMAIN words}

\* chunk_completed_segment: the end of a segment, not the last, that lies
\* within what was committed.  How words form segments is up to the recogniser.
SegmentCuts(known, words) ==
  IF known = <<>> THEN {}
  ELSE {words[i].end : i \in {j \in DOMAIN words : j < Len(words) /\ words[j].end <= Last(known).end}}

\* chunk_completed_sentence: the end of the last but one sentence of all that
\* was ever committed.
SentenceCuts(known) ==
  {known[i].end : i \in {j \in DOMAIN known : j < Len(known)}}

\* The trimming of process_iter; there may be no segment or sentence to cut at.
Trim(h, known, words, to, grew) ==
  LET length == to - audioFrom
      limit == IF way = "segment" THEN TrimAfter ELSE HardLimit
  IN \/ NoChunk(h)
     \/ /\ way = "sentence" /\ grew /\ length > TrimAfter
        /\ \E time \in SentenceCuts(known) : ChunkAt(h, time, to)
     \/ /\ length > limit
        /\ \E time \in SegmentCuts(known, words) : ChunkAt(h, time, to)

\* _drain_audio_queue: what is queued is put into the processor.
Drain == drained' = heard

\* process_iter on the buffer up to tick `to'.
ProcessIter(to) ==
  \E words \in Hearings(to) :
    LET flushed == Flush(hypothesis, words)
        known == commited \o flushed.commit
    IN /\ drained' = to
       /\ commited' = known
       /\ output' = Texts(flushed.commit)
       /\ Trim(flushed.next, known, words, to, flushed.commit # <<>>)
       /\ right' = IF words = <<>> THEN right
                   ELSE audioFrom + Cardinality({i \in DOMAIN words : words[i].text # Noise})

\* finish: the part of the last hypothesis that nothing confirmed.
Unconfirmed == Texts(hypothesis.buffer)

-----------------------------------------------------------------------------
(***************************************************************************)
(* What is typed of a committed chunk                                      *)
(***************************************************************************)

\* _trim_boundary_courtesy: the courtesies a text begins or ends with go, but for
\* its only word.
WithoutStart(words) ==
  From(words, Most({0} \cup {n \in 1..Len(words) - 1 : \A i \in 1..n : words[i] \in Courtesies}))
WithoutEnd(words) ==
  Upto(words, Least({Len(words)} \cup
                    {n \in 1..Len(words) - 1 : \A i \in n + 1..Len(words) : words[i] \in Courtesies}))

Trimmed(words, atEnd) ==
  LET begun == IF emitted THEN words ELSE WithoutStart(words)
      ended == IF atEnd THEN WithoutEnd(begun) ELSE begun
  IN IF Len(ended) = 1 /\ ended[1] \in Courtesies THEN <<>> ELSE ended

\* _looks_non_english_noise
IsNoise(words) == \A i \in DOMAIN words : words[i] = Noise

\* _remove_overlap
Overlap(words) ==
  Most({n \in 0..Len(words) : n <= Len(typed) /\ From(typed, Len(typed) - n) = Upto(words, n)})

\* _clean_committed_text, and the typing of what it leaves.
TypeOut(words, atEnd) ==
  LET trimmed == Trimmed(words, atEnd)
      rest == From(trimmed, Overlap(trimmed))
  IN IF (english /\ IsNoise(trimmed)) \/ rest = <<>> \/ rest = lastChunk
     THEN UNCHANGED <<typed, lastChunk, emitted>>
     ELSE /\ typed' = typed \o rest
          /\ lastChunk' = rest
          /\ emitted' = TRUE

-----------------------------------------------------------------------------
(***************************************************************************)
(* Dictation: the hotkey, the audio reader and the transcription thread    *)
(***************************************************************************)

\* load_config: of the preferences english_only alone decides what is typed.
EnglishOnly == BOOLEAN

\* Dictation keeps the default way of trimming; the arguments of the simulation
\* name one (asr_factory).
Factory(d) == IF d = "dictate" THEN Ways \cap {"segment"} ELSE Ways

StreamingInit ==
  /\ driver \in Drivers /\ way \in Factory(driver)
  /\ english \in IF driver = "dictate" THEN EnglishOnly ELSE {FALSE}
  /\ model = "loading"
  /\ recording = FALSE /\ processing = FALSE /\ count = 0 /\ speech = <<>>
  /\ heard = 0 /\ reader = FALSE /\ stop = FALSE /\ loop = "ended" /\ final = "ended"
  /\ drained = 0 /\ audioFrom = 0 /\ offset = 0 /\ hypothesis = Empty /\ commited = <<>> /\ right = 0
  /\ output = <<>> /\ typed = <<>> /\ lastChunk = <<>> /\ emitted = FALSE /\ copied = <<>>

\* _load_model runs in the background; a start waits for it, and a model that
\* failed refuses every start.
LoadModel ==
  /\ model = "loading" /\ model' \in {"ready", "failed"}
  /\ UNCHANGED <<setting, flags, audio, online, chunks>>

\* Mutant: a recording may start while the last one is being finished.
StartWhileProcessing(words) ==
  /\ ~recording /\ model = "ready" /\ count < MaxRecordings
  /\ recording' = TRUE /\ count' = count + 1 /\ speech' = words /\ UNCHANGED processing
  /\ heard' = 0 /\ stop' = FALSE /\ UNCHANGED final
  /\ reader' = (driver = "dictate") /\ loop' = IF driver = "dictate" THEN "wait" ELSE "ended"
  /\ RestartProcessor /\ right' = 0
  /\ output' = <<>> /\ typed' = <<>> /\ lastChunk' = <<>> /\ emitted' = FALSE /\ copied' = <<>>
  /\ UNCHANGED <<setting, model>>

\* start_recording
StartRecording(words) ==
  /\ ~recording /\ ~processing /\ model = "ready" /\ count < MaxRecordings
  /\ recording' = TRUE /\ count' = count + 1 /\ speech' = words /\ UNCHANGED processing
  /\ heard' = 0 /\ stop' = FALSE /\ UNCHANGED final
  /\ reader' = (driver = "dictate") /\ loop' = IF driver = "dictate" THEN "wait" ELSE "ended"
  /\ RestartProcessor /\ right' = 0
  /\ output' = <<>> /\ typed' = <<>> /\ lastChunk' = <<>> /\ emitted' = FALSE /\ copied' = <<>>
  /\ UNCHANGED <<setting, model>>

\* _audio_reader; after the speech there is a tick of silence.
Read ==
  /\ reader /\ heard <= Len(speech)
  /\ driver = "dictate"
  /\ heard' = heard + 1
  /\ UNCHANGED <<setting, model, flags, reader, stop, loop, final, online, chunks>>

\* The reader ends with the recording, or when parec does.
ReaderEnds ==
  /\ reader
  /\ reader' = FALSE
  /\ UNCHANGED <<setting, model, flags, heard, stop, loop, final, online, chunks>>

\* _transcription_loop drains the queue, which has audio when time has passed,
\* and transcribes.
Iterate ==
  /\ driver = "dictate"
  /\ loop = "wait" /\ ~stop /\ heard > 0
  /\ heard > drained \/ heard > Len(speech)
  /\ ProcessIter(heard)
  /\ loop' = "type"
  /\ UNCHANGED <<setting, model, flags, heard, reader, stop, final, typed, lastChunk, emitted, copied>>

\* The recogniser may raise: the audio stays in the processor.
IterateFails ==
  /\ driver = "dictate"
  /\ loop = "wait" /\ ~stop /\ heard > 0
  /\ heard > drained \/ heard > Len(speech)
  /\ Drain
  /\ UNCHANGED <<setting, model, flags, audio, audioFrom, offset, hypothesis, commited, right, chunks>>

TypeCommitted ==
  /\ loop = "type"
  /\ TypeOut(output, FALSE)
  /\ loop' = "wait" /\ output' = <<>>
  /\ UNCHANGED <<setting, model, flags, heard, reader, stop, final, online, copied>>

LoopEnds ==
  /\ loop = "wait" /\ stop
  /\ loop' = "ended"
  /\ UNCHANGED <<setting, model, flags, heard, reader, stop, final, online, chunks>>

\* stop_recording ends parec and leaves the rest to a thread.
StopRecording ==
  /\ driver = "dictate"
  /\ recording /\ recording' = FALSE /\ processing' = TRUE
  /\ stop' = TRUE /\ final' = "join"
  /\ UNCHANGED <<setting, model, count, speech, heard, reader, loop, online, chunks>>

\* Mutant: what no second hypothesis confirmed is dropped.
FinishWithoutRest ==
  /\ final = "join" /\ loop = "ended" /\ ~reader
  /\ Drain
  /\ final' = "copy"
  /\ UNCHANGED <<setting, model, flags, heard, reader, stop, loop, audioFrom, offset, hypothesis, commited,
                 right, output, typed, lastChunk, emitted, copied>>

\* _finalize: after the transcription thread, what is queued is put into the
\* processor and the unconfirmed words are typed.
Finish ==
  /\ final = "join" /\ loop = "ended" /\ ~reader
  /\ Drain
  /\ TypeOut(Unconfirmed, TRUE)
  /\ final' = "copy"
  /\ UNCHANGED <<setting, model, flags, heard, reader, stop, loop, audioFrom, offset, hypothesis, commited,
                 right, output, copied>>

Copy ==
  /\ final = "copy"
  /\ copied' = typed
  /\ final' = "reset"
  /\ UNCHANGED <<setting, model, flags, heard, reader, stop, loop, online, output, typed, lastChunk, emitted>>

Reset ==
  /\ final = "reset"
  /\ RestartProcessor
  /\ processing' = FALSE
  /\ final' = "ended"
  /\ UNCHANGED <<setting, model, recording, count, speech, heard, reader, stop, loop, right, chunks>>

-----------------------------------------------------------------------------
(* The simulation inserts a piece of the file, transcribes, and goes on; when
   the file is at its end it calls finish.  What it gets it writes out.     *)
SimulateChunk ==
  /\ driver = "file" /\ recording /\ drained <= Len(speech)
  /\ \E to \in drained + 1..Len(speech) + 1 : ProcessIter(to) /\ typed' = typed \o output'
  /\ UNCHANGED <<setting, model, flags, audio, lastChunk, emitted, copied>>

SimulateEnd ==
  /\ driver = "file" /\ recording /\ drained > Len(speech)
  /\ typed' = typed \o Unconfirmed
  /\ copied' = typed'
  /\ recording' = FALSE
  /\ UNCHANGED <<setting, model, processing, count, speech, audio, online, output, lastChunk, emitted>>

ThreadStep == ReaderEnds \/ Iterate \/ IterateFails \/ TypeCommitted \/ LoopEnds \/ Finish \/ Copy \/ Reset
FileStep == SimulateChunk \/ SimulateEnd

StreamingNext ==
  \/ \E words \in Speeches : StartRecording(words)
  \/ LoadModel \/ Read \/ StopRecording
  \/ ThreadStep \/ FileStep

StreamingSpec == StreamingInit /\ [][StreamingNext]_streamingVars

-----------------------------------------------------------------------------
(* Words nobody says twice, and none the clean-up is after.                *)
Plain ==
  /\ \A i, j \in DOMAIN speech : speech[i] = speech[j] => i = j
  /\ \A i \in DOMAIN speech : speech[i] \notin Courtesies

(* However hypotheses grow, agree and are trimmed, what is typed of a plain
   speech is its beginning, word by word, and of this recording only; a
   misheard word can only be the last one of all.  The clipboard gets what was
   typed.                                                                  *)
TypedInOrder ==
  Plain /\ way = "segment" =>
    /\ \A i \in DOMAIN typed :
         \/ typed[i] = Noise /\ i = Len(typed) /\ ~recording
         \/ i <= Len(speech) /\ typed[i] = speech[i]
    /\ copied \in {<<>>, typed}

(* When a dictation ends, every word the last hypothesis heard right was
   typed: trimming and the clean-up lose none.                             *)
NothingHeardIsLost ==
  Plain /\ way = "segment" /\ ~recording /\ ~processing
    => Cardinality({i \in DOMAIN typed : typed[i] # Noise}) = right

(* One owner at a time: the processor is never restarted, drained or
   finished for one recording while the thread of another uses it.         *)
ProcessorOwned ==
  /\ final # "ended" => processing /\ ~recording
  /\ loop # "ended" => recording \/ final = "join"

=============================================================================
