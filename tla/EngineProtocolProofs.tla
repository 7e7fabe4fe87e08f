------------------------ MODULE EngineProtocolProofs ------------------------
(***************************************************************************)
(* Proofs about EngineProtocol for every set of calls and any number of    *)
(* requests and recordings.                                                *)
(***************************************************************************)
EXTENDS EngineProtocol, SequenceTheorems, TLAPS

\* What is on its way: requests, entries of the application's queue, events
\* that were raised and frames that were numbered.
Requests == [id : Ids, method : STRING, keys : SUBSET STRING, valid : BOOLEAN,
             envelope : BOOLEAN, size : Nat \ {0}, decodes : BOOLEAN]
Working == {"cleaning", "inserting"}
Final == {"completed", "failed", "cancelled"}
Values == {"idle", "recording", "processing", "text"} \cup Working \cup Final
Entries == [kind : {"request"}, frame : Requests] \cup [kind : {"eof", "quit"}]
             \cup [kind : {"overlay"}, value : Values]
Kinds == {"state", "partial", "transcript", "warning"}
Events == [kind : Kinds, value : Values, of : Nat]
Frames == [seq : Nat \ {0}, kind : Kinds, value : Values, of : Nat, session : Nat]

-----------------------------------------------------------------------------
(***************************************************************************)
(* Sequences                                                               *)
(***************************************************************************)

\* Appending keeps what is there; taking the head moves it forward by one.
LEMMA Grows ==
  ASSUME NEW S, NEW s \in Seq(S), NEW e \in S
  PROVE  /\ Append(s, e) \in Seq(S)
         /\ DOMAIN Append(s, e) = DOMAIN s \cup {Len(s) + 1} /\ DOMAIN s = 1..Len(s)
         /\ Append(s, e)[Len(s) + 1] = e
         /\ \A i \in DOMAIN s : Append(s, e)[i] = s[i] /\ i < Len(s) + 1
         /\ Len(s) \in Nat
  OBVIOUS

LEMMA Shifts ==
  ASSUME NEW S, NEW s \in Seq(S), s # <<>>
  PROVE  /\ Tail(s) \in Seq(S) /\ Head(s) \in S
         /\ 1 \in DOMAIN s /\ Head(s) = s[1]
         /\ \A i \in DOMAIN Tail(s) : i \in Nat /\ i + 1 \in DOMAIN s /\ Tail(s)[i] = s[i + 1]
         /\ \A i \in DOMAIN s : i \in Nat /\ (i # 1 => i - 1 \in DOMAIN Tail(s))
  OBVIOUS

LEMMA Sole ==
  ASSUME NEW S, NEW e \in S
  PROVE  <<e>> \in Seq(S) /\ <<e>> # <<>> /\ Head(<<e>>) = e /\ Tail(<<e>>) = <<>>
         /\ DOMAIN <<e>> = {1} /\ <<e>>[1] = e
  OBVIOUS

-----------------------------------------------------------------------------
(***************************************************************************)
(* Type correctness                                                        *)
(***************************************************************************)
PipeTypes ==
  /\ sent \in 0..MaxRequests /\ open \in BOOLEAN
  /\ buffered \in 0..MaxFrame /\ reading \in BOOLEAN
  /\ stdin \in Seq(Requests) /\ queue \in Seq(Entries)

DispatchTypes ==
  /\ serving \in Requests \cup {NoRequest} /\ seen \subseteq Ids /\ handshake \in BOOLEAN
  /\ runs \in [Ids -> Nat] /\ answers \in [Ids -> Nat]
  /\ running \in BOOLEAN /\ asked \in BOOLEAN

RecordingTypes ==
  /\ recordings \in 0..MaxRecordings /\ recording \in 0..recordings /\ thread \in 0..recordings

EventTypes ==
  /\ raised \in [Threads -> Seq(Events)]
  /\ pending \in [Threads -> Frames \cup {NoFrame}]
  /\ sequence \in Nat /\ sessions \in Nat /\ state \in Values

TypeInv == PipeTypes /\ DispatchTypes /\ RecordingTypes /\ EventTypes

LEMMA NumbersAreNat == Ids \subseteq Nat /\ None \notin Ids /\ MaxRecordings \in Nat /\ MaxRequests \in Nat
  BY EngineAssumption DEF Ids, None

LEMMA FramesAreFrames == NoFrame \notin Frames /\ NoRequest \notin Requests
  BY NumbersAreNat DEF NoFrame, NoRequest, Frames, Requests, None

LEMMA EventsTyped ==
  ASSUME NEW n \in Nat, NEW v \in Values
  PROVE  /\ StateEvent(v, n) \in Events /\ Partial(n) \in Events
         /\ Transcript(n) \in Events /\ Warning \in Events
<1>1. n \in Nat /\ None \in Nat
  BY DEF None
<1>2. StateEvent(v, n) \in Events
  BY DEF StateEvent, Events, Kinds
<1>3. Partial(n) \in Events
  BY DEF Partial, Events, Kinds, Values
<1>4. Transcript(n) \in Events
  BY DEF Transcript, Events, Kinds, Values
<1>5. Warning \in Events
  BY <1>1 DEF Warning, Events, Kinds, Values
<1>6. QED
  BY <1>2, <1>3, <1>4, <1>5

LEMMA Listed ==
  ASSUME NEW S, NEW a \in S, NEW b \in S, NEW c \in S, NEW d \in S
  PROVE  <<>> \in Seq(S) /\ <<a>> \in Seq(S) /\ <<a, b>> \in Seq(S) /\ <<a, b, c, d>> \in Seq(S)
  OBVIOUS

LEMMA ResultsTyped ==
  ASSUME NEW n \in Nat
  PROVE  Results(n) \subseteq Seq(Events)
<1>1. Transcript(n) \in Events /\ Warning \in Events
  <2>1. "text" \in Values
    BY DEF Values
  <2>2. QED
    BY <2>1, EventsTyped
<1>2. \A v \in Values : StateEvent(v, n) \in Events
  BY EventsTyped
<1>3. <<StateEvent("cleaning", n), StateEvent("inserting", n), StateEvent("completed", n),
        Transcript(n)>> \in Seq(Events)
  <2>1. /\ StateEvent("cleaning", n) \in Events /\ StateEvent("inserting", n) \in Events
        /\ StateEvent("completed", n) \in Events
    BY <1>2 DEF Values, Working, Final
  <2>2. QED
    BY <1>1, <2>1, Listed
<1>4. <<StateEvent("failed", n), Warning>> \in Seq(Events)
  BY <1>1, <1>2, Listed DEF Values, Final
<1>5. <<StateEvent("cancelled", n)>> \in Seq(Events)
  BY <1>2, Listed DEF Values, Final
<1>6. QED
  BY <1>3, <1>4, <1>5 DEF Results

LEMMA SaidTyped ==
  ASSUME NEW n \in Nat, NEW v \in Values
  PROVE  /\ <<StateEvent(v, n)>> \in Seq(Events) /\ <<Warning>> \in Seq(Events)
         /\ <<Partial(n)>> \in Seq(Events)
  BY EventsTyped, Listed

\* The head of the queue, by its kind.
LEMMA TakenHead ==
  ASSUME PipeTypes, NEW k, Takes(k)
  PROVE  /\ queue # <<>> /\ Head(queue) \in Entries /\ Head(queue).kind = k
         /\ k = "request" => Head(queue).frame \in Requests
         /\ k = "overlay" => Head(queue).value \in Values
         /\ Tail(queue) \in Seq(Entries)
         /\ MainIsFree
<1>1. queue # <<>> /\ Head(queue).kind = k /\ MainIsFree
  BY DEF Takes
<1>2. Head(queue) \in Entries /\ Tail(queue) \in Seq(Entries)
  BY <1>1, Shifts DEF PipeTypes
<1>3. QED
  BY <1>1, <1>2 DEF Entries

\* Why a request that is not refused may run.
LEMMA Accepted ==
  ASSUME NEW r, Refusals(r) = {}
  PROVE  r.envelope /\ r.id \notin seen /\ r.method \in Methods /\ ~ControllerRefuses(r)
<1>1. r.envelope /\ r.id \notin seen
  <2>1. "INVALID_ARGUMENT" \notin Refusals(r)
    OBVIOUS
  <2>2. QED
    BY <2>1 DEF Refusals
<1>2. ~(~handshake /\ r.method # "app.bootstrap")
  <2>1. "PROTOCOL_MISMATCH" \notin Refusals(r)
    OBVIOUS
  <2>2. QED
    BY <1>1, <2>1 DEF Refusals
<1>3. r.method \in Methods
  <2>1. "NOT_FOUND" \notin Refusals(r)
    OBVIOUS
  <2>2. QED
    BY <1>1, <1>2, <2>1 DEF Refusals
<1>4. TakesParameters(r)
  <2>1. "INVALID_ARGUMENT" \notin Refusals(r)
    OBVIOUS
  <2>2. QED
    BY <1>1, <1>2, <1>3, <2>1 DEF Refusals
<1>5. ~ControllerRefuses(r)
  <2>1. "BUSY" \notin Refusals(r)
    OBVIOUS
  <2>2. QED
    BY <1>1, <1>2, <1>3, <1>4, <2>1 DEF Refusals
<1>6. QED
  BY <1>1, <1>3, <1>5

LEMMA RefusedByController ==
  ASSUME NEW r, "BUSY" \in Refusals(r)
  PROVE  r.envelope /\ r.id \notin seen
  BY DEF Refusals

LEMMA InitTypes == Init => TypeInv
<1> SUFFICES ASSUME Init PROVE TypeInv
  OBVIOUS
<1>1. PipeTypes
  BY EngineAssumption DEF Init, PipeTypes
<1>2. DispatchTypes
  BY DEF Init, DispatchTypes
<1>3. RecordingTypes
  BY EngineAssumption DEF Init, RecordingTypes, None
<1>4. EventTypes
  BY DEF Init, EventTypes, Values
<1>5. QED
  BY <1>1, <1>2, <1>3, <1>4 DEF TypeInv

\* What a handler does to the recordings and what it raises.
LEMMA HandlersTyped ==
  ASSUME TypeInv, NEW r \in Requests,
         CASE r.method = "dictation.start" -> HandleStart
           [] r.method = "dictation.stop" -> HandleStop
           [] r.method = "dictation.cancel" -> HandleCancel
           [] OTHER -> HandleOther(r.method)
  PROVE  RecordingTypes' /\ raised' \in [Threads -> Seq(Events)] /\ asked' \in BOOLEAN
<1> USE NumbersAreNat DEF TypeInv
<1>1. recordings \in Nat /\ recording \in Nat /\ "main" \in Threads
  BY DEF RecordingTypes, Threads
<1>2. CASE HandleStart
  <2>1. CASE raised' = [raised EXCEPT !["main"] = <<Warning>>] /\ UNCHANGED <<recordings, recording>>
    <3>1. <<Warning>> \in Seq(Events)
      <4>1. "text" \in Values
        BY DEF Values
      <4>2. QED
        BY <1>1, <4>1, SaidTyped
    <3>2. QED
      BY <1>1, <1>2, <2>1, <3>1 DEF HandleStart, RecordingTypes, DispatchTypes, EventTypes
  <2>2. CASE /\ thread = None /\ recordings < MaxRecordings
             /\ recordings' = recordings + 1 /\ recording' = recordings + 1
             /\ raised' = [raised EXCEPT !["main"] = <<StateEvent("recording", recordings + 1)>>]
    <3>1. <<StateEvent("recording", recordings + 1)>> \in Seq(Events)
      <4>1. "recording" \in Values /\ recordings + 1 \in Nat
        BY <1>1 DEF Values
      <4>2. QED
        BY <4>1, SaidTyped
    <3>2. RecordingTypes'
      BY <1>1, <1>2, <2>2 DEF HandleStart, RecordingTypes, None
    <3>3. QED
      BY <1>1, <1>2, <2>2, <3>1, <3>2 DEF HandleStart, DispatchTypes, EventTypes
  <2>3. QED
    BY <1>2, <2>1, <2>2 DEF HandleStart
<1>3. CASE HandleStop
  <2>1. <<StateEvent("processing", recording)>> \in Seq(Events)
    BY <1>1, SaidTyped DEF Values
  <2>2. RecordingTypes'
    BY <1>1, <1>3 DEF HandleStop, RecordingTypes, None
  <2>3. QED
    BY <1>1, <1>3, <2>1, <2>2 DEF HandleStop, DispatchTypes, EventTypes
<1>4. CASE HandleCancel
  <2>1. <<StateEvent("cancelled", recording)>> \in Seq(Events)
    BY <1>1, SaidTyped DEF Values, Final
  <2>2. RecordingTypes'
    BY <1>1, <1>4 DEF HandleCancel, RecordingTypes, None
  <2>3. QED
    BY <1>1, <1>4, <2>1, <2>2 DEF HandleCancel, DispatchTypes, EventTypes
<1>5. CASE HandleOther(r.method)
  <2>1. asked' \in BOOLEAN
    BY <1>5 DEF HandleOther, DispatchTypes
  <2>2. QED
    BY <1>5, <2>1 DEF HandleOther, controllerVars, RecordingTypes, EventTypes
<1>6. QED
  BY <1>2, <1>3, <1>4, <1>5

\* What Respond raises for the threads it starts.
LEMMA StartedTyped ==
  ASSUME TypeInv, ThreadsStart
  PROVE  raised' \in [Threads -> Seq(Events)]
<1> USE DEF TypeInv
<1>1. recording \in Nat /\ thread \in Nat /\ {"processing", "live"} \subseteq Threads
  BY DEF RecordingTypes, Threads
<1>2. ASSUME NEW result \in Results(thread), raised' = [raised EXCEPT !["processing"] = result]
      PROVE  raised' \in [Threads -> Seq(Events)]
  BY <1>1, <1>2, ResultsTyped DEF EventTypes
<1>3. CASE raised' = [raised EXCEPT !["live"] = <<Partial(recording)>>]
  <2>1. <<Partial(recording)>> \in Seq(Events)
    BY <1>1, SaidTyped DEF Values
  <2>2. QED
    BY <1>1, <1>3, <2>1 DEF EventTypes
<1>4. CASE UNCHANGED raised
  BY <1>4 DEF EventTypes
<1>5. QED
  BY <1>2, <1>3, <1>4 DEF ThreadsStart

LEMMA NextTypes == TypeInv /\ [Next]_engine => TypeInv'
<1> SUFFICES ASSUME TypeInv, [Next]_engine PROVE TypeInv'
  OBVIOUS
<1> USE DEF TypeInv
<1>1. ASSUME NEW id \in Ids, NEW call \in Calls, HostSends(id, call) PROVE TypeInv'
  <2>1. [call EXCEPT !.id = id] \in Requests
    BY EngineAssumption DEF CallSet, Requests
  <2>2. stdin' \in Seq(Requests) /\ sent' \in 0..MaxRequests
    BY <1>1, <2>1, Grows, NumbersAreNat DEF HostSends, PipeTypes
  <2>3. QED
    BY <1>1, <2>2 DEF HostSends, PipeTypes, DispatchTypes, RecordingTypes, EventTypes,
       readerVars, dispatchVars, controllerVars, normalizerVars
<1>2. CASE HostCloses
  BY <1>2 DEF HostCloses, PipeTypes, DispatchTypes, RecordingTypes, EventTypes,
     readerVars, dispatchVars, controllerVars, normalizerVars
<1>3. CASE ReadPart
  <2>1. buffered' \in 0..MaxFrame
    BY <1>3, EngineAssumption DEF ReadPart, PipeTypes
  <2>2. QED
    BY <1>3, <2>1 DEF ReadPart, ReaderKeeps, PipeTypes, DispatchTypes, RecordingTypes, EventTypes,
       hostVars, dispatchVars, controllerVars, normalizerVars
<1>4. CASE ReadFrame
  <2>1. Head(stdin) \in Requests /\ Tail(stdin) \in Seq(Requests)
    BY <1>4, Shifts DEF ReadFrame, PipeTypes
  <2>2. [kind |-> "request", frame |-> Head(stdin)] \in Entries
    BY <2>1 DEF Entries
  <2>3. queue' \in Seq(Entries) /\ stdin' \in Seq(Requests) /\ buffered' \in 0..MaxFrame
    BY <1>4, <2>1, <2>2, Grows, EngineAssumption DEF ReadFrame, PipeTypes
  <2>4. QED
    BY <1>4, <2>3 DEF ReadFrame, PipeTypes, DispatchTypes, RecordingTypes, EventTypes,
       dispatchVars, controllerVars, normalizerVars
<1>5. CASE ReadEof
  <2>1. [kind |-> "eof"] \in Entries
    BY DEF Entries
  <2>2. queue' \in Seq(Entries) /\ reading' \in BOOLEAN /\ buffered' \in 0..MaxFrame
    <3>1. queue' \in Seq(Entries)
      BY <1>5, <2>1, Grows DEF ReadEof, PipeTypes
    <3>2. reading' \in BOOLEAN
      BY <1>5 DEF ReadEof
    <3>3. QED
      BY <1>5, <3>1, <3>2, EngineAssumption DEF ReadEof
  <2>3. QED
    BY <1>5, <2>2 DEF ReadEof, ReaderKeeps, PipeTypes, DispatchTypes, RecordingTypes, EventTypes,
       hostVars, dispatchVars, controllerVars, normalizerVars
<1>6. CASE Refuse
  <2>1. Head(queue).frame \in Requests /\ Tail(queue) \in Seq(Entries)
    BY <1>6, TakenHead DEF Refuse
  <2>2. Head(queue).frame.id \in Ids
    BY <2>1 DEF Requests
  <2>3. seen' \subseteq Ids /\ answers' \in [Ids -> Nat] /\ runs' \in [Ids -> Nat]
    BY <1>6, <2>2 DEF Refuse, DispatchTypes
  <2>4. QED
    BY <1>6, <2>1, <2>3 DEF Refuse, PipeTypes, DispatchTypes, RecordingTypes, EventTypes,
       hostVars, readerVars, controllerVars, normalizerVars
<1>7. CASE Serve
  <2>1. Head(queue).frame \in Requests /\ Tail(queue) \in Seq(Entries)
    BY <1>7, TakenHead DEF Serve
  <2>2. Head(queue).frame.id \in Ids
    BY <2>1 DEF Requests
  <2>3. seen' \subseteq Ids /\ runs' \in [Ids -> Nat] /\ serving' \in Requests /\ handshake' \in BOOLEAN
    BY <1>7, <2>1, <2>2 DEF Serve, Remember, DispatchTypes
  <2>4. queue' \in Seq(Entries)
    <3>1. [kind |-> "quit"] \in Entries
      BY DEF Entries
    <3>2. QED
      BY <1>7, <2>1, <3>1, Grows DEF Serve
  <2>5. RecordingTypes' /\ raised' \in [Threads -> Seq(Events)] /\ asked' \in BOOLEAN
    BY <1>7, <2>1, HandlersTyped DEF Serve
  <2>6. QED
    BY <1>7, <2>3, <2>4, <2>5 DEF Serve, PipeTypes, DispatchTypes, EventTypes,
       hostVars, readerVars, normalizerVars
<1>8. CASE Respond
  <2>1. raised' \in [Threads -> Seq(Events)]
    BY <1>8, StartedTyped DEF Respond
  <2>2. answers' \in [Ids -> Nat] /\ serving' = NoRequest
    <3>1. serving.id \in Ids
      BY <1>8 DEF Respond, DispatchTypes, Requests
    <3>2. QED
      BY <1>8, <3>1 DEF Respond, DispatchTypes
  <2>3. QED
    BY <1>8, <2>1, <2>2 DEF Respond, PipeTypes, DispatchTypes, RecordingTypes, EventTypes,
       hostVars, readerVars, controllerVars, normalizerVars
<1>9. CASE TakeEof
  <2>1. [kind |-> "quit"] \in Entries
    BY DEF Entries
  <2>2. queue' \in Seq(Entries)
    BY <1>9, <2>1, TakenHead, Grows DEF TakeEof
  <2>3. QED
    BY <1>9, <2>2 DEF TakeEof, PipeTypes, DispatchTypes, RecordingTypes, EventTypes,
       hostVars, readerVars, dispatchVars, controllerVars, normalizerVars
<1>10. CASE Quit
  <2>1. queue' \in Seq(Entries)
    BY <1>10, TakenHead DEF Quit
  <2>2. QED
    BY <1>10, <2>1 DEF Quit, PipeTypes, DispatchTypes, RecordingTypes, EventTypes,
       hostVars, readerVars, dispatchVars, controllerVars, normalizerVars
<1>11. CASE RouteOverlay
  <2>1. queue' \in Seq(Entries)
    BY <1>11, TakenHead DEF RouteOverlay
  <2>2. QED
    BY <1>11, <2>1 DEF RouteOverlay, PipeTypes, DispatchTypes, RecordingTypes, EventTypes,
       hostVars, readerVars, dispatchVars, controllerVars, normalizerVars
<1>12. CASE ThreadEnds
  <2>1. thread' \in 0..recordings
    BY <1>12, NumbersAreNat DEF ThreadEnds, RecordingTypes, None
  <2>2. QED
    BY <1>12, <2>1 DEF ThreadEnds, PipeTypes, DispatchTypes, RecordingTypes, EventTypes,
       hostVars, readerVars, dispatchVars, normalizerVars
<1>13. ASSUME NEW t \in Threads, Normalize(t) PROVE TypeInv'
  <2>1. Head(raised[t]) \in Events /\ Tail(raised[t]) \in Seq(Events)
    BY <1>13, Shifts DEF Normalize, EventTypes
  <2>2. Drawn(Head(raised[t])) \in Nat
    BY DEF Drawn, EventTypes
  <2>3. raised' \in [Threads -> Seq(Events)] /\ sequence' \in Nat /\ sessions' \in Nat
    BY <1>13, <2>1, <2>2 DEF Normalize, EventTypes
  <2>4. state' \in Values
    BY <1>13, <2>1 DEF Normalize, EventTypes, Events
  <2>5. pending' \in [Threads -> Frames \cup {NoFrame}]
    <3>1. [seq |-> sequence + 1, kind |-> Head(raised[t]).kind, value |-> Head(raised[t]).value,
            of |-> Head(raised[t]).of, session |-> Drawn(Head(raised[t]))] \in Frames
      BY <2>1, <2>2 DEF Frames, Events, EventTypes
    <3>2. QED
      BY <1>13, <3>1 DEF Normalize, EventTypes
  <2>6. QED
    BY <1>13, <2>3, <2>4, <2>5 DEF Normalize, PipeTypes, DispatchTypes, RecordingTypes, EventTypes,
       hostVars, readerVars, dispatchVars, controllerVars
<1>14. ASSUME NEW t \in Threads, Emit(t) PROVE TypeInv'
  <2>1. pending[t] \in Frames
    BY <1>14 DEF Emit, EventTypes
  <2>2. [kind |-> "overlay", value |-> pending[t].value] \in Entries
    BY <2>1 DEF Frames, Entries
  <2>3. queue' \in Seq(Entries)
    BY <1>14, <2>2, Grows DEF Emit, PipeTypes
  <2>4. pending' \in [Threads -> Frames \cup {NoFrame}]
    BY <1>14 DEF Emit, EventTypes
  <2>5. QED
    BY <1>14, <2>3, <2>4 DEF Emit, PipeTypes, DispatchTypes, RecordingTypes, EventTypes,
       hostVars, readerVars, dispatchVars, controllerVars, normalizerVars
<1>15. CASE UNCHANGED engine
  BY <1>15 DEF engine, PipeTypes, DispatchTypes, RecordingTypes, EventTypes,
     hostVars, readerVars, dispatchVars, controllerVars, normalizerVars
<1>16. QED
  BY <1>1, <1>2, <1>3, <1>4, <1>5, <1>6, <1>7, <1>8, <1>9, <1>10, <1>11, <1>12, <1>13, <1>14,
     <1>15 DEF Next, EngineStep

-----------------------------------------------------------------------------
(***************************************************************************)
(* A request runs once                                                     *)
(***************************************************************************)

\* Whatever ran is remembered, so it is refused when it comes again.
RunsAreSeen == \A id \in Ids : runs[id] <= 1 /\ (runs[id] > 0 => id \in seen)

LEMMA NextRuns == TypeInv /\ RunsAreSeen /\ [Next]_engine => RunsAreSeen'
<1> SUFFICES ASSUME TypeInv, RunsAreSeen, [Next]_engine PROVE RunsAreSeen'
  OBVIOUS
<1>1. CASE Serve
  <2> DEFINE r == Head(queue).frame
  <2>1. r \in Requests /\ r.id \in Ids /\ r.id \notin seen
    BY <1>1, TakenHead, Accepted DEF Serve, TypeInv, Requests
  <2>2. runs[r.id] = 0
    BY <2>1 DEF RunsAreSeen, TypeInv, DispatchTypes
  <2>3. runs' = [runs EXCEPT ![r.id] = @ + 1] /\ seen' = seen \cup {r.id}
    BY <1>1 DEF Serve, Remember
  <2>4. QED
    BY <2>1, <2>2, <2>3 DEF RunsAreSeen, TypeInv, DispatchTypes
<1>2. CASE Refuse
  <2> DEFINE r == Head(queue).frame
  <2>1. r.id \in Ids
    BY <1>2, TakenHead DEF Refuse, TypeInv, Requests
  <2>2. CASE "BUSY" \in Refusals(r)
    <3>1. r.envelope /\ r.id \notin seen
      BY <2>2, RefusedByController
    <3>2. runs[r.id] = 0
      BY <2>1, <3>1 DEF RunsAreSeen, TypeInv, DispatchTypes
    <3>3. runs' = [runs EXCEPT ![r.id] = @ + 1] /\ seen' = seen \cup {r.id}
      BY <1>2, <2>2, <3>1 DEF Refuse
    <3>4. QED
      BY <2>1, <3>2, <3>3 DEF RunsAreSeen, TypeInv, DispatchTypes
  <2>3. CASE "BUSY" \notin Refusals(r)
    <3>1. runs' = runs /\ seen \subseteq seen'
      BY <1>2, <2>3 DEF Refuse
    <3>2. QED
      BY <3>1 DEF RunsAreSeen
  <2>4. QED
    BY <2>2, <2>3
<1>3. ASSUME runs' = runs, seen' = seen PROVE RunsAreSeen'
  BY <1>3 DEF RunsAreSeen
<1>4. ASSUME NEW t \in Threads, Normalize(t) \/ Emit(t) PROVE RunsAreSeen'
  BY <1>3, <1>4 DEF Normalize, Emit, dispatchVars
<1>5. QED
  BY <1>1, <1>2, <1>3, <1>4 DEF Next, EngineStep, HostSends, HostCloses, ReadPart, ReadFrame,
     ReadEof, ReaderKeeps, Respond, TakeEof, Quit, RouteOverlay, ThreadEnds, engine, dispatchVars

-----------------------------------------------------------------------------
(***************************************************************************)
(* Nothing is read after the end of the input                              *)
(***************************************************************************)
Leaves(e) == e.kind \in {"eof", "quit"}

\* In a queue q, with the reader reading or not: no request behind the end.
RightEnd(q, r) ==
  \A i \in DOMAIN q : Leaves(q[i]) => ~r /\ \A j \in DOMAIN q : j > i => q[j].kind # "request"

NoRequests(q) == \A i \in DOMAIN q : q[i].kind # "request"

\* Behind the end of the input no request waits, and when it was taken none is
\* left.
EndIsLast ==
  ~asked => RightEnd(queue, reading) /\ (~running => ~reading /\ NoRequests(queue))

LEMMA TailKeepsEnd ==
  ASSUME NEW q \in Seq(Entries), NEW r, q # <<>>
  PROVE  /\ RightEnd(q, r) => RightEnd(Tail(q), r)
         /\ RightEnd(q, r) /\ Leaves(Head(q)) => ~r /\ NoRequests(Tail(q))
<1>1. /\ \A i \in DOMAIN Tail(q) : i \in Nat /\ i + 1 \in DOMAIN q /\ Tail(q)[i] = q[i + 1]
      /\ 1 \in DOMAIN q /\ Head(q) = q[1]
  BY Shifts
<1>2. \A i \in DOMAIN Tail(q) : i + 1 > 1
  BY <1>1 DEF RightEnd
<1>3. QED
  BY <1>1, <1>2 DEF RightEnd, NoRequests

LEMMA AppendKeepsEnd ==
  ASSUME NEW q \in Seq(Entries), NEW r, NEW e \in Entries
  PROVE  /\ RightEnd(q, r) /\ (Leaves(e) => ~r) /\ (e.kind = "request" => r)
              => RightEnd(Append(q, e), r)
         /\ NoRequests(q) /\ e.kind # "request" => NoRequests(Append(q, e))
<1>1. /\ DOMAIN Append(q, e) = DOMAIN q \cup {Len(q) + 1} /\ Append(q, e)[Len(q) + 1] = e
      /\ \A i \in DOMAIN q : Append(q, e)[i] = q[i] /\ i < Len(q) + 1
      /\ DOMAIN q = 1..Len(q) /\ Len(q) \in Nat
  BY Grows
<1>2. QED
  BY <1>1 DEF RightEnd, NoRequests

LEMMA NextEnd == TypeInv /\ EndIsLast /\ [Next]_engine => EndIsLast'
<1> SUFFICES ASSUME TypeInv, EndIsLast, [Next]_engine PROVE EndIsLast'
  OBVIOUS
<1>1. ASSUME UNCHANGED <<queue, reading, asked, running>> PROVE EndIsLast'
  BY <1>1 DEF EndIsLast
<1>2. queue \in Seq(Entries) /\ {reading, running, asked} \subseteq BOOLEAN
  BY DEF TypeInv, PipeTypes, DispatchTypes
<1>3. CASE ReadFrame
  <2>1. [kind |-> "request", frame |-> Head(stdin)] \in Entries
    BY <1>3, Shifts DEF ReadFrame, TypeInv, PipeTypes, Entries
  <2>2. /\ UNCHANGED <<asked, running, reading>> /\ reading
        /\ queue' = Append(queue, [kind |-> "request", frame |-> Head(stdin)])
    BY <1>3 DEF ReadFrame
  <2>3. ~Leaves([kind |-> "request", frame |-> Head(stdin)])
    BY DEF Leaves
  <2>4. RightEnd(queue, reading) => RightEnd(queue', reading)
    BY <1>2, <2>1, <2>2, <2>3, AppendKeepsEnd
  <2>5. QED
    BY <2>2, <2>4 DEF EndIsLast
<1>4. CASE ReadEof
  <2>1. [kind |-> "eof"] \in Entries /\ Leaves([kind |-> "eof"])
    BY DEF Entries, Leaves
  <2>2. /\ UNCHANGED <<asked, running>> /\ reading /\ reading' = FALSE
        /\ queue' = Append(queue, [kind |-> "eof"])
    BY <1>4 DEF ReadEof, ReaderKeeps
  <2>3. RightEnd(queue, reading) => RightEnd(queue, FALSE)
    BY DEF RightEnd
  <2>4. RightEnd(queue, FALSE) => RightEnd(queue', FALSE)
    BY <1>2, <2>1, <2>2, AppendKeepsEnd
  <2>5. QED
    BY <2>2, <2>3, <2>4 DEF EndIsLast
<1>5. ASSUME queue # <<>>, running, queue' = Tail(queue), UNCHANGED <<asked, running, reading>>
      PROVE  EndIsLast'
  BY <1>2, <1>5, TailKeepsEnd DEF EndIsLast
<1>6. CASE Refuse
  BY <1>5, <1>6 DEF Refuse, Takes, MainIsFree, readerVars
<1>7. CASE Serve
  <2>1. /\ queue # <<>> /\ running /\ UNCHANGED <<running, reading>>
        /\ Head(queue).frame.method # "app.shutdown" => queue' = Tail(queue)
    BY <1>7 DEF Serve, Takes, MainIsFree, readerVars
  <2>2. CASE asked' = asked /\ Head(queue).frame.method # "app.shutdown"
    BY <1>5, <2>1, <2>2
  <2>3. CASE asked'
    BY <2>3 DEF EndIsLast
  <2>4. asked' \/ (asked' = asked /\ Head(queue).frame.method # "app.shutdown")
    BY <1>2, <1>7 DEF Serve, HandleStart, HandleStop, HandleCancel, HandleOther
  <2>5. QED
    BY <2>2, <2>3, <2>4
<1>8. CASE TakeEof
  <2>1. [kind |-> "quit"] \in Entries /\ Leaves([kind |-> "quit"])
    BY DEF Entries, Leaves
  <2>2. /\ queue # <<>> /\ Leaves(Head(queue)) /\ running /\ UNCHANGED <<asked, running, reading>>
        /\ queue' = Append(Tail(queue), [kind |-> "quit"])
    BY <1>8 DEF TakeEof, Takes, MainIsFree, Leaves, readerVars
  <2>3. Tail(queue) \in Seq(Entries)
    BY <1>2, <2>2, Shifts
  <2>4. RightEnd(queue, reading) => RightEnd(Tail(queue), reading) /\ ~reading
    BY <1>2, <2>2, TailKeepsEnd
  <2>5. RightEnd(queue, reading) => RightEnd(queue', reading)
    BY <2>1, <2>2, <2>3, <2>4, AppendKeepsEnd
  <2>6. QED
    BY <2>2, <2>5 DEF EndIsLast
<1>9. CASE Quit
  <2>1. /\ queue # <<>> /\ Leaves(Head(queue)) /\ UNCHANGED <<asked, reading>>
        /\ queue' = Tail(queue)
    BY <1>9 DEF Quit, Takes, Leaves, readerVars
  <2>2. RightEnd(queue, reading) => RightEnd(queue', reading) /\ ~reading /\ NoRequests(queue')
    BY <1>2, <2>1, TailKeepsEnd
  <2>3. QED
    BY <2>1, <2>2 DEF EndIsLast
<1>10. CASE RouteOverlay
  BY <1>5, <1>10 DEF RouteOverlay, Takes, MainIsFree, readerVars
<1>11. ASSUME NEW t \in Threads, Emit(t) PROVE EndIsLast'
  <2>1. UNCHANGED <<asked, running, reading>>
    BY <1>11 DEF Emit, readerVars
  <2>2. CASE queue' = queue
    BY <1>1, <2>1, <2>2
  <2>3. CASE queue' = Append(queue, [kind |-> "overlay", value |-> pending[t].value])
    <3>1. [kind |-> "overlay", value |-> pending[t].value] \in Entries
      <4>1. pending[t].value \in Values
        BY <1>11 DEF Emit, TypeInv, EventTypes, Frames
      <4>2. QED
        BY <4>1 DEF Entries
    <3>2. ~Leaves([kind |-> "overlay", value |-> pending[t].value])
      BY DEF Leaves
    <3>3. /\ RightEnd(queue, reading) => RightEnd(queue', reading)
          /\ NoRequests(queue) => NoRequests(queue')
      BY <1>2, <2>3, <3>1, <3>2, AppendKeepsEnd
    <3>4. QED
      BY <2>1, <3>3 DEF EndIsLast
  <2>4. QED
    BY <1>11, <2>2, <2>3 DEF Emit
<1>12. ASSUME NEW t \in Threads, Normalize(t) PROVE EndIsLast'
  BY <1>1, <1>12 DEF Normalize, readerVars
<1>13. CASE Respond \/ ThreadEnds \/ ReadPart \/ HostCloses \/ UNCHANGED engine
  BY <1>1, <1>13 DEF Respond, ThreadEnds, ReadPart, ReaderKeeps, HostCloses, engine, readerVars
<1>14. ASSUME NEW id \in Ids, NEW call \in Calls, HostSends(id, call) PROVE EndIsLast'
  BY <1>1, <1>14 DEF HostSends, readerVars
<1>15. QED
  BY <1>3, <1>4, <1>6, <1>7, <1>8, <1>9, <1>10, <1>11, <1>12, <1>13, <1>14 DEF Next, EngineStep

-----------------------------------------------------------------------------
(***************************************************************************)
(* Who says what, and under which session                                  *)
(***************************************************************************)
Says(v) == raised["main"] = <<StateEvent(v, recordings)>>
ServesStop == serving # NoRequest /\ serving.method = "dictation.stop"
IsState(e) == e.kind = "state"
Ends(e) == IsState(e) /\ e.value \in Final

\* What the processing thread of recording n has yet to say is about n, starts
\* no recording, and closes what it opened.
SpeaksOf(s, n) ==
  \A i \in DOMAIN s :
    /\ n # None /\ s[i].value # "recording"
    /\ s[i].kind \in {"state", "transcript"} => s[i].of = n
    /\ IsState(s[i]) => Ends(s[i]) \/ \E j \in DOMAIN s : j > i /\ Ends(s[j])

\* The newest recording is the one that runs or the one that is processed.
NewestOnly ==
  /\ recording # None => recording = recordings /\ thread = None
  /\ thread # None => thread = recordings

\* A stop that is served left its thread nothing to say yet.
StopWaits ==
  ServesStop => thread # None /\ raised["processing"] = <<>> /\ pending["processing"] = NoFrame

ThreadSays ==
  /\ SpeaksOf(raised["processing"], thread)
  /\ pending["processing"] # NoFrame => thread # None

LiveSays ==
  /\ \A i \in DOMAIN raised["live"] : raised["live"][i].kind = "partial"
  /\ pending["live"] # NoFrame => pending["live"].kind = "partial"

\* The application thread says one thing at a time, and while it does neither
\* the recording nor the thread changes.
MainSays ==
  /\ raised["main"] \in {<<>>, <<Warning>>} \/ \E v \in {"recording", "processing", "cancelled"} : Says(v)
  /\ Says("processing") => ServesStop
  /\ pending["main"] # NoFrame /\ IsState(pending["main"]) =>
       \/ pending["main"].value = "recording" /\ recording # None
       \/ pending["main"].value = "processing" /\ ServesStop
       \/ pending["main"].value = "cancelled"

\* There is a session for every recording that was announced.
SessionsCount ==
  /\ Says("recording") => sessions + 1 = recordings /\ state # "recording" /\ recording # None
  /\ ~Says("recording") => sessions = recordings
  /\ state = "recording" => recording # None \/ Says("processing") \/ Says("cancelled")

SaidInv == NewestOnly /\ StopWaits /\ ThreadSays /\ LiveSays /\ MainSays /\ SessionsCount /\ OwnSession

LEMMA StatesDiffer ==
  ASSUME NEW n, NEW v, NEW m, NEW w
  PROVE  /\ <<StateEvent(v, n)>> # <<>> /\ <<StateEvent(v, n)>> # <<Warning>>
         /\ <<StateEvent(v, n)>> = <<StateEvent(w, m)>> <=> v = w /\ n = m
         /\ StateEvent(v, n).kind = "state" /\ StateEvent(v, n).value = v /\ StateEvent(v, n).of = n
         /\ <<Warning>> # <<>> /\ Warning.kind = "warning"
<1>1. StateEvent(v, n).kind = "state" /\ StateEvent(v, n).value = v /\ StateEvent(v, n).of = n
  BY DEF StateEvent
<1>2. StateEvent(w, m).value = w /\ StateEvent(w, m).of = m
  BY DEF StateEvent
<1>3. Warning.kind = "warning"
  BY DEF Warning
<1>4. \A a, b : <<a>> = <<b>> <=> a = b
  OBVIOUS
<1>5. \A a : <<a>> # <<>>
  OBVIOUS
<1>6. QED
  BY <1>1, <1>2, <1>3, <1>4, <1>5

LEMMA ResultsSpeak ==
  ASSUME NEW n, n # None, NEW s \in Results(n)
  PROVE  SpeaksOf(s, n) /\ \E i \in DOMAIN s : Ends(s[i])
<1>1. /\ Transcript(n).kind = "transcript" /\ Transcript(n).value = "text" /\ Transcript(n).of = n
      /\ Warning.kind = "warning" /\ Warning.value = "text"
  BY DEF Transcript, Warning
<1>2. \A v : StateEvent(v, n).kind = "state" /\ StateEvent(v, n).value = v /\ StateEvent(v, n).of = n
  BY DEF StateEvent
<1>3. ASSUME NEW a, NEW b, NEW c, NEW d, s = <<a, b, c, d>>, a = StateEvent("cleaning", n),
             b = StateEvent("inserting", n), c = StateEvent("completed", n), d = Transcript(n)
      PROVE  SpeaksOf(s, n) /\ \E i \in DOMAIN s : Ends(s[i])
  <2>1. DOMAIN s = 1..4 /\ s[1] = a /\ s[2] = b /\ s[3] = c /\ s[4] = d
    BY <1>3
  <2>2. Ends(s[3]) /\ ~IsState(s[4])
    BY <1>1, <1>2, <1>3, <2>1 DEF Ends, IsState, Final
  <2>3. \A i \in DOMAIN s : i = 1 \/ i = 2 \/ i = 3 \/ i = 4
    BY <2>1
  <2>4. \A i \in DOMAIN s : s[i].value # "recording" /\ s[i].of = n
    BY <1>1, <1>2, <1>3, <2>1, <2>3
  <2>5. \A i \in DOMAIN s : IsState(s[i]) => Ends(s[i]) \/ \E j \in DOMAIN s : j > i /\ Ends(s[j])
    BY <2>1, <2>2, <2>3
  <2>6. QED
    BY <2>1, <2>2, <2>4, <2>5 DEF SpeaksOf
<1>4. ASSUME NEW a, s = <<a, Warning>>, a = StateEvent("failed", n)
      PROVE  SpeaksOf(s, n) /\ \E i \in DOMAIN s : Ends(s[i])
  <2>1. DOMAIN s = 1..2 /\ s[1] = a /\ s[2] = Warning
    BY <1>4
  <2>2. Ends(s[1]) /\ ~IsState(s[2])
    BY <1>1, <1>2, <1>4, <2>1 DEF Ends, IsState, Final
  <2>3. QED
    BY <1>1, <1>2, <1>4, <2>1, <2>2 DEF SpeaksOf
<1>5. ASSUME NEW a, s = <<a>>, a = StateEvent("cancelled", n)
      PROVE  SpeaksOf(s, n) /\ \E i \in DOMAIN s : Ends(s[i])
  <2>1. DOMAIN s = {1} /\ s[1] = a
    BY <1>5
  <2>2. Ends(s[1])
    BY <1>2, <1>5, <2>1 DEF Ends, IsState, Final
  <2>3. QED
    BY <1>2, <1>5, <2>1, <2>2 DEF SpeaksOf
<1>6. QED
  BY <1>3, <1>4, <1>5 DEF Results

LEMMA TailSpeaks ==
  ASSUME NEW s \in Seq(Events), s # <<>>, NEW n, SpeaksOf(s, n)
  PROVE  /\ SpeaksOf(Tail(s), n)
         /\ n # None /\ Head(s).value # "recording"
         /\ Head(s).kind \in {"state", "transcript"} => Head(s).of = n
         /\ IsState(Head(s)) => Ends(Head(s)) \/ \E j \in DOMAIN Tail(s) : Ends(Tail(s)[j])
         /\ (\E i \in DOMAIN s : Ends(s[i])) => Ends(Head(s)) \/ \E j \in DOMAIN Tail(s) : Ends(Tail(s)[j])
<1>1. /\ 1 \in DOMAIN s /\ Head(s) = s[1]
      /\ \A i \in DOMAIN Tail(s) : i \in Nat /\ i + 1 \in DOMAIN s /\ Tail(s)[i] = s[i + 1]
      /\ \A i \in DOMAIN s : i \in Nat /\ (i # 1 => i - 1 \in DOMAIN Tail(s))
  BY Shifts
<1>2. \A i \in DOMAIN s : i # 1 => i - 1 \in DOMAIN Tail(s) /\ Tail(s)[i - 1] = s[i]
  BY <1>1
<1>3. SpeaksOf(Tail(s), n)
  <2> SUFFICES ASSUME NEW i \in DOMAIN Tail(s)
               PROVE  /\ n # None /\ Tail(s)[i].value # "recording"
                      /\ Tail(s)[i].kind \in {"state", "transcript"} => Tail(s)[i].of = n
                      /\ IsState(Tail(s)[i]) => \/ Ends(Tail(s)[i])
                                                \/ \E j \in DOMAIN Tail(s) : j > i /\ Ends(Tail(s)[j])
    BY DEF SpeaksOf
  <2>1. i + 1 \in DOMAIN s /\ Tail(s)[i] = s[i + 1] /\ i \in Nat
    BY <1>1
  <2>2. ASSUME NEW j \in DOMAIN s, j > i + 1, Ends(s[j])
        PROVE  j - 1 \in DOMAIN Tail(s) /\ j - 1 > i /\ Ends(Tail(s)[j - 1])
    BY <1>1, <1>2, <2>1, <2>2
  <2>3. QED
    BY <2>1, <2>2 DEF SpeaksOf
<1>4. \A j \in DOMAIN s : j > 1 /\ Ends(s[j]) => \E k \in DOMAIN Tail(s) : Ends(Tail(s)[k])
  BY <1>1, <1>2
<1>5. (\E i \in DOMAIN s : Ends(s[i])) => Ends(Head(s)) \/ \E j \in DOMAIN Tail(s) : Ends(Tail(s)[j])
  BY <1>1, <1>2
<1>6. QED
  BY <1>1, <1>3, <1>4, <1>5 DEF SpeaksOf

LEMMA ThreadsDiffer ==
  "main" \in Threads /\ "processing" \in Threads /\ "live" \in Threads
  BY DEF Threads

\* A free application thread has nothing to say and serves nothing.
LEMMA FreeIsSilent ==
  ASSUME MainIsFree
  PROVE  /\ raised["main"] = <<>> /\ pending["main"] = NoFrame /\ serving = NoRequest /\ running
         /\ \A v : ~Says(v)
         /\ ~ServesStop
  BY StatesDiffer DEF MainIsFree, Says, ServesStop

LEMMA InitSaid == Init => SaidInv
<1> SUFFICES ASSUME Init PROVE SaidInv
  OBVIOUS
<1>1. /\ \A t \in Threads : raised[t] = <<>> /\ pending[t] = NoFrame
      /\ serving = NoRequest /\ recording = None /\ thread = None /\ sessions = recordings
      /\ state = "idle"
  BY DEF Init
<1>2. \A v : ~Says(v)
  BY <1>1, StatesDiffer, ThreadsDiffer DEF Says
<1>3. DOMAIN <<>> = {}
  OBVIOUS
<1>4. QED
  BY <1>1, <1>2, <1>3, ThreadsDiffer DEF SaidInv, NewestOnly, StopWaits, ThreadSays, LiveSays, MainSays,
     SessionsCount, OwnSession, ServesStop, SpeaksOf

\* A handler runs on a free thread, for a request that the controller accepts.
LEMMA HandlersSay ==
  ASSUME TypeInv, SaidInv, Serve
  PROVE  SaidInv'
<1> DEFINE r == Head(queue).frame
<1>1. MainIsFree /\ r \in Requests /\ ~ControllerRefuses(r) /\ serving' = r /\ serving' # NoRequest
  BY TakenHead, Accepted, FramesAreFrames DEF Serve, TypeInv
<1>2. raised["main"] = <<>> /\ pending["main"] = NoFrame /\ (\A v : ~Says(v)) /\ ~ServesStop
  BY <1>1, FreeIsSilent
<1>3. sessions = recordings /\ (state = "recording" => recording # None)
  BY <1>2 DEF SaidInv, SessionsCount
<1>4. UNCHANGED <<pending, state, sessions>>
  BY DEF Serve, normalizerVars
<1>5. pending' = pending /\ OwnSession'
  BY <1>4 DEF SaidInv, OwnSession
<1>6. ServesStop' <=> r.method = "dictation.stop"
  BY <1>1 DEF ServesStop
<1>7. recordings \in Nat /\ None = 0
  BY DEF TypeInv, RecordingTypes, None
<1>8. raised \in [Threads -> Seq(Events)]
  BY DEF TypeInv, EventTypes
<1>9. CASE r.method = "dictation.start" /\ HandleStart
  <2>1. recording = None /\ thread' = thread /\ ~ServesStop'
    BY <1>1, <1>6, <1>9 DEF ControllerRefuses, HandleStart
  <2>2. CASE raised' = [raised EXCEPT !["main"] = <<Warning>>] /\ UNCHANGED <<recordings, recording>>
    <3>1. /\ raised'["main"] = <<Warning>> /\ raised'["processing"] = raised["processing"]
          /\ raised'["live"] = raised["live"]
      BY <1>8, <2>2, ThreadsDiffer
    <3>2. \A v : <<StateEvent(v, recordings')>> # <<Warning>>
      BY StatesDiffer
    <3>3. ~Says("recording")' /\ ~Says("processing")' /\ ~Says("cancelled")'
      BY <3>1, <3>2 DEF Says
    <3>4. QED
      BY <1>2, <1>3, <1>4, <1>5, <2>1, <2>2, <3>1, <3>3 DEF SaidInv, NewestOnly, StopWaits,
         ThreadSays, LiveSays, MainSays, SessionsCount
  <2>3. CASE /\ thread = None /\ recordings' = recordings + 1 /\ recording' = recordings + 1
             /\ raised' = [raised EXCEPT !["main"] = <<StateEvent("recording", recordings + 1)>>]
    <3>1. /\ raised'["main"] = <<StateEvent("recording", recordings')>>
          /\ raised'["processing"] = raised["processing"] /\ raised'["live"] = raised["live"]
      BY <1>8, <2>3, ThreadsDiffer
    <3>2. Says("recording")' /\ ~Says("processing")' /\ ~Says("cancelled")'
      <4>1. \A v, w : <<StateEvent(v, recordings')>> = <<StateEvent(w, recordings')>> <=> v = w
        BY StatesDiffer
      <4>2. QED
        BY <3>1, <4>1 DEF Says
    <3>3. recording' # None /\ state # "recording" /\ sessions' + 1 = recordings'
      BY <1>3, <1>4, <1>7, <2>1, <2>3
    <3>4. QED
      BY <1>2, <1>4, <1>5, <2>1, <2>3, <3>1, <3>2, <3>3 DEF SaidInv, NewestOnly, StopWaits,
         ThreadSays, LiveSays, MainSays, SessionsCount
  <2>4. QED
    BY <1>9, <2>2, <2>3 DEF HandleStart
<1>10. CASE r.method = "dictation.stop" /\ HandleStop
  <2>1. /\ recording # None /\ recording = recordings /\ thread = None /\ ServesStop'
        /\ recording' = None /\ thread' = recording /\ recordings' = recordings
    BY <1>1, <1>6, <1>10 DEF ControllerRefuses, HandleStop, SaidInv, NewestOnly
  <2>2. /\ raised'["main"] = <<StateEvent("processing", recordings')>>
        /\ raised'["processing"] = raised["processing"] /\ raised'["live"] = raised["live"]
    BY <1>8, <1>10, <2>1, ThreadsDiffer DEF HandleStop
  <2>3. Says("processing")' /\ ~Says("recording")'
    <3>1. \A v, w : <<StateEvent(v, recordings')>> = <<StateEvent(w, recordings')>> <=> v = w
      BY StatesDiffer
    <3>2. QED
      BY <2>2, <3>1 DEF Says
  <2>4. raised["processing"] = <<>> /\ pending["processing"] = NoFrame
    <3>1. SpeaksOf(raised["processing"], None) /\ pending["processing"] = NoFrame
      BY <2>1 DEF SaidInv, ThreadSays
    <3>2. DOMAIN raised["processing"] = {}
      BY <3>1 DEF SpeaksOf
    <3>3. QED
      BY <1>8, <3>1, <3>2, ThreadsDiffer, Shifts
  <2>5. SpeaksOf(raised'["processing"], thread')
    BY <2>2, <2>4 DEF SpeaksOf
  <2>6. QED
    BY <1>2, <1>3, <1>4, <1>5, <2>1, <2>2, <2>3, <2>4, <2>5 DEF SaidInv, NewestOnly, StopWaits,
       ThreadSays, LiveSays, MainSays, SessionsCount
<1>11. CASE r.method = "dictation.cancel" /\ HandleCancel
  <2>1. recording' = None /\ UNCHANGED <<recordings, thread>> /\ ~ServesStop'
    BY <1>6, <1>11 DEF HandleCancel
  <2>2. CASE recording = None
    <3>1. raised' = raised
      BY <1>11, <2>2 DEF HandleCancel
    <3>2. ~Says("recording")' /\ ~Says("processing")' /\ ~Says("cancelled")'
      BY <1>2, <2>1, <3>1 DEF Says
    <3>3. QED
      BY <1>2, <1>3, <1>4, <1>5, <2>1, <2>2, <3>1, <3>2 DEF SaidInv, NewestOnly, StopWaits,
         ThreadSays, LiveSays, MainSays, SessionsCount
  <2>3. CASE recording # None
    <3>1. recording = recordings
      BY <2>3 DEF SaidInv, NewestOnly
    <3>2. /\ raised'["main"] = <<StateEvent("cancelled", recordings')>>
          /\ raised'["processing"] = raised["processing"] /\ raised'["live"] = raised["live"]
      BY <1>8, <1>11, <2>1, <2>3, <3>1, ThreadsDiffer DEF HandleCancel
    <3>3. Says("cancelled")' /\ ~Says("recording")' /\ ~Says("processing")'
      <4>1. \A v, w : <<StateEvent(v, recordings')>> = <<StateEvent(w, recordings')>> <=> v = w
        BY StatesDiffer
      <4>2. QED
        BY <3>2, <4>1 DEF Says
    <3>4. QED
      BY <1>2, <1>3, <1>4, <1>5, <2>1, <3>2, <3>3 DEF SaidInv, NewestOnly, StopWaits,
         ThreadSays, LiveSays, MainSays, SessionsCount
  <2>4. QED
    BY <2>2, <2>3
<1>12. CASE r.method \notin {"dictation.start", "dictation.stop", "dictation.cancel"} /\ HandleOther(r.method)
  <2>1. UNCHANGED <<recordings, recording, thread, raised>> /\ ~ServesStop'
    BY <1>6, <1>12 DEF HandleOther, controllerVars
  <2>2. ~Says("recording")' /\ ~Says("processing")' /\ ~Says("cancelled")'
    BY <1>2, <2>1 DEF Says
  <2>3. QED
    BY <1>2, <1>3, <1>4, <1>5, <2>1, <2>2 DEF SaidInv, NewestOnly, StopWaits,
       ThreadSays, LiveSays, MainSays, SessionsCount
<1>13. QED
  BY <1>9, <1>10, <1>11, <1>12 DEF Serve

LEMMA ResponseSays ==
  ASSUME TypeInv, SaidInv, Respond
  PROVE  SaidInv'
<1>1. /\ serving # NoRequest /\ raised["main"] = <<>> /\ pending["main"] = NoFrame
      /\ serving' = NoRequest /\ UNCHANGED <<recordings, recording, thread, pending, state, sessions>>
  BY DEF Respond, controllerVars, normalizerVars
<1>2. \A v : ~Says(v)
  BY <1>1, StatesDiffer DEF Says
<1>3. raised \in [Threads -> Seq(Events)]
  BY DEF TypeInv, EventTypes
<1>4. ~ServesStop' /\ OwnSession'
  BY <1>1 DEF ServesStop, SaidInv, OwnSession
<1>5. ASSUME raised'["main"] = raised["main"], ThreadSays', LiveSays'
      PROVE  SaidInv'
  <2>1. ~Says("recording")' /\ ~Says("processing")' /\ ~Says("cancelled")'
    BY <1>1, <1>2, <1>5 DEF Says
  <2>2. QED
    BY <1>1, <1>2, <1>4, <1>5, <2>1 DEF SaidInv, NewestOnly, StopWaits, MainSays, SessionsCount
<1>6. ASSUME thread # None, NEW result \in Results(thread), raised' = [raised EXCEPT !["processing"] = result]
      PROVE  SaidInv'
  <2>1. raised'["processing"] = result /\ raised'["main"] = raised["main"] /\ raised'["live"] = raised["live"]
    BY <1>3, <1>6, ThreadsDiffer
  <2>2. SpeaksOf(result, thread)
    BY <1>6, ResultsSpeak
  <2>3. QED
    BY <1>1, <1>5, <1>6, <2>1, <2>2 DEF SaidInv, ThreadSays, LiveSays
<1>7. CASE raised' = [raised EXCEPT !["live"] = <<Partial(recording)>>]
  <2>1. /\ raised'["live"] = <<Partial(recording)>> /\ raised'["main"] = raised["main"]
        /\ raised'["processing"] = raised["processing"]
    BY <1>3, <1>7, ThreadsDiffer
  <2>2. \A i \in DOMAIN raised'["live"] : raised'["live"][i].kind = "partial"
    BY <2>1 DEF Partial
  <2>3. QED
    BY <1>1, <1>5, <2>1, <2>2 DEF SaidInv, ThreadSays, LiveSays
<1>8. CASE UNCHANGED raised
  BY <1>1, <1>5, <1>8 DEF SaidInv, ThreadSays, LiveSays
<1>9. QED
  BY <1>6, <1>7, <1>8 DEF Respond, ThreadsStart

\* Numbering an event draws a session for a recording that begins and for
\* nothing else.
LEMMA NumberedSays ==
  ASSUME TypeInv, SaidInv, NEW t \in Threads, Normalize(t)
  PROVE  SaidInv'
<1> DEFINE event == Head(raised[t])
<1>1. /\ raised \in [Threads -> Seq(Events)] /\ raised[t] # <<>>
      /\ event \in Events /\ Tail(raised[t]) \in Seq(Events)
      /\ pending[t] = NoFrame /\ pending \in [Threads -> Frames \cup {NoFrame}]
      /\ sequence \in Nat /\ sessions \in Nat
  BY Shifts DEF Normalize, TypeInv, EventTypes
<1>2. /\ raised'[t] = Tail(raised[t])
      /\ \A u \in Threads : u # t => raised'[u] = raised[u] /\ pending'[u] = pending[u]
      /\ pending'[t].kind = event.kind /\ pending'[t].value = event.value
      /\ pending'[t].of = event.of /\ pending'[t].session = Drawn(event)
      /\ pending'[t] # NoFrame
  <2>1. /\ raised' = [raised EXCEPT ![t] = Tail(@)]
        /\ pending' = [pending EXCEPT ![t] =
             [seq |-> sequence + 1, kind |-> event.kind, value |-> event.value,
              of |-> event.of, session |-> Drawn(event)]]
    BY DEF Normalize
  <2>2. pending'[t] = [seq |-> sequence + 1, kind |-> event.kind, value |-> event.value,
              of |-> event.of, session |-> Drawn(event)]
    BY <1>1, <2>1
  <2>3. pending'[t].seq = sequence + 1 /\ NoFrame.seq = 0
    BY <2>2 DEF NoFrame
  <2>4. pending'[t] # NoFrame
    BY <1>1, <2>3
  <2>5. /\ raised'[t] = Tail(raised[t])
        /\ \A u \in Threads : u # t => raised'[u] = raised[u] /\ pending'[u] = pending[u]
    BY <1>1, <2>1
  <2>6. QED
    BY <2>2, <2>4, <2>5
<1>3. /\ UNCHANGED <<serving, recordings, recording, thread>>
      /\ state' = (IF event.kind = "state" THEN event.value ELSE state) /\ sessions' = Drawn(event)
  BY DEF Normalize, dispatchVars, controllerVars
<1>4. NewestOnly' /\ (ServesStop' <=> ServesStop)
  BY <1>3 DEF SaidInv, NewestOnly, ServesStop
<1>5. CASE t = "main"
  <2>1. raised'["main"] = <<>> /\ \A v : ~Says(v)'
    <3>1. Tail(<<Warning>>) = <<>> /\ \A v : Tail(<<StateEvent(v, recordings)>>) = <<>>
      OBVIOUS
    <3>2. raised'["main"] = <<>>
      BY <1>1, <1>2, <1>5, <3>1 DEF SaidInv, MainSays, Says
    <3>3. QED
      BY <3>2, StatesDiffer DEF Says
  <2>2. /\ raised'["processing"] = raised["processing"] /\ pending'["processing"] = pending["processing"]
        /\ raised'["live"] = raised["live"] /\ pending'["live"] = pending["live"]
    BY <1>2, <1>5, ThreadsDiffer
  <2>3. StopWaits' /\ ThreadSays' /\ LiveSays'
    BY <1>3, <1>4, <2>2 DEF SaidInv, StopWaits, ThreadSays, LiveSays
  <2>4. CASE raised["main"] = <<Warning>>
    <3>1. event.kind = "warning"
      BY <1>5, <2>4, StatesDiffer
    <3>2. \A v : ~Says(v)
      BY <2>4, StatesDiffer DEF Says
    <3>3. sessions' = sessions /\ state' = state
      BY <1>3, <3>1 DEF Drawn
    <3>4. MainSays'
      BY <1>2, <1>5, <2>1, <3>1 DEF MainSays, IsState
    <3>5. SessionsCount'
      BY <1>3, <2>1, <3>2, <3>3 DEF SaidInv, SessionsCount
    <3>6. OwnSession'
      BY <1>2, <1>5, <3>1 DEF SaidInv, OwnSession
    <3>7. QED
      BY <1>4, <2>3, <3>4, <3>5, <3>6 DEF SaidInv
  <2>5. ASSUME NEW v \in {"recording", "processing", "cancelled"}, Says(v) PROVE SaidInv'
    <3>1. event = StateEvent(v, recordings)
      BY <1>5, <2>5 DEF Says
    <3>2. event.kind = "state" /\ event.value = v /\ event.of = recordings
      BY <3>1, StatesDiffer
    <3>3. v # "recording" => ~Says("recording")
      <4>1. \A w, u : <<StateEvent(w, recordings)>> = <<StateEvent(u, recordings)>> <=> w = u
        BY StatesDiffer
      <4>2. QED
        BY <2>5, <4>1 DEF Says
    <3>4. Drawn(event) = recordings /\ state' = v
      <4>1. CASE v = "recording"
        BY <1>1, <1>3, <2>5, <3>2, <4>1 DEF Drawn, SaidInv, SessionsCount
      <4>2. CASE v # "recording"
        BY <1>3, <3>2, <3>3, <4>2 DEF Drawn, SaidInv, SessionsCount
      <4>3. QED
        BY <4>1, <4>2
    <3>5. v = "recording" => recording # None
      BY <2>5 DEF SaidInv, SessionsCount
    <3>6. v = "processing" => ServesStop
      BY <2>5 DEF SaidInv, MainSays
    <3>7. MainSays'
      BY <1>2, <1>3, <1>4, <1>5, <2>1, <2>5, <3>2, <3>5, <3>6 DEF MainSays, IsState
    <3>8. SessionsCount'
      BY <1>3, <2>1, <3>4, <3>5 DEF SessionsCount
    <3>9. OwnSession'
      BY <1>2, <1>5, <3>2, <3>4 DEF SaidInv, OwnSession
    <3>10. QED
      BY <1>4, <2>3, <3>7, <3>8, <3>9 DEF SaidInv
  <2>6. QED
    BY <1>1, <1>5, <2>4, <2>5 DEF SaidInv, MainSays
<1>6. ASSUME t # "main"
      PROVE  raised'["main"] = raised["main"] /\ pending'["main"] = pending["main"]
  BY <1>2, <1>6, ThreadsDiffer
<1>7. CASE t = "processing"
  <2>1. /\ SpeaksOf(Tail(raised[t]), thread) /\ thread # None /\ event.value # "recording"
        /\ event.kind \in {"state", "transcript"} => event.of = thread
    BY <1>1, <1>7, TailSpeaks DEF SaidInv, ThreadSays
  <2>2. recording = None /\ thread = recordings
    BY <2>1 DEF SaidInv, NewestOnly
  <2>3. ~ServesStop
    BY <1>1, <1>7 DEF SaidInv, StopWaits
  <2>4. ~Says("recording") /\ ~Says("recording")'
    BY <1>3, <1>6, <1>7, <2>2 DEF SaidInv, SessionsCount, Says
  <2>5. sessions = recordings /\ Drawn(event) = recordings
    BY <2>1, <2>4 DEF SaidInv, SessionsCount, Drawn
  <2>6. (Says("processing")' <=> Says("processing")) /\ (Says("cancelled")' <=> Says("cancelled"))
    BY <1>3, <1>6, <1>7 DEF Says
  <2>7. SessionsCount'
    BY <1>3, <2>1, <2>4, <2>5, <2>6 DEF SaidInv, SessionsCount
  <2>8. MainSays'
    <3>1. \A v : Says(v)' <=> Says(v)
      BY <1>3, <1>6, <1>7 DEF Says
    <3>2. QED
      BY <1>3, <1>4, <1>6, <1>7, <3>1 DEF SaidInv, MainSays
  <2>9. ThreadSays' /\ StopWaits'
    BY <1>2, <1>3, <1>4, <1>7, <2>1, <2>3 DEF ThreadSays, StopWaits
  <2>10. LiveSays'
    BY <1>2, <1>7, ThreadsDiffer DEF SaidInv, LiveSays
  <2>11. OwnSession'
    BY <1>2, <1>7, <2>1, <2>2, <2>5 DEF SaidInv, OwnSession
  <2>12. QED
    BY <1>4, <2>7, <2>8, <2>9, <2>10, <2>11 DEF SaidInv
<1>8. CASE t = "live"
  <2>1. event.kind = "partial"
    BY <1>1, <1>8, Shifts DEF SaidInv, LiveSays
  <2>2. \A v : Says(v)' <=> Says(v)
    BY <1>3, <1>6, <1>8 DEF Says
  <2>3. sessions' = sessions /\ state' = state
    BY <1>3, <2>1 DEF Drawn
  <2>4. SessionsCount'
    BY <1>3, <2>2, <2>3 DEF SaidInv, SessionsCount
  <2>5. MainSays'
    BY <1>3, <1>4, <1>6, <1>8, <2>2 DEF SaidInv, MainSays
  <2>6. raised'["processing"] = raised["processing"] /\ pending'["processing"] = pending["processing"]
    BY <1>2, <1>8, ThreadsDiffer
  <2>7. ThreadSays' /\ StopWaits'
    BY <1>3, <1>4, <2>6 DEF SaidInv, ThreadSays, StopWaits
  <2>8. LiveSays'
    <3>1. \A i \in DOMAIN Tail(raised[t]) : i + 1 \in DOMAIN raised[t] /\ Tail(raised[t])[i] = raised[t][i + 1]
      BY <1>1, Shifts
    <3>2. raised'["live"] = Tail(raised["live"]) /\ pending'["live"].kind = "partial"
      BY <1>2, <1>8, <2>1
    <3>3. \A i \in DOMAIN raised["live"] : raised["live"][i].kind = "partial"
      BY DEF SaidInv, LiveSays
    <3>4. \A i \in DOMAIN raised'["live"] : raised'["live"][i].kind = "partial"
      BY <1>8, <3>1, <3>2, <3>3
    <3>5. QED
      BY <3>2, <3>4 DEF LiveSays
  <2>9. OwnSession'
    BY <1>2, <1>8, <2>1 DEF SaidInv, OwnSession
  <2>10. QED
    BY <1>4, <2>4, <2>5, <2>7, <2>8, <2>9 DEF SaidInv
<1>9. QED
  BY <1>5, <1>7, <1>8 DEF Threads

LEMMA WrittenSays ==
  ASSUME TypeInv, SaidInv, NEW t \in Threads, Emit(t)
  PROVE  SaidInv'
<1>1. /\ UNCHANGED <<serving, recordings, recording, thread, raised, sessions, state>>
      /\ pending' = [pending EXCEPT ![t] = NoFrame]
  BY DEF Emit, dispatchVars, controllerVars, normalizerVars
<1>2. \A u \in Threads : pending'[u] = NoFrame \/ pending'[u] = pending[u]
  BY <1>1 DEF TypeInv, EventTypes
<1>3. \A v : Says(v)' <=> Says(v)
  BY <1>1 DEF Says
<1>4. ServesStop' <=> ServesStop
  BY <1>1 DEF ServesStop
<1>5. NewestOnly' /\ StopWaits' /\ ThreadSays' /\ LiveSays'
  BY <1>1, <1>2, <1>4, ThreadsDiffer DEF SaidInv, NewestOnly, StopWaits, ThreadSays, LiveSays
<1>6. MainSays' /\ SessionsCount'
  BY <1>1, <1>2, <1>3, <1>4, ThreadsDiffer DEF SaidInv, MainSays, SessionsCount
<1>7. OwnSession'
  BY <1>2 DEF SaidInv, OwnSession
<1>8. QED
  BY <1>5, <1>6, <1>7 DEF SaidInv

LEMMA EndSays ==
  ASSUME TypeInv, SaidInv, ThreadEnds
  PROVE  SaidInv'
<1>1. /\ UNCHANGED <<serving, recordings, recording, raised, pending, sessions, state>>
      /\ thread' = None /\ raised["processing"] = <<>> /\ pending["processing"] = NoFrame
      /\ ~ServesStop
  BY DEF ThreadEnds, dispatchVars, normalizerVars, ServesStop
<1>2. \A v : Says(v)' <=> Says(v)
  BY <1>1 DEF Says
<1>3. ServesStop' <=> ServesStop
  BY <1>1 DEF ServesStop
<1>4. DOMAIN raised'["processing"] = {}
  BY <1>1
<1>5. NewestOnly' /\ StopWaits' /\ LiveSays' /\ OwnSession'
  BY <1>1, <1>3 DEF SaidInv, NewestOnly, StopWaits, LiveSays, OwnSession
<1>6. ThreadSays'
  BY <1>1, <1>4 DEF ThreadSays, SpeaksOf
<1>7. MainSays' /\ SessionsCount'
  BY <1>1, <1>2, <1>3 DEF SaidInv, MainSays, SessionsCount
<1>8. QED
  BY <1>5, <1>6, <1>7 DEF SaidInv

LEMMA NextSaid == TypeInv /\ SaidInv /\ [Next]_engine => SaidInv'
<1> SUFFICES ASSUME TypeInv, SaidInv, [Next]_engine PROVE SaidInv'
  OBVIOUS
<1>1. ASSUME UNCHANGED <<serving, recordings, recording, thread, raised, pending, sessions, state>>
      PROVE  SaidInv'
  <2>1. \A v : Says(v)' <=> Says(v)
    BY <1>1 DEF Says
  <2>2. ServesStop' <=> ServesStop
    BY <1>1 DEF ServesStop
  <2>3. NewestOnly' /\ StopWaits' /\ ThreadSays' /\ LiveSays' /\ OwnSession'
    BY <1>1, <2>2 DEF SaidInv, NewestOnly, StopWaits, ThreadSays, LiveSays, OwnSession
  <2>4. MainSays' /\ SessionsCount'
    BY <1>1, <2>1, <2>2 DEF SaidInv, MainSays, SessionsCount
  <2>5. QED
    BY <2>3, <2>4 DEF SaidInv
<1>2. ASSUME NEW id \in Ids, NEW call \in Calls, HostSends(id, call) PROVE SaidInv'
  BY <1>1, <1>2 DEF HostSends, dispatchVars, controllerVars, normalizerVars
<1>3. CASE HostCloses \/ ReadPart \/ ReadFrame \/ ReadEof
  BY <1>1, <1>3 DEF HostCloses, ReadPart, ReadFrame, ReadEof, ReaderKeeps, dispatchVars,
     controllerVars, normalizerVars
<1>4. CASE Refuse \/ TakeEof \/ Quit \/ RouteOverlay \/ UNCHANGED engine
  BY <1>1, <1>4 DEF Refuse, TakeEof, Quit, RouteOverlay, engine, dispatchVars, controllerVars,
     normalizerVars
<1>5. QED
  BY <1>2, <1>3, <1>4, HandlersSay, ResponseSays, NumberedSays, WrittenSays, EndSays
  DEF Next, EngineStep

-----------------------------------------------------------------------------
(***************************************************************************)
(* The overlay goes                                                        *)
(***************************************************************************)
IsShown(e) == e.kind = "overlay"
NoneShown(q) == \A i \in DOMAIN q : ~IsShown(q[i])

\* If the last update of the overlay that waits in q does not hide it, c holds.
LastHides(q, c) ==
  \A i \in DOMAIN q :
    IsShown(q[i]) /\ q[i].value \notin Final /\ (\A j \in DOMAIN q : j > i => ~IsShown(q[j])) => c

\* The processing thread has yet to end what it opened.
EndComes ==
  \/ \E i \in DOMAIN raised["processing"] : Ends(raised["processing"][i])
  \/ pending["processing"] # NoFrame /\ Ends(pending["processing"])

\* The application thread has yet to announce that a recording is over.
MainAnnounces ==
  \/ Says("processing") \/ Says("cancelled")
  \/ pending["main"] # NoFrame /\ IsState(pending["main"])

Alive == recording # None \/ MainAnnounces \/ ServesStop \/ EndComes

\* What is shown, or about to be shown last, is taken back by somebody.
OpenedIsClosed ==
  /\ pending["processing"] # NoFrame /\ IsState(pending["processing"]) => EndComes
  /\ LastHides(queue, EndComes)
  /\ NoneShown(queue) /\ overlay # "hidden" => Alive

LEMMA TailShows ==
  ASSUME NEW q \in Seq(Entries), q # <<>>, NEW c
  PROVE  /\ LastHides(q, c) => LastHides(Tail(q), c)
         /\ NoneShown(Tail(q)) /\ ~IsShown(Head(q)) => NoneShown(q)
         /\ NoneShown(Tail(q)) /\ LastHides(q, c) /\ IsShown(Head(q)) /\ Head(q).value \notin Final => c
<1>1. /\ 1 \in DOMAIN q /\ Head(q) = q[1]
      /\ \A i \in DOMAIN Tail(q) : i \in Nat /\ i + 1 \in DOMAIN q /\ Tail(q)[i] = q[i + 1]
      /\ \A i \in DOMAIN q : i \in Nat /\ (i # 1 => i - 1 \in DOMAIN Tail(q))
  BY Shifts
<1>2. \A i \in DOMAIN q : i # 1 => i - 1 \in DOMAIN Tail(q) /\ Tail(q)[i - 1] = q[i]
  BY <1>1
<1>3. ASSUME NEW i \in DOMAIN Tail(q), \A j \in DOMAIN Tail(q) : j > i => ~IsShown(Tail(q)[j])
      PROVE  \A j \in DOMAIN q : j > i + 1 => ~IsShown(q[j])
  <2> SUFFICES ASSUME NEW j \in DOMAIN q, j > i + 1 PROVE ~IsShown(q[j])
    OBVIOUS
  <2>1. j - 1 \in DOMAIN Tail(q) /\ Tail(q)[j - 1] = q[j] /\ j - 1 > i
    BY <1>1, <1>2
  <2>2. QED
    BY <1>3, <2>1
<1>4. LastHides(q, c) => LastHides(Tail(q), c)
  BY <1>1, <1>3 DEF LastHides
<1>5. NoneShown(Tail(q)) => \A j \in DOMAIN q : j > 1 => ~IsShown(q[j])
  BY <1>1, <1>2 DEF NoneShown
<1>6. NoneShown(Tail(q)) /\ ~IsShown(Head(q)) => NoneShown(q)
  BY <1>1, <1>2 DEF NoneShown
<1>7. QED
  BY <1>1, <1>4, <1>5, <1>6 DEF LastHides

LEMMA AppendShows ==
  ASSUME NEW q \in Seq(Entries), NEW e \in Entries, NEW c
  PROVE  /\ ~IsShown(e) /\ LastHides(q, c) => LastHides(Append(q, e), c)
         /\ IsShown(e) /\ (e.value \in Final \/ c) => LastHides(Append(q, e), c)
         /\ IsShown(e) => ~NoneShown(Append(q, e))
         /\ NoneShown(Append(q, e)) => NoneShown(q)
<1>1. /\ DOMAIN Append(q, e) = DOMAIN q \cup {Len(q) + 1} /\ DOMAIN q = 1..Len(q)
      /\ Append(q, e)[Len(q) + 1] = e /\ Len(q) \in Nat
      /\ \A i \in DOMAIN q : Append(q, e)[i] = q[i] /\ i < Len(q) + 1
  BY Grows
<1>2. ~IsShown(e) /\ LastHides(q, c) => LastHides(Append(q, e), c)
  BY <1>1 DEF LastHides
<1>3. IsShown(e) /\ (e.value \in Final \/ c) => LastHides(Append(q, e), c)
  BY <1>1 DEF LastHides
<1>4. QED
  BY <1>1, <1>2, <1>3 DEF NoneShown

\* What shows a value that ends a dictation is nothing.
LEMMA FinalHides ==
  ASSUME NEW v \in Final PROVE Shown(v) = "hidden"
  BY DEF Shown, Final

LEMMA HiddenWhenCancelled == Shown("cancelled") = "hidden"
  BY DEF Shown

\* The thread is there as long as its end is to come.
LEMMA AliveHasThread ==
  ASSUME SaidInv PROVE EndComes => thread # None
  BY DEF SaidInv, ThreadSays, SpeaksOf, EndComes

LEMMA OpenedIsClosedInit == Init => OpenedIsClosed
<1>1. Init => queue = <<>> /\ overlay = "hidden" /\ pending["processing"] = NoFrame
  BY ThreadsDiffer DEF Init
<1>2. \A c : LastHides(<<>>, c)
  BY DEF LastHides
<1>3. QED
  BY <1>1, <1>2 DEF OpenedIsClosed

\* The queue as a step leaves it when no update of the overlay comes or goes.
QueueMoves ==
  \/ queue' = queue
  \/ \E e \in Entries : ~IsShown(e) /\ queue' = Append(queue, e)
  \/ queue # <<>> /\ ~IsShown(Head(queue)) /\ queue' = Tail(queue)
  \/ queue # <<>> /\ ~IsShown(Head(queue)) /\ \E e \in Entries : ~IsShown(e) /\ queue' = Append(Tail(queue), e)

LEMMA MovesKeep ==
  ASSUME PipeTypes, QueueMoves, NEW c
  PROVE  /\ LastHides(queue, c) => LastHides(queue', c)
         /\ NoneShown(queue') => NoneShown(queue)
<1>1. queue \in Seq(Entries)
  BY DEF PipeTypes
<1>2. CASE queue' = queue
  BY <1>2
<1>3. ASSUME NEW e \in Entries, ~IsShown(e), queue' = Append(queue, e)
      PROVE  (LastHides(queue, c) => LastHides(queue', c)) /\ (NoneShown(queue') => NoneShown(queue))
  BY <1>1, <1>3, AppendShows
<1>4. CASE queue # <<>> /\ ~IsShown(Head(queue)) /\ queue' = Tail(queue)
  BY <1>1, <1>4, TailShows
<1>5. ASSUME queue # <<>>, ~IsShown(Head(queue)), NEW e \in Entries, ~IsShown(e),
             queue' = Append(Tail(queue), e)
      PROVE  (LastHides(queue, c) => LastHides(queue', c)) /\ (NoneShown(queue') => NoneShown(queue))
  <2>1. Tail(queue) \in Seq(Entries)
    BY <1>1, <1>5, Shifts
  <2>2. QED
    BY <1>1, <1>5, <2>1, TailShows, AppendShows
<1>6. QED
  BY <1>2, <1>3, <1>4, <1>5 DEF QueueMoves

LEMMA HidesFor ==
  ASSUME NEW q, NEW c, NEW d, c => d
  PROVE  LastHides(q, c) => LastHides(q, d)
  BY DEF LastHides

\* A step that moves the queue, keeps or hides what is shown, and leaves
\* somebody to take it back.
LEMMA StaysClosed ==
  ASSUME TypeInv, OpenedIsClosed, QueueMoves, overlay' \in {overlay, "hidden"},
         pending'["processing"] = pending["processing"],
         EndComes => EndComes', Alive => Alive'
  PROVE  OpenedIsClosed'
<1>1. LastHides(queue, EndComes) => LastHides(queue', EndComes)
  BY MovesKeep DEF TypeInv
<1>2. LastHides(queue', EndComes')
  BY <1>1, HidesFor DEF OpenedIsClosed
<1>3. NoneShown(queue') => NoneShown(queue)
  BY MovesKeep DEF TypeInv
<1>4. QED
  BY <1>2, <1>3 DEF OpenedIsClosed

\* As long as nothing is said or served, who has to take it back stays.
LEMMA SameAlive ==
  ASSUME UNCHANGED <<raised, pending, serving, recording, recordings>>
  PROVE  (EndComes' <=> EndComes) /\ (Alive' <=> Alive)
  BY DEF EndComes, Alive, MainAnnounces, ServesStop, Says

LEMMA HandlersClose ==
  ASSUME TypeInv, SaidInv, SaidInv', OpenedIsClosed, Serve
  PROVE  OpenedIsClosed'
<1> DEFINE r == Head(queue).frame
           quit == [kind |-> "quit"]
<1>1. /\ MainIsFree /\ ~ControllerRefuses(r) /\ queue # <<>> /\ Head(queue).kind = "request"
      /\ serving' = r /\ r # NoRequest
  BY TakenHead, Accepted, FramesAreFrames DEF Serve, TypeInv
<1>2. pending' = pending /\ overlay' = overlay
  BY DEF Serve
<1>3. raised \in [Threads -> Seq(Events)]
  BY DEF TypeInv, EventTypes
<1>4. QueueMoves
  <2>1. quit \in Entries /\ ~IsShown(quit) /\ ~IsShown(Head(queue))
    BY <1>1 DEF Entries, IsShown
  <2>2. queue' = Tail(queue) \/ queue' = Append(Tail(queue), quit)
    BY DEF Serve
  <2>3. QED
    BY <1>1, <2>1, <2>2 DEF QueueMoves
<1>5. ~ServesStop /\ ~MainAnnounces
  BY <1>1, FreeIsSilent DEF MainAnnounces
<1>6. raised'["processing"] = raised["processing"]
  BY <1>3, ThreadsDiffer DEF Serve, HandleStart, HandleStop, HandleCancel, HandleOther
<1>7. EndComes' <=> EndComes
  BY <1>2, <1>6 DEF EndComes
<1>8. ASSUME recording # None PROVE Alive'
  <2>1. CASE r.method = "dictation.start"
    BY <1>1, <1>8, <2>1 DEF ControllerRefuses
  <2>2. CASE r.method = "dictation.stop"
    BY <1>1, <2>2 DEF Alive, ServesStop
  <2>3. CASE r.method = "dictation.cancel"
    <3>1. HandleCancel
      BY <2>3 DEF Serve
    <3>2. recording = recordings
      BY <1>8 DEF SaidInv, NewestOnly
    <3>3. raised'["main"] = <<StateEvent("cancelled", recordings')>>
      BY <1>3, <1>8, <3>1, <3>2, ThreadsDiffer DEF HandleCancel
    <3>4. QED
      BY <3>3 DEF Alive, MainAnnounces, Says
  <2>4. CASE r.method \notin {"dictation.start", "dictation.stop", "dictation.cancel"}
    BY <1>8, <2>4 DEF Serve, HandleOther, controllerVars, Alive
  <2>5. QED
    BY <2>1, <2>2, <2>3, <2>4
<1>9. Alive => Alive'
  BY <1>5, <1>7, <1>8 DEF Alive
<1>10. QED
  BY <1>2, <1>4, <1>7, <1>9, StaysClosed

LEMMA ResponseCloses ==
  ASSUME TypeInv, SaidInv, OpenedIsClosed, Respond
  PROVE  OpenedIsClosed'
<1>1. /\ serving # NoRequest /\ raised["main"] = <<>> /\ pending["main"] = NoFrame
      /\ UNCHANGED <<recordings, recording, thread, pending, queue, overlay>>
  BY DEF Respond, controllerVars
<1>2. raised \in [Threads -> Seq(Events)]
  BY DEF TypeInv, EventTypes
<1>3. ~MainAnnounces
  BY <1>1, StatesDiffer DEF MainAnnounces, Says
<1>4. QueueMoves
  BY <1>1 DEF QueueMoves
<1>5. CASE ServesStop
  <2>1. PICK result \in Results(thread) : raised' = [raised EXCEPT !["processing"] = result]
    BY <1>5 DEF Respond, ThreadsStart, SaidInv, StopWaits, ServesStop
  <2>2. raised'["processing"] = result
    BY <1>2, <2>1, ThreadsDiffer
  <2>3. EndComes'
    BY <1>5, <2>2, ResultsSpeak DEF EndComes, SaidInv, StopWaits
  <2>4. QED
    BY <1>1, <1>4, <2>3, StaysClosed DEF Alive
<1>6. CASE ~ServesStop
  <2>1. serving.method # "dictation.stop"
    BY <1>1, <1>6 DEF ServesStop
  <2>2. raised'["processing"] = raised["processing"]
    BY <1>2, <2>1, ThreadsDiffer DEF Respond, ThreadsStart
  <2>3. EndComes' <=> EndComes
    BY <1>1, <2>2 DEF EndComes
  <2>4. Alive => Alive'
    BY <1>1, <1>3, <1>6, <2>3 DEF Alive
  <2>5. QED
    BY <1>1, <1>4, <2>3, <2>4, StaysClosed
<1>7. QED
  BY <1>5, <1>6

LEMMA NumberedCloses ==
  ASSUME TypeInv, SaidInv, OpenedIsClosed, NEW t \in Threads, Normalize(t)
  PROVE  OpenedIsClosed'
<1> DEFINE event == Head(raised[t])
<1>1. /\ raised \in [Threads -> Seq(Events)] /\ raised[t] # <<>> /\ event \in Events
      /\ pending[t] = NoFrame /\ pending \in [Threads -> Frames \cup {NoFrame}] /\ sequence \in Nat
  BY Shifts DEF Normalize, TypeInv, EventTypes
<1>2. /\ UNCHANGED <<serving, recordings, recording, queue, overlay>>
      /\ raised' = [raised EXCEPT ![t] = Tail(@)]
      /\ pending' = [pending EXCEPT ![t] =
           [seq |-> sequence + 1, kind |-> event.kind, value |-> event.value,
            of |-> event.of, session |-> Drawn(event)]]
  BY DEF Normalize, dispatchVars, controllerVars
<1>3. /\ raised'[t] = Tail(raised[t])
      /\ \A u \in Threads : u # t => raised'[u] = raised[u] /\ pending'[u] = pending[u]
      /\ pending'[t].kind = event.kind /\ pending'[t].value = event.value /\ pending'[t] # NoFrame
  <2>1. pending'[t] = [seq |-> sequence + 1, kind |-> event.kind, value |-> event.value,
            of |-> event.of, session |-> Drawn(event)]
    BY <1>1, <1>2
  <2>2. pending'[t].seq = sequence + 1 /\ NoFrame.seq = 0
    BY <2>1 DEF NoFrame
  <2>3. pending'[t] # NoFrame
    BY <1>1, <2>2
  <2>4. /\ raised'[t] = Tail(raised[t])
        /\ \A u \in Threads : u # t => raised'[u] = raised[u] /\ pending'[u] = pending[u]
    BY <1>1, <1>2
  <2>5. QED
    BY <2>1, <2>3, <2>4
<1>4. QueueMoves /\ (ServesStop' <=> ServesStop)
  BY <1>2 DEF QueueMoves, ServesStop
<1>5. CASE t = "processing"
  <2>1. /\ IsState(event) => Ends(event) \/ \E j \in DOMAIN Tail(raised[t]) : Ends(Tail(raised[t])[j])
        /\ (\E i \in DOMAIN raised[t] : Ends(raised[t][i])) =>
             Ends(event) \/ \E j \in DOMAIN Tail(raised[t]) : Ends(Tail(raised[t])[j])
    BY <1>1, <1>5, TailSpeaks DEF SaidInv, ThreadSays
  <2>2. Ends(pending'[t]) <=> Ends(event)
    BY <1>3 DEF Ends, IsState
  <2>3. EndComes => EndComes'
    BY <1>1, <1>3, <1>5, <2>1, <2>2 DEF EndComes
  <2>4. IsState(pending'[t]) => EndComes'
    BY <1>3, <1>5, <2>1, <2>2 DEF EndComes, IsState
  <2>5. MainAnnounces' <=> MainAnnounces
    BY <1>2, <1>3, <1>5, ThreadsDiffer DEF MainAnnounces, Says
  <2>6. Alive => Alive'
    BY <1>2, <1>4, <2>3, <2>5 DEF Alive
  <2>7. LastHides(queue', EndComes')
    BY <1>2, <2>3, HidesFor DEF OpenedIsClosed
  <2>8. QED
    BY <1>2, <1>5, <2>4, <2>6, <2>7 DEF OpenedIsClosed
<1>6. CASE t # "processing"
  <2>1. raised'["processing"] = raised["processing"] /\ pending'["processing"] = pending["processing"]
    BY <1>3, <1>6, ThreadsDiffer
  <2>2. EndComes' <=> EndComes
    BY <2>1 DEF EndComes
  <2>3. MainAnnounces => MainAnnounces'
    <3>1. CASE t = "main"
      <4>1. Says("processing") \/ Says("cancelled")
            => event.kind = "state"
        <5>1. \A v : Head(<<StateEvent(v, recordings)>>).kind = "state"
          BY StatesDiffer
        <5>2. QED
          BY <3>1, <5>1 DEF Says
      <4>2. MainAnnounces => event.kind = "state"
        BY <1>1, <3>1, <4>1 DEF MainAnnounces
      <4>3. QED
        BY <1>3, <3>1, <4>2 DEF MainAnnounces, IsState
    <3>2. CASE t # "main"
      BY <1>2, <1>3, <3>2, ThreadsDiffer DEF MainAnnounces, Says
    <3>3. QED
      BY <3>1, <3>2
  <2>4. Alive => Alive'
    BY <1>2, <1>4, <2>2, <2>3 DEF Alive
  <2>5. QED
    BY <1>2, <1>4, <2>1, <2>2, <2>4, StaysClosed
<1>7. QED
  BY <1>5, <1>6

LEMMA WrittenCloses ==
  ASSUME TypeInv, SaidInv, OpenedIsClosed, NEW t \in Threads, Emit(t)
  PROVE  OpenedIsClosed'
<1> DEFINE e == [kind |-> "overlay", value |-> pending[t].value]
<1>1. /\ UNCHANGED <<serving, recordings, recording, raised>>
      /\ pending' = [pending EXCEPT ![t] = NoFrame] /\ pending[t] # NoFrame
  BY DEF Emit, dispatchVars, controllerVars
<1>2. /\ pending'[t] = NoFrame /\ \A u \in Threads : u # t => pending'[u] = pending[u]
      /\ pending[t] \in Frames
  BY <1>1 DEF TypeInv, EventTypes
<1>3. (ServesStop' <=> ServesStop) /\ \A v : Says(v)' <=> Says(v)
  BY <1>1 DEF ServesStop, Says
<1>4. CASE ~IsState(pending[t])
  <2>1. QueueMoves /\ overlay' = overlay
    BY <1>4 DEF Emit, IsState, QueueMoves
  <2>2. EndComes => EndComes'
    BY <1>1, <1>2, <1>4, ThreadsDiffer DEF EndComes, Ends
  <2>3. MainAnnounces => MainAnnounces'
    BY <1>2, <1>3, <1>4, ThreadsDiffer DEF MainAnnounces
  <2>4. Alive => Alive'
    BY <1>1, <1>3, <2>2, <2>3 DEF Alive
  <2>5. LastHides(queue', EndComes')
    BY <2>1, <2>2, HidesFor, MovesKeep DEF OpenedIsClosed, TypeInv
  <2>6. pending'["processing"] # NoFrame => pending'["processing"] = pending["processing"]
    BY <1>2, ThreadsDiffer
  <2>7. NoneShown(queue') => NoneShown(queue)
    BY <2>1, MovesKeep DEF TypeInv
  <2>8. QED
    BY <2>1, <2>2, <2>4, <2>5, <2>6, <2>7 DEF OpenedIsClosed
<1>5. CASE IsState(pending[t]) /\ t = "main"
  <2>1. queue' = queue /\ overlay' = Shown(pending[t].value)
    BY <1>5 DEF Emit, IsState
  <2>2. pending'["processing"] = pending["processing"]
    BY <1>2, <1>5, ThreadsDiffer
  <2>3. EndComes' <=> EndComes
    BY <1>1, <2>2 DEF EndComes
  <2>4. overlay' # "hidden" => recording # None \/ ServesStop
    BY <1>1, <1>5, <2>1, HiddenWhenCancelled DEF SaidInv, MainSays
  <2>5. QED
    BY <1>1, <1>3, <2>1, <2>2, <2>3, <2>4 DEF OpenedIsClosed, Alive
<1>6. CASE IsState(pending[t]) /\ t = "processing"
  <2>1. queue' = Append(queue, e) /\ queue \in Seq(Entries) /\ e \in Entries /\ IsShown(e)
    <3>1. pending[t].value \in Values
      BY <1>2 DEF Frames
    <3>2. e \in Entries
      BY <3>1 DEF Entries
    <3>3. QED
      BY <1>6, <3>2 DEF Emit, IsState, IsShown, TypeInv, PipeTypes
  <2>2. e.value \in Final \/ EndComes'
    BY <1>1, <1>2, <1>6 DEF OpenedIsClosed, EndComes, Ends
  <2>3. LastHides(queue', EndComes') /\ ~NoneShown(queue')
    BY <2>1, <2>2, AppendShows
  <2>4. QED
    BY <1>2, <1>6, <2>3 DEF OpenedIsClosed
<1>7. CASE IsState(pending[t]) /\ t = "live"
  BY <1>1, <1>7 DEF SaidInv, LiveSays, IsState
<1>8. QED
  BY <1>4, <1>5, <1>6, <1>7 DEF Threads

LEMMA OverlayCloses ==
  ASSUME TypeInv, SaidInv, OpenedIsClosed, RouteOverlay
  PROVE  OpenedIsClosed'
<1>1. /\ UNCHANGED <<raised, pending, serving, recording, recordings>>
      /\ queue # <<>> /\ queue' = Tail(queue) /\ IsShown(Head(queue))
      /\ overlay' = Shown(Head(queue).value)
  BY DEF RouteOverlay, Takes, IsShown, dispatchVars, controllerVars
<1>2. (EndComes' <=> EndComes) /\ (Alive' <=> Alive)
  BY <1>1, SameAlive
<1>3. /\ LastHides(queue, EndComes) => LastHides(queue', EndComes)
      /\ NoneShown(queue') /\ LastHides(queue, EndComes) /\ Head(queue).value \notin Final => EndComes
  BY <1>1, TailShows DEF TypeInv, PipeTypes
<1>4. Head(queue).value \in Final => overlay' = "hidden"
  BY <1>1, FinalHides
<1>5. LastHides(queue', EndComes')
  BY <1>2, <1>3, HidesFor DEF OpenedIsClosed
<1>6. QED
  BY <1>1, <1>2, <1>3, <1>4, <1>5 DEF OpenedIsClosed, Alive

LEMMA NextCloses == TypeInv /\ SaidInv /\ SaidInv' /\ OpenedIsClosed /\ [Next]_engine => OpenedIsClosed'
<1> SUFFICES ASSUME TypeInv, SaidInv, SaidInv', OpenedIsClosed, [Next]_engine PROVE OpenedIsClosed'
  OBVIOUS
<1>1. ASSUME UNCHANGED <<raised, pending, serving, recording, recordings>>, QueueMoves,
             overlay' \in {overlay, "hidden"}
      PROVE  OpenedIsClosed'
  BY <1>1, SameAlive, StaysClosed
<1>2. ASSUME queue' = queue PROVE QueueMoves
  BY <1>2 DEF QueueMoves
<1>3. ASSUME NEW id \in Ids, NEW call \in Calls, HostSends(id, call) PROVE OpenedIsClosed'
  BY <1>1, <1>2, <1>3 DEF HostSends, dispatchVars, controllerVars
<1>4. CASE HostCloses \/ ReadPart \/ UNCHANGED engine
  BY <1>1, <1>2, <1>4 DEF HostCloses, ReadPart, ReaderKeeps, engine, dispatchVars, controllerVars
<1>5. CASE ReadFrame
  <2> DEFINE e == [kind |-> "request", frame |-> Head(stdin)]
  <2>1. e \in Entries /\ ~IsShown(e) /\ queue' = Append(queue, e)
    BY <1>5, Shifts DEF ReadFrame, TypeInv, PipeTypes, Entries, IsShown
  <2>2. QueueMoves
    BY <2>1 DEF QueueMoves
  <2>3. QED
    BY <1>1, <1>5, <2>2 DEF ReadFrame, dispatchVars, controllerVars
<1>6. CASE ReadEof
  <2> DEFINE e == [kind |-> "eof"]
  <2>1. e \in Entries /\ ~IsShown(e) /\ queue' = Append(queue, e)
    BY <1>6 DEF ReadEof, Entries, IsShown
  <2>2. QueueMoves
    BY <2>1 DEF QueueMoves
  <2>3. QED
    BY <1>1, <1>6, <2>2 DEF ReadEof, ReaderKeeps, dispatchVars, controllerVars
<1>7. CASE Refuse
  <2>1. QueueMoves
    BY <1>7 DEF Refuse, Takes, QueueMoves, IsShown
  <2>2. QED
    BY <1>1, <1>7, <2>1 DEF Refuse, controllerVars
<1>8. CASE TakeEof
  <2> DEFINE e == [kind |-> "quit"]
  <2>1. e \in Entries /\ ~IsShown(e)
    BY DEF Entries, IsShown
  <2>2. QueueMoves
    BY <1>8, <2>1 DEF TakeEof, Takes, QueueMoves, IsShown
  <2>3. QED
    BY <1>1, <1>8, <2>2 DEF TakeEof, dispatchVars, controllerVars
<1>9. CASE Quit
  <2>1. QueueMoves
    BY <1>9 DEF Quit, Takes, QueueMoves, IsShown
  <2>2. QED
    BY <1>1, <1>9, <2>1 DEF Quit, dispatchVars, controllerVars
<1>10. CASE ThreadEnds
  BY <1>1, <1>2, <1>10 DEF ThreadEnds, dispatchVars
<1>11. QED
  BY <1>3, <1>4, <1>5, <1>6, <1>7, <1>8, <1>9, <1>10, HandlersClose, ResponseCloses, NumberedCloses,
     WrittenCloses, OverlayCloses DEF Next, EngineStep

-----------------------------------------------------------------------------
(***************************************************************************)
(* The theorems                                                            *)
(***************************************************************************)
IInv == TypeInv /\ RunsAreSeen /\ EndIsLast /\ SaidInv /\ OpenedIsClosed

LEMMA EngineInvariant == Spec => []IInv
<1>1. Init => RunsAreSeen
  BY DEF Init, RunsAreSeen
<1>2. Init => EndIsLast
  BY DEF Init, EndIsLast, RightEnd
<1>3. Init => IInv
  BY <1>1, <1>2, InitTypes, InitSaid, OpenedIsClosedInit DEF IInv
<1>4. IInv /\ [Next]_engine => IInv'
  BY NextTypes, NextRuns, NextEnd, NextSaid, NextCloses DEF IInv
<1>5. QED
  BY <1>3, <1>4, PTL DEF Spec

\* Types of everything the engine holds and of what is on its way.
THEOREM EngineTypes == Spec => []TypeInv
<1>1. IInv => TypeInv
  BY DEF IInv
<1>2. QED
  BY <1>1, EngineInvariant, PTL

\* RunOnce: the handler of a request runs at most once, however often the host
\* repeats its identifier (ProtocolDispatcher._seen_ids).
THEOREM RequestsRunOnce == Spec => []RunOnce
<1>1. IInv => RunOnce
  BY DEF IInv, RunsAreSeen, RunOnce
<1>2. QED
  BY <1>1, EngineInvariant, PTL

\* AnsweredBeforeQuit: the end of the input takes its turn in the queue, so
\* what was read before it is answered (request_bridge.eof, request_shutdown).
THEOREM ReadIsAnswered == Spec => []AnsweredBeforeQuit
<1>1. IInv => AnsweredBeforeQuit
  BY DEF IInv, EndIsLast, NoRequests, AnsweredBeforeQuit
<1>2. QED
  BY <1>1, EngineInvariant, PTL

\* OwnSession: states and transcripts carry the session of their recording,
\* whichever thread raises them (EventNormalizer.runtime_event).
THEOREM EventsKeepSession == Spec => []OwnSession
<1>1. IInv => OwnSession
  BY DEF IInv, SaidInv
<1>2. QED
  BY <1>1, EngineInvariant, PTL

\* OverlayGone: when all is quiet the overlay is hidden, whether it was told
\* directly or through the queue (route_overlay).
THEOREM OverlayGoes == Spec => []OverlayGone
<1>1. IInv => OverlayGone
  <2> SUFFICES ASSUME IInv, AllIsQuiet PROVE overlay = "hidden"
    BY DEF OverlayGone
  <2>1. recording = None /\ thread = None /\ NoneShown(queue)
    BY DEF AllIsQuiet, NoneShown, IsShown
  <2>2. ~EndComes /\ ~ServesStop
    BY <2>1, AliveHasThread DEF IInv, SaidInv, StopWaits
  <2>3. ~MainAnnounces
    BY StatesDiffer, ThreadsDiffer DEF AllIsQuiet, MainAnnounces, Says
  <2>4. QED
    BY <2>1, <2>2, <2>3 DEF IInv, OpenedIsClosed, Alive
<1>2. QED
  BY <1>1, EngineInvariant, PTL

=============================================================================
