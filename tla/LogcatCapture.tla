---------------------------- MODULE LogcatCapture ----------------------------
(***************************************************************************)
(* The log of one device in a run: the stream that a worker starts and     *)
(* stops (packages/adb/src/logcat-stream.ts), its segments on disk, and    *)
(* the monitor that makes an incident of a crash line and has the run      *)
(* paused, which stops the very worker whose line it was                   *)
(* (packages/sessions/src/logcat-fault-monitor.ts).                        *)
(*                                                                         *)
(* A line comes in two halves: fragment 2k - 1 begins line k and 2k ends   *)
(* it with the newline.  A text is a sequence of fragments, a file is a    *)
(* sequence of texts, and a digest is the content itself.  One record is   *)
(* one unit of a segment's size.  A rejection nobody handles ends the      *)
(* server: Node has no handler for it here.  Left out: the ring of recent  *)
(* records, which nothing in production reads, and equal clock readings    *)
(* of two servers, which count from their own launch.                      *)
(***************************************************************************)
EXTENDS Naturals, Sequences, FiniteSetsExt

Seqs == INSTANCE SequencesExt

CONSTANTS
  LineCount,     \* bound: lines the device writes
  CrashLine,     \* lines of a crash or an ANR
  BlankLine,     \* lines whose tag is blank, which the schema refuses
  SegmentLimit,  \* records a segment may hold
  MaxStreams,    \* bound: streams started
  MaxTicks,      \* bound: changes of the clock's millisecond
  EndsInLine,    \* whether the output may end within a line
  PauseMayFail,  \* whether the pause for an incident may fail
  HostMayCrash   \* whether the server may go down by itself

ASSUME LogcatAssumption ==
  /\ LineCount \in Nat \ {0} /\ SegmentLimit \in Nat \ {0}
  /\ MaxStreams \in Nat /\ MaxTicks \in Nat
  /\ CrashLine \subseteq 1..LineCount /\ BlankLine \subseteq 1..LineCount
  /\ {EndsInLine, PauseMayFail, HostMayCrash} \subseteq BOOLEAN

VARIABLES
  host,        \* the server: up, crashed, or fell, by a rejection
  folder,      \* the directory of the stream exists
  segments,    \* its files: [index, kind] -> texts
  child,       \* adb logcat: none, alive, killed or closed
  listening,   \* the stdout listener is attached
  said,        \* fragments the device has written
  inputBuffer, \* the text after the last newline
  processing,  \* records to append, the first under way
  appending,   \* where the append under way is
  segment,     \* the open segment
  nextIndex,   \* nextSegmentIndex
  sealing,     \* where closeSegmentOnce is, and the bytes it has read
  ending,      \* where stop() and handleProcessClose() are
  waits,       \* records they wait for in flush()
  broken,      \* this.processing is rejected
  closed,      \* events of this stream, in order
  sunk,        \* texts given to recordSink by this stream
  chain,       \* the monitor's records, stamped, the first under way
  pausing,     \* who is having the run paused
  incidents,   \* stamps of the incidents on record
  runs,        \* whether the run is RUNNING with this device ACTIVE
  clock, streams

onDisk     == <<folder, segments>>
pipe       == <<child, listening, said, inputBuffer>>
writer     == <<processing, appending, segment, nextIndex, sealing>>
ends       == <<ending, waits, broken>>
heard      == <<closed, sunk>>
watch      == <<chain, pausing, incidents, runs>>
logcatVars == <<host, onDisk, pipe, writer, ends, heard, watch, clock, streams>>

Ender      == {"stop", "close"}
NoSegment  == [index |-> 0, records |-> 0]
NotSealing == [at |-> "no", bytes |-> <<>>]

Partial(i)   == [index |-> i, kind |-> "partial"]
Raw(i)       == [index |-> i, kind |-> "raw"]
Recovered(i) == [index |-> i, kind |-> "recovered"]

\* The content of a file after an append, which creates it if need be.
Content(p) == IF p \in DOMAIN segments THEN segments[p] ELSE <<>>

With(fs, p, content) ==
  [q \in DOMAIN fs \cup {p} |-> IF q = p THEN content ELSE fs[q]]

Without(fs, p) == [q \in DOMAIN fs \ {p} |-> fs[q]]

Renamed(fs, from, to) == With(Without(fs, from), to, fs[from])

\* The line a text is, if it is a whole one.
WholeLine(text, k) == text = <<2 * k - 1, 2 * k>>

LogcatTypeOK ==
  /\ {folder, listening, broken, runs} \subseteq BOOLEAN
  /\ host \in {"up", "crashed", "fell"}
  /\ \A p \in DOMAIN segments : p.kind \in {"partial", "raw", "recovered"}
  /\ child \in {"none", "alive", "killed", "closed"}
  /\ said \in 0..2 * LineCount
  /\ appending \in {"idle", "seal", "write", "count"}
  /\ segment.records \in 0..SegmentLimit
  /\ sealing.at \in {"no", "read", "rename", "tell"}
  /\ ending \in [Ender -> {"idle", "flush", "join", "done", "failed"}]
  /\ waits \in [Ender -> Nat]
  /\ pausing \subseteq {"monitor", "operator"}
  /\ incidents \subseteq 0..MaxTicks + MaxStreams

-----------------------------------------------------------------------------
(* The memory of a stream that has not started, which is also what is left *)
(* of it when the server goes down.                                        *)
StreamInit ==
  /\ child = "none" /\ listening = FALSE /\ inputBuffer = <<>>
  /\ processing = <<>> /\ appending = "idle" /\ segment = NoSegment
  /\ nextIndex = 1 /\ sealing = NotSealing
  /\ ending = [h \in Ender |-> "idle"] /\ waits = [h \in Ender |-> 0]
  /\ broken = FALSE /\ closed = <<>> /\ sunk = <<>>

LogcatInit ==
  /\ host = "up" /\ folder = FALSE /\ segments = <<>> /\ said = 0
  /\ StreamInit
  /\ chain = <<>> /\ pausing = {} /\ incidents = {} /\ runs = FALSE
  /\ clock = 0 /\ streams = 0

(* The process is gone, the files and the rows stay.                       *)
Down(how) ==
  /\ host' = how
  /\ child' = "none" /\ listening' = FALSE /\ inputBuffer' = <<>>
  /\ processing' = <<>> /\ appending' = "idle" /\ segment' = NoSegment
  /\ nextIndex' = 1 /\ sealing' = NotSealing
  /\ ending' = [h \in Ender |-> "idle"] /\ waits' = [h \in Ender |-> 0]
  /\ broken' = FALSE /\ closed' = <<>> /\ sunk' = <<>>
  /\ chain' = <<>> /\ pausing' = {}

\* A rejection that nobody handles.
Fall == Down("fell")

(* The promise chain of the records is rejected.  Whoever waits for its    *)
(* last link gets the error: stop() hands it to its worker, which goes on; *)
(* nothing waits for handleProcessClose().                                 *)
Reject ==
  IF /\ ending["stop"] = "flush" /\ waits["stop"] = Len(processing)
     /\ ending["close"] # "flush"
  THEN /\ ending' = [ending EXCEPT !["stop"] = "failed"]
       /\ broken' = TRUE
       /\ processing' = <<>> /\ appending' = "idle"
       /\ UNCHANGED <<host, pipe, segment, nextIndex, sealing, waits, heard,
                      chain, pausing>>
  ELSE Fall /\ UNCHANGED said

-----------------------------------------------------------------------------
(* start(): what a former server left half written is renamed and          *)
(* announced, and the numbering goes on after the names that have a dot    *)
(* behind "raw" (recoverPartials, findNextSegmentIndex).                   *)
Left == {p.index : p \in {q \in DOMAIN segments : q.kind = "partial"}}

Swept ==
  [p \in {q \in DOMAIN segments : q.kind # "partial"}
         \cup {Recovered(i) : i \in Left} |->
     IF p.kind = "recovered" /\ p.index \in Left
     THEN segments[Partial(p.index)] ELSE segments[p]]

NextFreeIndex ==
  LET taken == {p.index : p \in {q \in DOMAIN Swept : q.kind # "raw"}}
  IN  Max(taken \cup {0}) + 1

\* Blank lines are not counted.
CountOf(texts) == Len(SelectSeq(texts, LAMBDA t : t # <<>>))

\* Announced in the order the directory lists them in.
RecoveryEvents(order) ==
  [k \in DOMAIN order |->
     [file |-> Recovered(order[k]), digest |-> segments[Partial(order[k])],
      count |-> CountOf(segments[Partial(order[k])])]]

\* A worker has a stream of its own; the former one is over by then.
Settled ==
  /\ child \in {"none", "closed"}
  /\ ending["stop"] # "flush" /\ ending["stop"] # "join"
  /\ ending["close"] # "flush" /\ ending["close"] # "join"
  /\ processing = <<>> /\ sealing = NotSealing

SpawnLogcat == child' = "alive"

StartStream ==
  /\ streams < MaxStreams /\ said < 2 * LineCount
  /\ Settled /\ pausing = {}
  /\ host # "up" \/ ~runs
  /\ host' = "up" /\ folder' = TRUE /\ segments' = Swept
  /\ nextIndex' = NextFreeIndex
  /\ \E order \in Seqs!SetToSeqs(Left) : closed' = RecoveryEvents(order)
  /\ sunk' = <<>>
  /\ SpawnLogcat /\ listening' = TRUE /\ inputBuffer' = <<>>
  /\ said' = IF said % 2 = 1 THEN said + 1 ELSE said
  /\ processing' = <<>> /\ appending' = "idle" /\ segment' = NoSegment
  /\ sealing' = NotSealing
  /\ ending' = [h \in Ender |-> "idle"] /\ waits' = [h \in Ender |-> 0]
  /\ broken' = FALSE
  /\ runs' = TRUE /\ streams' = streams + 1
  /\ clock' = clock + 1
  /\ UNCHANGED <<chain, pausing, incidents>>

(* A chunk of output.  The listener only splits and queues, so a chunk of  *)
(* several fragments is as many chunks (handleChunk).                      *)
HandleChunk ==
  /\ child = "alive" /\ listening /\ said < 2 * LineCount
  /\ said' = said + 1
  /\ LET text == Append(inputBuffer, said + 1)
     IN  IF (said + 1) % 2 = 1
         THEN inputBuffer' = text /\ UNCHANGED processing
         ELSE /\ inputBuffer' = <<>>
              /\ processing' =
                   Append(processing, [text |-> text, late |-> FALSE])
  /\ UNCHANGED <<host, onDisk, child, listening, appending, segment, nextIndex,
                 sealing, ends, heard, watch, clock, streams>>

\* The bound on where the output ends.
MayEndHere == EndsInLine \/ inputBuffer = <<>>

\* What is left of the child's output is discarded.
KillLogcat == child' = IF child = "alive" THEN "killed" ELSE child

(* stop(), on its way to flush(): listeners off, the child killed.  The    *)
(* listener for the end of the child stays on all the same: its remover is *)
(* empty.                                                                  *)
Stopping ==
  /\ listening' = FALSE
  /\ KillLogcat
  /\ ending' = [ending EXCEPT !["stop"] = "flush"]
  /\ waits' = [waits EXCEPT !["stop"] = Len(processing)]

\* The workers are stopped first, if they have not been.
StopWorkers ==
  IF ending["stop"] = "idle" /\ child # "none" THEN Stopping
  ELSE UNCHANGED <<listening, child, ending, waits>>

\* The operator has the run paused.
StopStream ==
  /\ host = "up" /\ runs /\ "operator" \notin pausing /\ MayEndHere
  /\ StopWorkers
  /\ pausing' = pausing \cup {"operator"}
  /\ UNCHANGED <<host, onDisk, said, inputBuffer, writer, broken, heard, chain,
                 incidents, runs, clock, streams>>

\* A pause whose workers did not stop is refused; the next one finds none.
OperatorPauses ==
  /\ "operator" \in pausing /\ ending["stop"] \notin {"flush", "join"}
  /\ pausing' = pausing \ {"operator"}
  /\ runs' = FALSE \/ (ending["stop"] = "failed" /\ UNCHANGED runs)
  /\ UNCHANGED <<host, onDisk, pipe, writer, ends, heard, chain, incidents,
                 clock, streams>>

\* Mutant: the rest of the buffer is queued even when there is none.
HandleProcessCloseAlways ==
  /\ child \in {"alive", "killed"} /\ MayEndHere
  /\ child' = "closed"
  /\ inputBuffer' = <<>>
  /\ processing' = Append(processing, [text |-> <<>>, late |-> TRUE])
  /\ ending' = [ending EXCEPT !["close"] = "flush"]
  /\ waits' = [waits EXCEPT !["close"] = Len(processing')]
  /\ UNCHANGED <<host, onDisk, listening, said, appending, segment, nextIndex,
                 sealing, broken, heard, watch, clock, streams>>

(* The child has ended, killed or by itself.  What stands in the buffer is *)
(* queued as a record that reads the buffer when its turn comes, and the   *)
(* buffer is emptied at once (handleProcessClose).                         *)
HandleProcessClose ==
  /\ child \in {"alive", "killed"} /\ MayEndHere
  /\ child' = "closed"
  /\ inputBuffer' = <<>>
  /\ processing' = IF inputBuffer = <<>> THEN processing
                   ELSE Append(processing, [text |-> <<>>, late |-> TRUE])
  /\ ending' = [ending EXCEPT !["close"] = "flush"]
  /\ waits' = [waits EXCEPT !["close"] = Len(processing')]
  /\ UNCHANGED <<host, onDisk, listening, said, appending, segment, nextIndex,
                 sealing, broken, heard, watch, clock, streams>>

-----------------------------------------------------------------------------
(* appendRecord(), up to its first await: the record goes to the sink and  *)
(* a segment is opened, or the full one closed first.                      *)
HeadText == IF Head(processing).late THEN inputBuffer ELSE Head(processing).text

IsBlank(text) == \E k \in BlankLine : WholeLine(text, k)
IsCrash(text) == \E k \in CrashLine : WholeLine(text, k)

\* By records, or by age: a segment of one record may be old.
Full(expired) ==
  segment.records > 0 /\ (segment.records >= SegmentLimit \/ expired)

SealNow ==
  IF sealing.at = "no" THEN sealing' = [sealing EXCEPT !.at = "read"]
  ELSE UNCHANGED sealing

AppendBegins(expired) ==
  /\ appending = "idle" /\ processing # <<>> /\ ~IsBlank(HeadText)
  /\ sunk' = Append(sunk, HeadText)
  /\ chain' = IF IsCrash(HeadText) THEN Append(chain, clock) ELSE chain
  /\ \/ /\ segment = NoSegment
        /\ segment' = [index |-> nextIndex, records |-> 0]
        /\ nextIndex' = nextIndex + 1
        /\ appending' = "write"
        /\ UNCHANGED sealing
     \/ /\ segment # NoSegment /\ ~Full(expired)
        /\ appending' = "write"
        /\ UNCHANGED <<segment, nextIndex, sealing>>
     \/ /\ segment # NoSegment /\ Full(expired)
        /\ appending' = "seal"
        /\ SealNow
        /\ UNCHANGED <<segment, nextIndex>>
  /\ UNCHANGED <<host, onDisk, pipe, processing, ends, closed, pausing,
                 incidents, runs, clock, streams>>

\* The schema refuses the record before anything is done with it.
AppendRefused ==
  /\ appending = "idle" /\ processing # <<>> /\ IsBlank(HeadText)
  /\ Reject
  /\ UNCHANGED <<onDisk, incidents, runs, clock, streams>>

(* appendFile() to the path the segment had when it was called.            *)
AppendWrites ==
  /\ appending = "write" /\ segment # NoSegment /\ folder
  /\ LET p == Partial(segment.index)
     IN  segments' = With(segments, p, Append(Content(p), Seqs!Last(sunk)))
  /\ appending' = "count"
  /\ UNCHANGED <<host, folder, pipe, processing, segment, nextIndex, sealing,
                 ends, heard, watch, clock, streams>>

\* The segment was sealed and forgotten while the file was being opened.
AppendWritesAfresh ==
  /\ appending = "write" /\ segment = NoSegment /\ folder
  /\ LET p == Partial(nextIndex - 1)
     IN  segments' = With(segments, p, Append(Content(p), Seqs!Last(sunk)))
  /\ appending' = "count"
  /\ UNCHANGED <<host, folder, pipe, processing, segment, nextIndex, sealing,
                 ends, heard, watch, clock, streams>>

\* The lease was released and the directory with it.
AppendFails ==
  /\ appending = "write" /\ ~folder
  /\ Reject
  /\ UNCHANGED <<onDisk, incidents, runs, clock, streams>>

AppendEnds ==
  /\ appending = "count" /\ segment # NoSegment
  /\ segment' = [segment EXCEPT !.records = @ + 1]
  /\ processing' = Tail(processing)
  /\ appending' = "idle"
  /\ waits' = [h \in Ender |-> IF waits[h] = 0 THEN 0 ELSE waits[h] - 1]
  /\ UNCHANGED <<host, onDisk, pipe, nextIndex, sealing, ending, broken, heard,
                 watch, clock, streams>>

\* "Logcat segment was not opened."
AppendMissesItsSegment ==
  /\ appending = "count" /\ segment = NoSegment
  /\ Reject
  /\ UNCHANGED <<onDisk, incidents, runs, clock, streams>>

-----------------------------------------------------------------------------
\* Mutant: a segment is sealed without waiting for the records queued.
CloseUnflushed(h) ==
  /\ ending[h] = "flush" /\ ~broken
  /\ \/ /\ sealing.at # "no"
        /\ ending' = [ending EXCEPT ![h] = "join"]
        /\ UNCHANGED <<segment, sealing>>
     \/ /\ sealing.at = "no" /\ segment.records = 0
        /\ segment' = NoSegment
        /\ ending' = [ending EXCEPT ![h] = "done"]
        /\ UNCHANGED sealing
     \/ /\ sealing.at = "no" /\ segment.records > 0
        /\ sealing' = [sealing EXCEPT !.at = "read"]
        /\ ending' = [ending EXCEPT ![h] = "join"]
        /\ UNCHANGED segment
  /\ UNCHANGED <<host, onDisk, pipe, processing, appending, nextIndex, waits,
                 broken, heard, watch, clock, streams>>

(* flush() is over for a handler, and closeSegment() begins: it joins the  *)
(* closing under way, or begins one, or finds nothing to seal.             *)
CloseSegment(h) ==
  /\ ending[h] = "flush" /\ waits[h] = 0 /\ ~broken
  /\ \/ /\ sealing.at # "no"
        /\ ending' = [ending EXCEPT ![h] = "join"]
        /\ UNCHANGED <<segment, sealing>>
     \/ /\ sealing.at = "no" /\ segment.records = 0
        /\ segment' = NoSegment
        /\ ending' = [ending EXCEPT ![h] = "done"]
        /\ UNCHANGED sealing
     \/ /\ sealing.at = "no" /\ segment.records > 0
        /\ sealing' = [sealing EXCEPT !.at = "read"]
        /\ ending' = [ending EXCEPT ![h] = "join"]
        /\ UNCHANGED segment
  /\ UNCHANGED <<host, onDisk, pipe, processing, appending, nextIndex, waits,
                 broken, heard, watch, clock, streams>>

\* handleProcessClose() after stop() was told of the rejection.
CloseRejects ==
  /\ ending["close"] = "flush" /\ waits["close"] = 0 /\ broken
  /\ Fall
  /\ UNCHANGED <<onDisk, said, incidents, runs, clock, streams>>

(* closeSegmentOnce(): read, rename, announce.                             *)
SealReads ==
  /\ sealing.at = "read" /\ Partial(segment.index) \in DOMAIN segments
  /\ sealing' = [at |-> "rename", bytes |-> segments[Partial(segment.index)]]
  /\ UNCHANGED <<host, onDisk, pipe, processing, appending, segment, nextIndex,
                 ends, heard, watch, clock, streams>>

SealRenames ==
  /\ sealing.at = "rename" /\ Partial(segment.index) \in DOMAIN segments
  /\ segments' = Renamed(segments, Partial(segment.index), Raw(segment.index))
  /\ sealing' = [sealing EXCEPT !.at = "tell"]
  /\ UNCHANGED <<host, folder, pipe, processing, appending, segment, nextIndex,
                 ends, heard, watch, clock, streams>>

\* Everyone who waited for it goes on, before any other event is served.
SealTells ==
  /\ sealing.at = "tell"
  /\ closed' = Append(closed, [file |-> Raw(segment.index),
                               digest |-> sealing.bytes,
                               count |-> segment.records])
  /\ sealing' = NotSealing
  /\ ending' =
       [h \in Ender |-> IF ending[h] = "join" THEN "done" ELSE ending[h]]
  /\ IF appending = "seal"
     THEN /\ segment' = [index |-> nextIndex, records |-> 0]
          /\ nextIndex' = nextIndex + 1
          /\ appending' = "write"
     ELSE segment' = NoSegment /\ UNCHANGED <<nextIndex, appending>>
  /\ UNCHANGED <<host, onDisk, pipe, processing, waits, broken, sunk, watch,
                 clock, streams>>

\* The directory went while the end of the child was being handled.
SealFails ==
  /\ sealing.at \in {"read", "rename"}
  /\ Partial(segment.index) \notin DOMAIN segments
  /\ Fall
  /\ UNCHANGED <<onDisk, said, incidents, runs, clock, streams>>

\* The worker releases its lease once stop() has answered.
Discard ==
  /\ host = "up" /\ ending["stop"] \in {"done", "failed"} /\ folder
  /\ folder' = FALSE /\ segments' = <<>>
  /\ UNCHANGED <<host, pipe, writer, ends, heard, watch, clock, streams>>

-----------------------------------------------------------------------------
(* The monitor takes its next record: the run must be RUNNING with the     *)
(* device ACTIVE.  An incident with the same id and other content makes    *)
(* record() throw (handleRecord, incident-repository.ts).                  *)
MonitorDrops ==
  /\ chain # <<>> /\ "monitor" \notin pausing /\ ~runs
  /\ chain' = Tail(chain)
  /\ UNCHANGED <<host, onDisk, pipe, writer, ends, heard, pausing, incidents,
                 runs, clock, streams>>

MonitorRecords ==
  /\ chain # <<>> /\ "monitor" \notin pausing /\ runs /\ MayEndHere
  /\ Head(chain) \notin incidents
  /\ incidents' = incidents \cup {Head(chain)}
  /\ pausing' = pausing \cup {"monitor"}
  /\ StopWorkers
  /\ UNCHANGED <<host, onDisk, said, inputBuffer, writer, broken, heard, chain,
                 runs, clock, streams>>

MonitorCollides ==
  /\ chain # <<>> /\ "monitor" \notin pausing /\ runs
  /\ Head(chain) \in incidents
  /\ Fall
  /\ UNCHANGED <<onDisk, said, incidents, runs, clock, streams>>

\* The records queued behind it are dropped before the run can be resumed.
MonitorPauses ==
  /\ "monitor" \in pausing /\ ending["stop"] \notin {"flush", "join"}
  /\ \/ /\ ending["stop"] # "failed"
        /\ runs' = FALSE /\ chain' = <<>>
     \/ /\ PauseMayFail \/ ending["stop"] = "failed"
        /\ chain' = Tail(chain)
        /\ UNCHANGED runs
  /\ pausing' = pausing \ {"monitor"}
  /\ UNCHANGED <<host, onDisk, pipe, writer, ends, heard, incidents, clock,
                 streams>>

LogcatTick ==
  /\ clock < MaxTicks
  /\ clock' = clock + 1
  /\ UNCHANGED <<host, onDisk, pipe, writer, ends, heard, watch, streams>>

HostCrashes ==
  /\ HostMayCrash /\ host = "up" /\ child # "none"
  /\ Down("crashed")
  /\ UNCHANGED <<onDisk, said, incidents, runs, clock, streams>>

LogcatNext ==
  \/ StartStream \/ HandleChunk \/ StopStream \/ OperatorPauses
  \/ HandleProcessClose
  \/ \E expired \in BOOLEAN : AppendBegins(expired)
  \/ AppendRefused \/ AppendWrites \/ AppendWritesAfresh \/ AppendFails
  \/ AppendEnds \/ AppendMissesItsSegment
  \/ \E h \in Ender : CloseSegment(h)
  \/ CloseRejects \/ SealReads \/ SealRenames \/ SealTells \/ SealFails
  \/ Discard \/ MonitorDrops \/ MonitorRecords \/ MonitorCollides
  \/ MonitorPauses \/ LogcatTick \/ HostCrashes

LogcatSpec == LogcatInit /\ [][LogcatNext]_logcatVars

-----------------------------------------------------------------------------
\* The output of the stream did not end within a line.
EndedWhole == child = "alive" \/ said % 2 = 0

SegmentsMatch ==
  \A k \in DOMAIN closed :
    LET e == closed[k]
    IN  /\ e.file \in DOMAIN segments
        /\ segments[e.file] = e.digest
        /\ e.count = IF e.file.kind = "raw" THEN Len(e.digest)
                     ELSE CountOf(e.digest)

(* Once stop() has answered and the end of the child is dealt with, every  *)
(* record of the stream is in one sealed segment, in order, and no partial *)
(* one is left (stop, handleProcessClose, appendRecord).                   *)
StoppedIsSealed ==
  host = "up" /\ folder /\ ending["stop"] = "done" /\ Settled /\ EndedWhole =>
    /\ Seqs!FlattenSeq([k \in DOMAIN closed |->
                          IF closed[k].file.kind = "raw" THEN segments[closed[k].file]
                          ELSE <<>>]) = sunk
    /\ \A p \in DOMAIN segments : p.kind # "partial"

(* A segment that was announced is the file of that name, with the digest  *)
(* and the number of records announced, whoever of stop(), the end of the  *)
(* child and a rotation sealed it (closeSegmentOnce).                      *)
SegmentsAreAsAnnounced == folder /\ EndedWhole => SegmentsMatch

(* The same, wherever the output ends (closeSegment, handleProcessClose).  *)
(* The code breaks it: README, Disagreements without a run.                *)
ClosingIsIdempotent == folder => SegmentsMatch

(* The log of a device takes the server down in three cases only: it has a *)
(* line with a blank tag, it ends within a line, or a crash line comes     *)
(* again in the millisecond of one whose pause failed (handleChunk,        *)
(* handleProcessClose, handleRecord).                                      *)
ServerOutlivesTheLog ==
  host = "fell" =>
    \/ \E k \in BlankLine : 2 * k <= said
    \/ said % 2 = 1
    \/ runs /\ incidents # {}

(* The log is kept, and the server with it: what was read is in the sealed *)
(* segments, each of which is what it was announced as, and no line that   *)
(* is whole and tagged ends the server.                                    *)
LogIsKept ==
  LogcatTypeOK /\ SegmentsAreAsAnnounced /\ StoppedIsSealed /\ ServerOutlivesTheLog

(* Segments sealed for a former stream in the same directory are not       *)
(* replaced by those of a later one (findNextSegmentIndex).                *)
(* The code breaks it: README, Disagreements without a run.                *)
SealedIsKept ==
  [][\A p \in DOMAIN segments :
       p.kind = "raw" /\ folder' => p \in DOMAIN segments'
                                    /\ segments'[p] = segments[p]]_logcatVars
=============================================================================
