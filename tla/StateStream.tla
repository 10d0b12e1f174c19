----------------------------- MODULE StateStream -----------------------------
(***************************************************************************)
(* How the Devices page keeps up with the devices: the registry and the    *)
(* UID service number their events and the state gateway sends them down   *)
(* one WebSocket (device-registry.ts, uid-service.ts, state-gateway.ts);   *)
(* the console reads the whole list again for every event that is about a  *)
(* device (state/stream.ts, App.tsx, DevicesPage.tsx).                     *)
(***************************************************************************)
EXTENDS Naturals, Sequences, FiniteSets

CONSTANTS
  Device,        \* the devices
  MaxChanges,    \* bound: changes of a device
  MaxUidEvents,  \* bound: events of the UID service
  MaxReads       \* bound: requests under way

ASSUME StateStreamAssumption ==
  MaxChanges \in Nat /\ MaxUidEvents \in Nat /\ MaxReads \in Nat

VARIABLES
  record,    \* the record of each device, by the number of its changes
  eventSeq,  \* DeviceRegistry.sequence
  uidSeq,    \* UidService.eventSequence
  stream,    \* the WebSocket: "none", "open" or "closed"
  wire,      \* events on their way to the console
  list,      \* DevicesPage: whether it is shown, its devices, loading, error;
             \* late: an answer was applied that a later list had overtaken (history)
  reads      \* its requests, in the order they were sent, and which of them a
             \* later list has overtaken (history)

streamVars == <<record, eventSeq, uidSeq, stream, wire, list, reads>>

NoDevices == [d \in Device |-> 0]
NotShown == [shown |-> FALSE, devices |-> NoDevices, loading |-> FALSE, error |-> FALSE,
             late |-> FALSE]
Read == [kind |-> "list", device |-> "none", answer |-> "none", devices |-> NoDevices,
         overtaken |-> FALSE]

StreamInit ==
  /\ record = NoDevices
  /\ eventSeq = 0
  /\ uidSeq = 0
  /\ stream = "none"
  /\ wire = <<>>
  /\ list = NotShown
  /\ reads = <<>>
-----------------------------------------------------------------------------
(* The server.                                                             *)

Event(type, seq) == [type |-> type, eventSeq |-> seq]

\* The events a subscriber of the registry receives of one change.
Events(kinds) == [i \in DOMAIN kinds |-> Event(kinds[i], eventSeq + i)]

\* What a subscriber that is there now has been sent after these events.
Sent(events) == IF stream = "open" THEN wire \o events ELSE wire

\* A poll found the device changed, connected or gone.
DeviceChanges(d) ==
  /\ record[d] < MaxChanges
  /\ \E kinds \in {<<"device.upserted">>, <<"device.connectionChanged">>,
                   <<"device.upserted", "device.connectionChanged">>} :
       /\ eventSeq' = eventSeq + Len(kinds)
       /\ wire' = Sent(Events(kinds))
  /\ record' = [record EXCEPT ![d] = @ + 1]
  /\ UNCHANGED <<uidSeq, stream, list, reads>>

\* The state of a bridge or a UID changed; the list does not show it.
UidChanges ==
  /\ uidSeq < MaxUidEvents
  /\ uidSeq' = uidSeq + 1
  /\ wire' = Sent(<<Event("uid.updated", uidSeq + 1)>>)
  /\ UNCHANGED <<record, eventSeq, stream, list, reads>>

\* The first health report opens the stream, and the gateway sends the
\* snapshot and subscribes in one go.
OpenStream ==
  /\ stream = "none"
  /\ stream' = "open"
  /\ wire' = <<Event("snapshot", eventSeq)>>
  /\ UNCHANGED <<record, eventSeq, uidSeq, list, reads>>

\* The connection is lost; nobody opens another.
CloseStream ==
  /\ stream = "open"
  /\ stream' = "closed"
  /\ \E n \in 0 .. Len(wire) : wire' = SubSeq(wire, 1, n)
  /\ UNCHANGED <<record, eventSeq, uidSeq, list, reads>>
-----------------------------------------------------------------------------
(* The page.                                                               *)

\* Mutant: only deltas read the list again, not the snapshot.
RefreshesOnDeltas(e) == e.type \in {"device.upserted", "device.connectionChanged", "uid.updated"}

\* Events with a device, with devices or with a UID raise refreshKey.
RefreshesOn(e) ==
  e.type \in {"snapshot", "device.upserted", "device.connectionChanged", "uid.updated"}

\* load of the page p
Load(p) ==
  /\ reads' = Append(reads, Read)
  /\ list' = [p EXCEPT !.shown = TRUE, !.loading = TRUE]

\* A page that is not shown reads nothing.
ReceiveEvent ==
  /\ wire # <<>> /\ Len(reads) < MaxReads
  /\ wire' = Tail(wire)
  /\ IF RefreshesOn(Head(wire)) /\ list.shown THEN Load(list) ELSE UNCHANGED <<list, reads>>
  /\ UNCHANGED <<record, eventSeq, uidSeq, stream>>

\* The page is opened, or its button pressed, which waits for a reading.
ShowDevices ==
  /\ Len(reads) < MaxReads
  /\ ~list.loading
  /\ Load(list)
  /\ UNCHANGED <<record, eventSeq, uidSeq, stream, wire>>

LeaveDevices ==
  /\ list.shown
  /\ list' = NotShown
  /\ reads' = <<>>
  /\ UNCHANGED <<record, eventSeq, uidSeq, stream, wire>>

\* saveTags
SaveTags(d) ==
  /\ list.shown /\ list.devices[d] > 0 /\ Len(reads) < MaxReads
  /\ reads' = Append(reads, [Read EXCEPT !.kind = "tags", !.device = d])
  /\ UNCHANGED <<record, eventSeq, uidSeq, stream, wire, list>>

\* Requests are handled, and their answers arrive, in any order.
ServeList(i) ==
  /\ reads[i].kind = "list" /\ reads[i].answer = "none"
  /\ reads' = [reads EXCEPT ![i].answer = "ok", ![i].devices = record]
  /\ UNCHANGED <<record, eventSeq, uidSeq, stream, wire, list>>

\* setTags writes the record and emits an event; the answer is the record.
ServeTags(i) ==
  /\ reads[i].kind = "tags" /\ reads[i].answer = "none"
  /\ LET d == reads[i].device
         after == [record EXCEPT ![d] = @ + 1]
     IN /\ record[d] < MaxChanges
        /\ record' = after
        /\ reads' = [reads EXCEPT ![i].answer = "ok", ![i].devices = after]
  /\ eventSeq' = eventSeq + 1
  /\ wire' = Sent(Events(<<"device.upserted">>))
  /\ UNCHANGED <<uidSeq, stream, list>>

\* A request is refused, or its answer lost.
FailRead(i) ==
  /\ reads[i].answer = "none"
  /\ reads' = [reads EXCEPT ![i].answer = "failed"]
  /\ UNCHANGED <<record, eventSeq, uidSeq, stream, wire, list>>

\* What is left when answer i arrives: a list overtakes the requests sent before it.
Left(i) ==
  LET marked == [j \in DOMAIN reads |->
        [reads[j] EXCEPT !.overtaken = @ \/ (reads[i].kind = "list" /\ j < i)]]
  IN SubSeq(marked, 1, i - 1) \o SubSeq(marked, i + 1, Len(marked))

\* An answer replaces the list or one device of it, whenever it comes.
ReceiveRead(i) ==
  LET c == reads[i]
      late == c.overtaken \/ (c.kind = "tags" /\ list.late)
  IN
  /\ c.answer # "none"
  /\ reads' = Left(i)
  /\ list' = CASE c.kind = "list" /\ c.answer = "ok" ->
                    [list EXCEPT !.devices = c.devices, !.loading = FALSE, !.error = FALSE,
                                 !.late = late]
               [] c.kind = "list" /\ c.answer = "failed" ->
                    [list EXCEPT !.loading = FALSE, !.error = TRUE, !.late = late]
               [] c.kind = "tags" /\ c.answer = "failed" ->
                    [list EXCEPT !.error = TRUE, !.late = late]
               [] OTHER ->
                    [list EXCEPT !.devices[c.device] = c.devices[c.device], !.late = late]
  /\ UNCHANGED <<record, eventSeq, uidSeq, stream, wire>>

StreamNext ==
  \/ \E d \in Device : DeviceChanges(d) \/ SaveTags(d)
  \/ UidChanges \/ OpenStream \/ CloseStream
  \/ ReceiveEvent \/ ShowDevices \/ LeaveDevices
  \/ \E i \in DOMAIN reads : ServeList(i) \/ ServeTags(i) \/ FailRead(i) \/ ReceiveRead(i)

StreamSpec == StreamInit /\ [][StreamNext]_streamVars
-----------------------------------------------------------------------------
StreamTypeOK ==
  /\ record \in [Device -> 0 .. MaxChanges]
  /\ stream \in {"none", "open", "closed"}
  /\ list.devices \in [Device -> 0 .. MaxChanges]
  /\ \A i \in DOMAIN reads : reads[i].answer \in {"none", "ok", "failed"}

\* When nothing is under way, an open stream and no error shown mean that the
\* list is the registry's, unless the answer shown last was one that a list
\* asked for later had overtaken: no change falls between the reading of the
\* list, the snapshot and the subscription (state-gateway.ts:30-42,
\* App.tsx:87-94), in whatever order requests are handled and answered.
SettledListIsCurrent ==
  list.shown /\ stream = "open" /\ wire = <<>> /\ reads = <<>> /\ ~list.error /\ ~list.late
    => list.devices = record

\* So also when an answer was overtaken.
\* The code breaks it: README, Disagreements without a run.
SettledListIsAlwaysCurrent ==
  list.shown /\ stream = "open" /\ wire = <<>> /\ reads = <<>> /\ ~list.error
    => list.devices = record

\* "events with monotonically increasing eventSeq" (m1 plan, line 113): the
\* events on one stream carry increasing numbers.
\* The code breaks it: README, Disagreements without a run.
EventSeqGrows ==
  \A i, j \in DOMAIN wire : i < j => wire[i].eventSeq < wire[j].eventSeq
=============================================================================
