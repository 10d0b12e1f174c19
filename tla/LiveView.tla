------------------------------ MODULE LiveView ------------------------------
(***************************************************************************)
(* The live picture of a device: the coordinator that keeps one view       *)
(* provider per online device (runtime-video.ts), the provider, which      *)
(* tries scrcpy first and falls back to screenshots (failover-provider.ts, *)
(* tango-scrcpy-provider.ts, adb-scrcpy-transport.ts, mjpeg-provider.ts),  *)
(* the gateway that feeds a WebSocket from it (video-gateway.ts) and the   *)
(* viewport of the Sessions page that draws (VideoViewport.tsx).           *)
(*                                                                         *)
(* Starting a provider takes seconds.  Meanwhile the device may come and   *)
(* go, other viewers may ask, and the browser may look elsewhere.          *)
(* Providers and sockets are numbered in the order of their creation.      *)
(***************************************************************************)
EXTENDS Naturals, Sequences, FiniteSets

CONSTANTS
  ViewSerial,    \* the devices
  MaxProviders,  \* bound: providers ever created
  MaxSockets     \* bound: sockets ever opened

ASSUME LiveViewAssumption == MaxProviders \in Nat /\ MaxSockets \in Nat

VARIABLES
  isOnline,   \* what the registry last told the coordinator of each device
  closing,    \* whether the coordinator was closed
  providers,  \* RuntimeVideoCoordinator.providers, 0 for none
  prov,       \* the providers created so far, in the map or forgotten
  socket,     \* the sockets opened so far, as the server sees them
  view,       \* the viewport
  drawing     \* pictures the browser is decoding

liveVars == <<isOnline, closing, providers, prov, socket, view, drawing>>

Created == DOMAIN prov
Opened == DOMAIN socket
-----------------------------------------------------------------------------
\* A new FailoverViewProvider with its TangoScrcpyViewProvider and
\* MjpegViewProvider.  step is the await its start is in; fed are the
\* listeners that are subscribed to the active provider.
NewProvider(s) ==
  [serial |-> s, state |-> "STOPPED", active |-> "none", step |-> "idle", caller |-> 0,
   tango |-> "STOPPED", transport |-> "closed", shots |-> "STOPPED",
   listeners |-> {}, fed |-> {}]

\* FailoverViewProvider.state
StateOf(v) ==
  CASE v.active = "primary" -> v.tango
    [] v.active = "fallback" -> v.shots
    [] OTHER -> v.state

\* Mutant: TangoScrcpyViewProvider.stop leaves its transport open.
TransportLeft(v) == v

\* AdbScrcpyVideoTransport.close: socket, server process and forward are gone.
TransportClosed(v) == [v EXCEPT !.transport = "closed"]

\* FailoverViewProvider.stop: it stops the active provider, and none while a
\* first start is under way.
Stopped(v) ==
  LET quiet == [v EXCEPT !.active = "none", !.state = "STOPPED", !.fed = {}]
  IN CASE v.active = "primary" -> TransportClosed([quiet EXCEPT !.tango = "STOPPED"])
       [] v.active = "fallback" -> [quiet EXCEPT !.shots = "STOPPED"]
       [] OTHER -> quiet

\* FailoverViewProvider.activate, with the subscription of the caller, if any.
Activated(v, which, k) ==
  [v EXCEPT !.active = which, !.step = "idle", !.caller = 0,
            !.state = IF which = "primary" THEN "READY" ELSE "DEGRADED",
            !.listeners = @ \cup {k}, !.fed = v.listeners \cup {k}]

LiveInit ==
  /\ isOnline = [s \in ViewSerial |-> FALSE]
  /\ closing = FALSE
  /\ providers = [s \in ViewSerial |-> 0]
  /\ prov = <<>>
  /\ socket = <<>>
  /\ view = [serial |-> "none", socket |-> 0, status |-> "idle", picture |-> "none",
             afterError |-> FALSE]
  /\ drawing = {}
-----------------------------------------------------------------------------
(* The coordinator.                                                        *)

\* handleDevice for a device that came online.
DeviceOnline(s) ==
  /\ ~closing /\ ~isOnline[s] /\ Len(prov) < MaxProviders
  /\ isOnline' = [isOnline EXCEPT ![s] = TRUE]
  /\ prov' = Append(prov, NewProvider(s))
  /\ providers' = [providers EXCEPT ![s] = Len(prov) + 1]
  /\ UNCHANGED <<closing, socket, view, drawing>>

\* handleDevice for one that left: its provider is forgotten and told to stop.
DeviceLeft(s) ==
  /\ ~closing /\ isOnline[s]
  /\ isOnline' = [isOnline EXCEPT ![s] = FALSE]
  /\ prov' = [prov EXCEPT ![providers[s]] = Stopped(@)]
  /\ providers' = [providers EXCEPT ![s] = 0]
  /\ UNCHANGED <<closing, socket, view, drawing>>

\* close of the coordinator, when the runtime shuts down.
CloseViews ==
  /\ ~closing
  /\ closing' = TRUE
  /\ providers' = [s \in ViewSerial |-> 0]
  /\ prov' = [p \in Created |-> IF \E s \in ViewSerial : providers[s] = p
                                THEN Stopped(prov[p]) ELSE prov[p]]
  /\ UNCHANGED <<isOnline, socket, view, drawing>>
-----------------------------------------------------------------------------
(* The gateway.                                                            *)

Refused(k) == socket' = [socket EXCEPT ![k].phase = "closed"]

\* The handler of a connection: without a provider, or with one another
\* viewer is starting, it closes the socket; it subscribes to one that runs
\* and otherwise starts it.
ServeSocket(k) ==
  LET p == providers[socket[k].serial] IN
  /\ socket[k].phase = "dialled" /\ ~socket[k].gone
  /\ \/ /\ p = 0
        /\ Refused(k)
        /\ UNCHANGED prov
     \/ /\ p # 0
        /\ prov[p].active # "none" /\ StateOf(prov[p]) \in {"READY", "DEGRADED"}
        /\ prov' = [prov EXCEPT ![p].listeners = @ \cup {k}, ![p].fed = @ \cup {k}]
        /\ socket' = [socket EXCEPT ![k].phase = "subscribed", ![k].provider = p]
     \/ /\ p # 0
        /\ ~(prov[p].active # "none" /\ StateOf(prov[p]) \in {"READY", "DEGRADED"})
        /\ IF prov[p].state = "STARTING"
           THEN /\ Refused(k)
                /\ UNCHANGED prov
           ELSE /\ prov' = [prov EXCEPT ![p].state = "STARTING", ![p].step = "primary",
                                        ![p].caller = k, ![p].tango = "STARTING"]
                /\ socket' = [socket EXCEPT ![k].phase = "awaiting", ![k].provider = p]
  /\ UNCHANGED <<isOnline, closing, providers, view, drawing>>

\* The start returned to the handler, which subscribes and only now listens
\* for the end of the socket.
Subscribed(k) == socket' = [socket EXCEPT ![k].phase = "subscribed"]

\* A socket that ends after its handler listens for that is unsubscribed.
SocketEnds(k) ==
  /\ socket[k].phase = "subscribed" /\ socket[k].gone /\ ~socket[k].goneEarly
  /\ socket' = [socket EXCEPT ![k].phase = "closed"]
  /\ prov' = [prov EXCEPT ![socket[k].provider].listeners = @ \ {k},
                          ![socket[k].provider].fed = @ \ {k}]
  /\ UNCHANGED <<isOnline, closing, providers, view, drawing>>
-----------------------------------------------------------------------------
(* The provider.                                                           *)

\* TangoScrcpyViewProvider.start: the transport opens ...
PrimaryOpens(p) ==
  /\ prov[p].step = "primary" /\ prov[p].transport = "closed"
  /\ prov' = [prov EXCEPT ![p].transport = "running"]
  /\ UNCHANGED <<isOnline, closing, providers, socket, view, drawing>>

\* ... and the first H.264 frame arrives.
PrimaryReady(p) ==
  /\ prov[p].step = "primary" /\ prov[p].transport = "running"
  /\ prov' = [prov EXCEPT ![p] = Activated([@ EXCEPT !.tango = "READY"], "primary", @.caller)]
  /\ Subscribed(prov[p].caller)
  /\ UNCHANGED <<isOnline, closing, providers, view, drawing>>

\* The primary could not open, because of adb or because the transport of an
\* ended stream is open still, or gave no frame in time: it is stopped and
\* the fallback takes its first screenshot.
PrimaryFails(p) ==
  /\ prov[p].step = "primary"
  /\ prov' = [prov EXCEPT ![p] = TransportClosed([@ EXCEPT !.tango = "STOPPED",
                                                  !.step = "fallback", !.shots = "STARTING"])]
  /\ UNCHANGED <<isOnline, closing, providers, socket, view, drawing>>

FallbackReady(p) ==
  /\ prov[p].step = "fallback"
  /\ prov' = [prov EXCEPT ![p] = Activated([@ EXCEPT !.shots = "DEGRADED"], "fallback", @.caller)]
  /\ Subscribed(prov[p].caller)
  /\ UNCHANGED <<isOnline, closing, providers, view, drawing>>

FallbackFails(p) ==
  /\ prov[p].step = "fallback"
  /\ prov' = [prov EXCEPT ![p].shots = "STOPPED", ![p].active = "none", ![p].state = "ERROR",
                          ![p].step = "idle", ![p].caller = 0]
  /\ Refused(prov[p].caller)
  /\ UNCHANGED <<isOnline, closing, providers, view, drawing>>

\* The scrcpy server goes away: consume ends; socket and forward are kept.
StreamEnds(p) ==
  /\ prov[p].transport = "running" /\ prov[p].step # "primary"
  /\ prov' = [prov EXCEPT ![p].transport = "ended", ![p].tango = "ERROR"]
  /\ UNCHANGED <<isOnline, closing, providers, socket, view, drawing>>
-----------------------------------------------------------------------------
(* The viewport.                                                           *)

Decoded(k, kind) == [socket |-> k, kind |-> kind]

\* closeDecoder drops what the H.264 decoder holds; a bitmap under way goes on.
DecoderClosed(pending) == {d \in pending : d.kind = "jpeg"}

\* showError
ViewFails ==
  /\ view' = [view EXCEPT !.status = "error"]
  /\ drawing' = DecoderClosed(drawing)

\* The effect runs again for another serial or another try: the former socket
\* is cancelled and closed, a new one opened.  The new handlers remember the
\* status of the rendering they were made in.
Reopen(s) ==
  LET old == view.socket IN
  /\ Len(socket) < MaxSockets
  /\ socket' = Append([k \in Opened |-> IF k = old
                         THEN [socket[k] EXCEPT !.gone = TRUE,
                                 !.goneEarly = socket[k].phase \in {"dialled", "awaiting"}]
                         ELSE socket[k]],
                      [serial |-> s, phase |-> "dialled", provider |-> 0,
                       gone |-> FALSE, goneEarly |-> FALSE])
  /\ view' = [view EXCEPT !.serial = s, !.socket = Len(socket) + 1, !.status = "connecting",
                          !.afterError = view.status = "error"]
  /\ drawing' = DecoderClosed(drawing)
  /\ UNCHANGED <<isOnline, closing, providers, prov>>

ShowSerial(s) == view.serial # s /\ Reopen(s)
RetryView == view.status = "error" /\ Reopen(view.serial)

\* A frame of the active provider reaches a listener that the browser reads:
\* a screenshot is decoded by createImageBitmap, an H.264 frame by the
\* decoder; one that cannot be decoded shows an error.
Frame(p, k) ==
  /\ k \in prov[p].fed /\ ~socket[k].gone
  /\ prov[p].active = "primary" => prov[p].tango = "READY"
  /\ \/ /\ drawing' = drawing \cup
             {Decoded(k, IF prov[p].active = "primary" THEN "h264" ELSE "jpeg")}
        /\ UNCHANGED view
     \/ ViewFails
  /\ UNCHANGED <<isOnline, closing, providers, prov, socket>>

\* Mutant: drawJpeg does not look at cancelled again after the bitmap is made.
DrawnAnyway(d) == TRUE

\* Whether the effect that asked for a picture is the one of the rendering.
NotCancelled(d) == d.socket = view.socket

\* The picture is ready: it is drawn unless the effect was cancelled.
Draw(d) ==
  /\ d \in drawing
  /\ drawing' = drawing \ {d}
  /\ view' = IF NotCancelled(d)
             THEN [view EXCEPT !.picture = socket[d.socket].serial,
                               !.status = IF d.kind = "jpeg" THEN "degraded" ELSE "ready"]
             ELSE view
  /\ UNCHANGED <<isOnline, closing, providers, prov, socket>>

\* The server closed the socket of the viewport, which says so unless its
\* handlers were made while an error was shown.
ChannelCloses(k) ==
  /\ socket[k].phase = "closed" /\ ~socket[k].gone
  /\ socket' = [socket EXCEPT ![k].gone = TRUE]
  /\ view' = IF k = view.socket /\ ~view.afterError
             THEN [view EXCEPT !.status = "error"] ELSE view
  /\ UNCHANGED <<isOnline, closing, providers, prov, drawing>>
-----------------------------------------------------------------------------
LiveNext ==
  \/ \E s \in ViewSerial : DeviceOnline(s) \/ DeviceLeft(s) \/ ShowSerial(s)
  \/ CloseViews
  \/ RetryView
  \/ \E k \in Opened : ServeSocket(k) \/ SocketEnds(k) \/ ChannelCloses(k)
  \/ \E p \in Created :
       \/ PrimaryOpens(p) \/ PrimaryReady(p) \/ PrimaryFails(p)
       \/ FallbackReady(p) \/ FallbackFails(p) \/ StreamEnds(p)
       \/ \E k \in Opened : Frame(p, k)
  \/ \E d \in drawing : Draw(d)

LiveSpec == LiveInit /\ [][LiveNext]_liveVars
-----------------------------------------------------------------------------
LiveTypeOK ==
  /\ isOnline \in [ViewSerial -> BOOLEAN]
  /\ closing \in BOOLEAN
  /\ providers \in [ViewSerial -> 0 .. MaxProviders]
  /\ \A p \in Created :
       /\ prov[p].state \in {"STOPPED", "STARTING", "READY", "DEGRADED", "ERROR"}
       /\ prov[p].fed \subseteq prov[p].listeners
       /\ prov[p].listeners \subseteq Opened
  /\ \A k \in Opened : socket[k].phase \in {"dialled", "awaiting", "subscribed", "closed"}
  /\ view.status \in {"idle", "connecting", "ready", "degraded", "error"}
  /\ drawing \subseteq [socket : Opened, kind : {"jpeg", "h264"}]

\* While the viewport says that it shows the device, the picture on its
\* canvas is of the device it is set to, however late pictures of an earlier
\* device are decoded (VideoViewport.tsx, cancelled).
PictureIsOfTheSerial ==
  view.status \in {"ready", "degraded"} => view.picture = view.serial

\* A provider takes screenshots only after its scrcpy transport is closed, so
\* that a failed primary leaves no server on the device
\* (FailoverViewProvider.start).
FallbackLeavesNoServer ==
  \A p \in Created : prov[p].shots = "DEGRADED" => prov[p].transport = "closed"

\* What is shown as live is the picture of the device chosen, and one source
\* takes it.
ShownIsLive == LiveTypeOK /\ PictureIsOfTheSerial /\ FallbackLeavesNoServer

\* "two device transports are never left running for one serial"
\* (failover-provider.ts:12-15): neither scrcpy servers nor screenshot timers.
\* The code breaks it: README, Disagreements without a run.
OneTransportPerSerial ==
  \A p, q \in Created :
    /\ prov[p].serial = prov[q].serial
    /\ prov[p].transport = "running" \/ prov[p].shots = "DEGRADED"
    /\ prov[q].transport = "running" \/ prov[q].shots = "DEGRADED"
    => p = q

\* A socket the browser closed is no listener of a provider for good
\* (video-gateway.ts registers the close listener after the await).
\* The code breaks it: README, Disagreements without a run.
GoneSocketsAreUnsubscribed ==
  \A k \in Opened : socket[k].phase = "subscribed" => ~socket[k].goneEarly

\* A viewport whose channel is closed does not say that it is live.
\* The code breaks it: README, Disagreements without a run.
ClosedChannelIsShown ==
  view.socket # 0 /\ socket[view.socket].gone => view.status = "error"
=============================================================================
