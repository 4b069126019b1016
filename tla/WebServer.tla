----------------------------- MODULE WebServer ------------------------------
(* The dashboard's interface (web_server.cpp): which handler a request gets, *)
(* the gate of the ones that change something, what each may answer and the *)
(* call it makes for it, and the mailbox in which /api/knx/write leaves a   *)
(* group telegram for the main task (knx_link.cpp).                         *)
(*                                                                          *)
(* A path is the sequence of its segments. Whether a parameter is there and *)
(* in range, and what a call reports, is an open choice among the answers   *)
(* of a handler. The calls are modelled where they are made: LpcIsp,        *)
(* KnxStore, HwConfig, OtaService, NetManager, TimeService, LogBuffer...    *)
EXTENDS Naturals, Sequences, SequencesExt

CONSTANTS
  Values,       \* group telegrams
  MaxWebRequests  \* bound on the requests

VARIABLES
  apMode,       \* isApMode()
  served,       \* the last request: what it asked for, who handled it, the answer
  filling,      \* the value queueGroupValue() is about to flag
  mail,         \* _sendPending and _sendData
  loopAt,       \* where KnxLink::loop() is
  owed,         \* history: telegrams answered "ok" and not yet sent
  webRequests

mailVars == <<filling, mail, loopAt, owed>>
webVars == <<apMode, served, mailVars, webRequests>>

(* Answers: a code, and what was called. GET routes only read, but for two. *)
Says(code) == {[code |-> code, calls |-> {}]}
Does(code, call) == {[code |-> code, calls |-> {call}]}
Shows == Says(200)

Route(method, path, gate, answers) ==
  [method |-> method, path |-> path, gate |-> gate, answers |-> answers, exact |-> FALSE]
Exact(route) == [route EXCEPT !.exact = TRUE]
Get(path, answers) == Route("GET", path, "open", answers)
Post(path, answers) == Route("POST", path, "device", answers)
---------------------------------------------------------------------------
(* The routes in the order they are registered.                             *)
mainRoutes == <<
  Get(<<"/">>, Shows), Get(<<"api", "status">>, Shows), Get(<<"api", "partitions">>, Shows),
  Exact(Get(<<"api", "log">>, Shows)),
  Post(<<"api", "log", "clear">>, Does(200, "LogBuffer.clear")),
  Get(<<"api", "log", "reset">>, Shows),
  Post(<<"api", "log", "keep">>, Does(200, "LogBuffer.keepAcrossReset")),
  Post(<<"api", "auth">>, Does(200, "Auth.set") \cup Says(400))>>

Probes == <<"generate_204", "gen_204", "hotspot-detect.html", "canonical.html",
            "connecttest.txt", "ncsi.txt">>
CaptivePortalRoutes == [i \in DOMAIN Probes |-> Get(<<Probes[i]>>, Says(302))]

scan == Get(<<"api", "wifi", "scan">>,
            Shows \cup Does(200, "WiFi.scanNetworks") \cup Does(500, "WiFi.scanNetworks"))
connect == Route("POST", <<"api", "wifi", "connect">>, "onboarding",
                 Says(400) \cup Does(200, "NetManager.applyCredentials"))
WifiRoutes == <<scan, connect,
  Post(<<"api", "wifi", "ap_mode">>, Does(200, "NetManager.forgetCredentials")),
  Post(<<"api", "wifi", "fallback">>, Says(409) \cup Does(200, "NetManager.setWifiFallback")),
  Post(<<"api", "name">>, Says(400) \cup Does(200, "NetManager.setDeviceName"))>>

(* An identity that no longer fits the image parks the address as well.     *)
Identity(codes, call) ==
  codes \cup Does(200, call)
    \cup {[code |-> 200, calls |-> {call, "KnxLink.preserveAddress"}]}
KnxRoutes == <<
  Post(<<"api", "progmode">>, Does(200, "KnxLink.requestProgMode")),
  Post(<<"api", "knx", "reset">>, Says(500) \cup
       {[code |-> 200, calls |-> {"KnxLink.resetConfiguration", "NetManager.scheduleReboot"}]}),
  Post(<<"api", "knx", "routing">>, Says(400) \cup Does(200, "KnxLink.routeUnfiltered")),
  Post(<<"api", "knx", "ets_access">>, Says(400) \cup Does(200, "EtsAccess.setAllowed")),
  Post(<<"api", "knx", "ets_unlock">>, Does(200, "EtsAccess.unlock"))>>
IdentityRoutes == <<
  Exact(Get(<<"api", "knx", "identity">>, Shows)), Get(<<"api", "knx", "objects">>, Shows),
  Exact(Post(<<"api", "knx", "identity">>,
       Identity(Says(413) \cup Says(400), "KnxIdentity.applyJson"))),
  Post(<<"api", "knx", "identity", "reset">>, Identity(Says(500), "KnxIdentity.resetToDefaults")),
  Get(<<"api", "knx", "filter">>, Shows \cup Says(500))>>

TimeRoutes == <<
  Get(<<"api", "time">>, Shows),
  Post(<<"api", "time", "config">>, Says(400) \cup Does(200, "TimeService.applyConfig")),
  Post(<<"api", "time", "set">>, Says(400) \cup Does(202, "TimeService.requestSetUtc")),
  Post(<<"api", "time", "send">>, Says(409) \cup Does(202, "TimeService.requestSend"))>>

Peaks == {{"KnxLink.resetPeak"}, {"CpuLoad.resetPeaks"}, {"KnxLink.resetPeak", "CpuLoad.resetPeaks"}}
HardwareRoutes == <<
  Get(<<"api", "hwconfig">>, Shows),
  Exact(Post(<<"api", "hwconfig">>,
       Says(413) \cup Says(400) \cup Does(200, "HwConfig.applyJson"))),
  Post(<<"api", "hwconfig", "reset">>, Says(500) \cup Does(200, "HwConfig.resetToDefaults")),
  Post(<<"api", "factory">>, Does(200, "NetManager.scheduleFactoryReset")),
  Post(<<"api", "peaks", "reset">>, {[code |-> 200, calls |-> peaks] : peaks \in Peaks}),
  Post(<<"api", "reboot">>, Does(200, "NetManager.scheduleReboot")),
  Post(<<"api", "hours", "reset">>, Does(200, "HourMeter.reset"))>>

OtaRoutes == <<
  Exact(Post(<<"api", "ota">>, Says(500) \cup Does(200, "NetManager.scheduleReboot"))),
  Get(<<"api", "update", "check">>, Does(200, "OtaService.startCheck")),
  Post(<<"api", "update", "install">>, Says(409) \cup Does(202, "OtaService.startInstall")),
  Get(<<"api", "update", "status">>, Shows),
  Post(<<"api", "ota", "switch">>, Says(409) \cup
       {[code |-> 200, calls |-> {"OtaService.switchPartition", "NetManager.scheduleReboot"}]}),
  Post(<<"api", "led", "heartbeat">>, Says(409) \cup Does(200, "StatusLed.heartbeat")),
  Post(<<"api", "led", "brightness">>, Says(400) \cup Does(200, "StatusLed.brightness"))>>

Job(name, call) == Post(<<"api", "lpc", name>>, Says(409) \cup Does(202, call))
LpcRoutes == <<
  Exact(Get(<<"api", "lpc">>, Shows)),
  Job("probe", "LpcIsp.startProbe"), Job("run", "LpcIsp.startRun"),
  Job("write", "LpcIsp.startFlash"), Job("fetch", "LpcIsp.startFetch"),
  Post(<<"api", "lpc", "upload">>,
       Does(400, "LpcIsp.uploadDiscard") \cup Does(200, "LpcIsp.uploadEnd"))>>

monitorAlone(route) == route
monitorExact(route) == Exact(route)
KnxWrite == <<"api", "knx", "write">>
MonitorRoutes == <<
  monitorExact(Get(<<"api", "monitor">>, Shows)),
  Post(<<"api", "monitor", "start">>, Says(409) \cup Says(400) \cup Does(200, "BusMonitor.start")),
  Post(<<"api", "monitor", "stop">>, Does(200, "BusMonitor.stop")),
  Post(<<"api", "monitor", "clear">>, Does(200, "BusMonitor.clear")),
  Post(KnxWrite, Says(400)),
  Get(<<"api", "monitor", "frames">>, Shows)>>

Routes == mainRoutes \o CaptivePortalRoutes \o WifiRoutes \o KnxRoutes \o IdentityRoutes
            \o TimeRoutes \o HardwareRoutes \o OtaRoutes \o LpcRoutes \o MonitorRoutes

(* The server, as the code uses it: the first route that matches; one that  *)
(* is not exact also answers for every path below its own.                  *)
Elsewhere == <<"GET", <<"elsewhere">>>>
Asked == {<<r.method, r.path>> : r \in ToSet(Routes)} \cup {Elsewhere}
Matches(route, ask) ==
  /\ route.method = ask[1]
  /\ IF route.exact THEN route.path = ask[2] ELSE IsPrefix(route.path, ask[2])
FirstMatch == [ask \in Asked \ {Elsewhere} |->
                 Min({i \in DOMAIN Routes : Matches(Routes[i], ask)})]
NotFound == Get(Elsewhere[2], IF apMode THEN Says(302) ELSE Says(404))
RouteOf(ask) == IF ask = Elsewhere THEN NotFound ELSE Routes[FirstMatch[ask]]

(* originAllowed(), mutationAllowed().                                      *)
mutationAllowed(route, own) ==
  route.gate = "open" \/ (own /\ (apMode => route.gate = "onboarding"))
AnswersTo(route, own) ==
  IF mutationAllowed(route, own) THEN route.answers ELSE Says(403)
---------------------------------------------------------------------------
NoRequest == [path |-> <<"?">>, by |-> <<"?">>, code |-> 0, calls |-> {}]
NoValue == "none"
WebInit ==
  /\ apMode \in BOOLEAN /\ served = NoRequest
  /\ filling = NoValue /\ mail = [pending |-> FALSE, data |-> NoValue]
  /\ loopAt = "idle" /\ owed = <<>> /\ webRequests = 0

WebRequest == filling = NoValue /\ webRequests < MaxWebRequests /\ webRequests' = webRequests + 1
Answered(path, by, answer) ==
  served' = [path |-> path, by |-> by, code |-> answer.code, calls |-> answer.calls]

Serve(ask, own) ==
  LET route == RouteOf(ask) IN
  /\ WebRequest
  /\ \E answer \in AnswersTo(route, own) : Answered(ask[2], route.path, answer)
  /\ UNCHANGED <<apMode, mailVars>>

(* queueGroupValue(): the value, then the flag, "so loop() never sees a     *)
(* half filled request".                                                    *)
FlaggedFirst(value) == [mail EXCEPT !.pending = TRUE]
Filled(value) == [mail EXCEPT !.data = value]

WriteQueues(value) ==
  /\ WebRequest /\ ~apMode
  /\ IF mail.pending
     THEN /\ Answered(KnxWrite, KnxWrite, [code |-> 503, calls |-> {}])
          /\ UNCHANGED <<filling, mail>>
     ELSE /\ filling' = value /\ mail' = Filled(value) /\ UNCHANGED served
  /\ UNCHANGED <<apMode, loopAt, owed>>

WriteFlags ==
  /\ filling # NoValue
  /\ mail' = [pending |-> TRUE, data |-> filling]
  /\ owed' = Append(owed, filling) /\ filling' = NoValue
  /\ Answered(KnxWrite, KnxWrite, [code |-> 200, calls |-> {"KnxLink.queueGroupValue"}])
  /\ UNCHANGED <<apMode, loopAt, webRequests>>

(* KnxLink::loop(): it sends, then clears the flag.                         *)
LoopSends ==
  /\ loopAt = "idle" /\ mail.pending
  /\ loopAt' = "sent" /\ owed' = IF owed = <<>> THEN owed ELSE Tail(owed)
  /\ UNCHANGED <<apMode, served, filling, mail, webRequests>>

LoopClears ==
  /\ loopAt = "sent" /\ loopAt' = "idle"
  /\ mail' = [mail EXCEPT !.pending = FALSE]
  /\ UNCHANGED <<apMode, served, filling, owed, webRequests>>

(* The access point opens, and closes when the device comes online.         *)
ApChanges ==
  /\ webRequests < MaxWebRequests /\ apMode' = ~apMode
  /\ UNCHANGED <<served, mailVars, webRequests>>

WebNext ==
  \/ \E ask \in Asked, own \in BOOLEAN : Serve(ask, own)
  \/ \E value \in Values : WriteQueues(value)
  \/ WriteFlags \/ LoopSends \/ LoopClears \/ ApChanges

WebSpec == WebInit /\ [][WebNext]_webVars
---------------------------------------------------------------------------
(* Every path somebody registered is answered by its own handler, and not   *)
(* by one registered before it that answers for the paths below its own     *)
(* (web_server.cpp:1817-1824 reports how that went wrong once).             *)
OwnHandler == served.by # <<"?">> => served.by = served.path

(* A telegram that was answered "ok" goes out once, and as it was accepted: *)
(* the next request never meets a mailbox the main task still reads         *)
(* (knx_link.cpp:664-671, 1352-1361).                                       *)
SentAsAccepted ==
  [][LoopSends => owed # <<>> /\ mail.data = Head(owed) /\ filling = NoValue]_webVars
=============================================================================
