--------------------------- MODULE ServicesProofs ----------------------------
(* Proofs about the services that MCServices checks side by side, one       *)
(* section for each. A section stands on its own, but for the LEDs', which   *)
(* takes from the rules' that an accepted profile is one.                    *)
EXTENDS Auth, WebServer, ButtonService, StatusLed, OtaService, LogBuffer, TimeService,
        WellFoundedInduction, FiniteSetTheorems, SequenceTheorems, TLAPS

-------------------------------------------------------------------------------
(* The password: the way back from it, for any number of requests, of cuts  *)
(* and restarts.                                                            *)

AuthTypes ==
  /\ {password, known, activeKey, blind, excused} \subseteq BOOLEAN
  /\ storedProfile \in {"none", "left", "plain", "key"}
  /\ storing \in [at : {"idle", "open", "puts"}, key : BOOLEAN, live : BOOLEAN]

(* What store() is writing has the button, unless no password asks for it.  *)
WrittenKeeps == storing.at # "idle" /\ password /\ ~excused => storing.key
WayBack == AuthTypes /\ WrittenKeeps /\ Recoverable

(* The requests to the password and to drop the profile; none of them       *)
(* meets a store().                                                         *)
LEMMA RequestsKeep ==
  ASSUME NEW refused \in BOOLEAN, WayBack,
         ClearPassword(refused) \/ SetPassword(refused) \/ ResetProfile
  PROVE  WayBack'
<1> USE DEF WayBack, AuthTypes, WrittenKeeps, Recoverable, AuthRequest, NoStore
<1>1. CASE ClearPassword(refused)
  BY <1>1 DEF ClearPassword
<1>2. CASE SetPassword(refused)
  <2>1. activeKey
    BY <1>2 DEF SetPassword, recoveryPossible
  <2>2. QED
    BY <1>2, <2>1 DEF SetPassword
<1>3. CASE ResetProfile
  BY <1>3 DEF ResetProfile
<1>4. QED
  BY <1>1, <1>2, <1>3

(* A document is refused that would take the button from a password that    *)
(* can be read.                                                             *)
LEMMA DocumentsKeep ==
  ASSUME NEW key \in BOOLEAN, NEW live \in BOOLEAN, NEW unread \in BOOLEAN, WayBack,
         AcceptProfile(key, live, unread)
  PROVE  WayBack'
<1> USE DEF WayBack, AuthTypes, WrittenKeeps, Recoverable, AcceptProfile, AuthRequest, NoStore
<1>1. key \/ ~(known \/ (password /\ ~unread))
  BY DEF KeepsTheWayBack, Enabled
<1>2. storing' = [at |-> "open", key |-> key, live |-> live]
  OBVIOUS
<1>3. excused' = (excused \/ (password /\ unread /\ ~key))
  OBVIOUS
<1>4. password /\ ~excused' => key
  BY <1>1, <1>3
<1>5. known' \in BOOLEAN
  BY DEF Enabled
<1>6. QED
  BY <1>2, <1>3, <1>4, <1>5

(* What store() leaves is what it was given, or a mix that is excused.      *)
LEMMA StoresKeep ==
  WayBack /\ (StoreOpens \/ StoreEnds \/ StoreRefused) => WayBack'
<1> SUFFICES ASSUME WayBack, StoreOpens \/ StoreEnds \/ StoreRefused PROVE WayBack'
  OBVIOUS
<1> USE DEF WayBack, AuthTypes, WrittenKeeps, Recoverable, HandsOver, NoStore
<1>1. CASE StoreOpens
  BY <1>1 DEF StoreOpens
<1>2. CASE StoreEnds
  <2>1. storedProfile' \in {"plain", "key"}
    BY <1>2 DEF StoreEnds, Results, Marked, Kept
  <2>2. ~blind /\ storing.key => storedProfile' = "key"
    BY <1>2 DEF StoreEnds, Results, Kept
  <2>3. excused' = ((excused \/ (password /\ blind)) /\ storedProfile' # "key")
    BY <1>2 DEF StoreEnds
  <2>4. storing.at = "puts"
    BY <1>2 DEF StoreEnds
  <2>5. password /\ ~excused' => storedProfile' = "key"
    BY <2>2, <2>3, <2>4
  <2>6. QED
    BY <1>2, <2>1, <2>3, <2>5 DEF StoreEnds
<1>3. CASE StoreRefused
  BY <1>3 DEF StoreRefused
<1>4. QED
  BY <1>1, <1>2, <1>3

(* A start loses the button only where the profile is dropped, cut off or   *)
(* of another layout.                                                       *)
LEMMA StartsKeep ==
  WayBack /\ (AuthRestart \/ FactoryReset) => WayBack'
<1> SUFFICES ASSUME WayBack, AuthRestart \/ FactoryReset PROVE WayBack'
  OBVIOUS
<1> USE DEF WayBack, AuthTypes, WrittenKeeps, Recoverable, NoStore
<1>1. CASE AuthRestart
  <2>1. PICK found \in Found, unread \in BOOLEAN, ap \in BOOLEAN : StartsUp(found, unread, ap)
    BY <1>1 DEF AuthRestart
  <2>2. found \in {"none", "left", "plain", "key"}
    BY <2>1 DEF Found, CutLeaves, Results, Marked, Kept
  <2>3. /\ storedProfile' = found /\ storing' = NoStore /\ UNCHANGED password
        /\ excused' = ((excused \/ (password /\ found # storedProfile)) /\ found # "key")
    BY <1>1, <2>1 DEF AuthRestart, StartsUp
  <2>4. {password', known', activeKey', blind', excused'} \subseteq BOOLEAN
    BY <1>1, <2>1 DEF AuthRestart, StartsUp
  <2>5. password' /\ ~excused' => storedProfile' = "key"
    BY <2>3
  <2>6. storing'.at = "idle" /\ storing' \in [at : {"idle", "open", "puts"}, key : BOOLEAN, live : BOOLEAN]
    BY <2>3
  <2>7. QED
    BY <2>2, <2>3, <2>4, <2>5, <2>6
<1>2. CASE FactoryReset
  BY <1>2 DEF FactoryReset
<1>3. QED
  BY <1>1, <1>2

(* As long as a password is set the profile of the next start has the       *)
(* button for the factory reset (hw_config.cpp:827-914, 1255-1291,          *)
(* auth.cpp:85-164), for histories of any length, with refused handles and  *)
(* the power cut between any two steps; the cases in which the code loses   *)
(* the button are excused by name.                                          *)
THEOREM WayBackStays == AuthSpec => []Recoverable
<1>1. AuthInit => WayBack
  <2> SUFFICES ASSUME AuthInit PROVE WayBack
    OBVIOUS
  <2>1. storing.at = "idle" /\ storing \in [at : {"idle", "open", "puts"}, key : BOOLEAN, live : BOOLEAN]
    BY DEF AuthInit, NoStore
  <2>2. AuthTypes /\ ~password
    BY <2>1 DEF AuthInit, AuthTypes
  <2>3. QED
    BY <2>1, <2>2 DEF WayBack, WrittenKeeps, Recoverable
<1>2. WayBack /\ [AuthNext]_authVars => WayBack'
  <2> SUFFICES ASSUME WayBack, [AuthNext]_authVars PROVE WayBack'
    OBVIOUS
  <2>1. CASE StoreOpens \/ StoreEnds \/ StoreRefused
    BY <2>1, StoresKeep
  <2>2. CASE LoopTakes \/ LoopTaken
    <3>1. UNCHANGED <<password, known, storedProfile, blind, storing, excused>> /\ activeKey' \in BOOLEAN
      BY <2>2 DEF LoopTakes, LoopTaken
    <3>2. QED
      BY <3>1 DEF WayBack, AuthTypes, WrittenKeeps, Recoverable
  <2>3. CASE ResetProfile \/ \E refused \in BOOLEAN : ClearPassword(refused) \/ SetPassword(refused)
    BY <2>3, RequestsKeep
  <2>4. CASE AuthRestart \/ FactoryReset
    BY <2>4, StartsKeep
  <2>5. CASE \E key, live, unread \in BOOLEAN : AcceptProfile(key, live, unread)
    BY <2>5, DocumentsKeep
  <2>6. CASE UNCHANGED authVars
    BY <2>6 DEF authVars, WayBack, AuthTypes, WrittenKeeps, Recoverable
  <2>7. QED
    BY <2>1, <2>2, <2>3, <2>4, <2>5, <2>6 DEF AuthNext
<1>3. WayBack => Recoverable
  BY DEF WayBack
<1>4. QED
  BY <1>1, <1>2, <1>3, PTL DEF AuthSpec

-------------------------------------------------------------------------------
(* The mailbox of the raw monitor, for any telegrams.                       *)

MailTypes ==
  /\ filling \in Values \cup {NoValue}
  /\ mail \in [pending : BOOLEAN, data : Values \cup {NoValue}]
  /\ loopAt \in {"idle", "sent"}
  /\ owed \in Seq(Values)
(* The mailbox is full exactly while one accepted telegram waits or is being *)
(* sent, and nobody fills it meanwhile.                                      *)
OneInTheMailbox ==
  /\ filling # NoValue => ~mail.pending
  /\ loopAt = "sent" => mail.pending
  /\ owed = IF mail.pending /\ loopAt = "idle" THEN <<mail.data>> ELSE <<>>
MailInv == MailTypes /\ OneInTheMailbox

LEMMA MailStep == MailInv /\ [WebNext]_webVars => MailInv'
<1> SUFFICES ASSUME MailInv, [WebNext]_webVars PROVE MailInv'
  OBVIOUS
<1> USE DEF MailInv, MailTypes, OneInTheMailbox, mailVars
<1>1. ASSUME NEW ask \in Asked, NEW own \in BOOLEAN, Serve(ask, own) PROVE MailInv'
  BY <1>1 DEF Serve
<1>2. ASSUME NEW value \in Values, WriteQueues(value) PROVE MailInv'
  BY <1>2 DEF WriteQueues, Filled, WebRequest
<1>3. CASE WriteFlags
  <2>1. owed = <<>> /\ filling \in Values /\ loopAt = "idle"
    BY <1>3 DEF WriteFlags
  <2>2. owed' = <<filling>>
    BY <1>3, <2>1 DEF WriteFlags
  <2>3. QED
    BY <1>3, <2>1, <2>2 DEF WriteFlags
<1>4. CASE LoopSends
  BY <1>4 DEF LoopSends
<1>5. CASE LoopClears
  BY <1>5 DEF LoopClears
<1>6. CASE ApChanges
  BY <1>6 DEF ApChanges
<1>7. CASE UNCHANGED webVars
  BY <1>7 DEF webVars
<1>8. QED
  BY <1>1, <1>2, <1>3, <1>4, <1>5, <1>6, <1>7 DEF WebNext

(* A telegram that was answered "ok" goes out once, and as it was accepted. *)
THEOREM MailboxKeepsTelegrams == WebSpec => SentAsAccepted
<1>1. WebInit => MailInv
  BY DEF WebInit, MailInv, MailTypes, OneInTheMailbox
<1>2. MailInv /\ [WebNext]_webVars
        => [LoopSends => owed # <<>> /\ mail.data = Head(owed) /\ filling = NoValue]_webVars
  BY DEF MailInv, MailTypes, OneInTheMailbox, LoopSends
<1>3. QED
  BY <1>1, <1>2, MailStep, PTL DEF WebSpec, SentAsAccepted

-------------------------------------------------------------------------------
(* The routes. What keeps the paths of one method apart, in whatever order  *)
(* they are registered: no path below "api" is under a path of one segment; *)
(* what a route that answers for the paths below its own has in its second  *)
(* segment is in no longer path; the one path of four segments is below an  *)
(* exact one.                                                               *)

(* Every non-empty set of numbers has a first.                              *)
LEMMA FirstNumber ==
  ASSUME NEW S \in SUBSET Nat, S # {} PROVE Min(S) \in S /\ \A y \in S : Min(S) =< y
<1>1. PICK x \in S : \A y \in S : ~(<<y, x>> \in OpToRel(<, Nat))
  BY WFMin, NatLessThanWellFounded
<1>2. \A y \in S : ~(y < x)
  BY <1>1 DEF OpToRel
<1>3. \A y \in S : x =< y
  BY <1>2
<1>4. QED
  BY <1>3 DEF Min

Leaves ==
  {"GET"} \X {"status", "partitions", "time", "hwconfig"}
    \cup {"POST"} \X {"auth", "name", "progmode", "factory", "reboot"}
OneSegment(r) == r.path = <<r.path[1]>> /\ r.path[1] # "api"
TwoSegments(r) ==
  /\ r.path = <<"api", r.path[2]>>
  /\ r.exact \/ <<r.method, r.path[2]>> \in Leaves
ThreeSegments(r) ==
  /\ r.path = <<"api", r.path[2], r.path[3]>>
  /\ <<r.method, r.path[2]>> \notin Leaves
  /\ r.exact \/ <<r.method, r.path[2], r.path[3]>> # <<"POST", "knx", "identity">>
FourSegments(r) ==
  r.method = "POST" /\ r.path = <<"api", "knx", "identity", "reset">>
Placed(r) == OneSegment(r) \/ TwoSegments(r) \/ ThreeSegments(r) \/ FourSegments(r)

(* The fields of a route, which the lists are read through.                 *)
LEMMA RouteIs ==
  /\ \A p, a : /\ Get(p, a).method = "GET" /\ Get(p, a).path = p
               /\ Exact(Get(p, a)).method = "GET" /\ Exact(Get(p, a)).path = p
               /\ Exact(Get(p, a)).exact
  /\ \A p, a : /\ Post(p, a).method = "POST" /\ Post(p, a).path = p
               /\ Exact(Post(p, a)).method = "POST" /\ Exact(Post(p, a)).path = p
               /\ Exact(Post(p, a)).exact
<1>1. \A p, a : /\ Get(p, a).method = "GET" /\ Get(p, a).path = p
                /\ Exact(Get(p, a)).method = "GET" /\ Exact(Get(p, a)).path = p
                /\ Exact(Get(p, a)).exact
  BY DEF Get, Route, Exact
<1>2. \A p, a : /\ Post(p, a).method = "POST" /\ Post(p, a).path = p
                /\ Exact(Post(p, a)).method = "POST" /\ Exact(Post(p, a)).path = p
                /\ Exact(Post(p, a)).exact
  BY DEF Post, Route, Exact
<1>3. QED
  BY <1>1, <1>2

(* Each group of routes keeps to it.                                        *)
LEMMA MainPlaced == \A i \in DOMAIN mainRoutes : Placed(mainRoutes[i])
BY RouteIs DEF mainRoutes, Placed, OneSegment, TwoSegments, ThreeSegments, Leaves
LEMMA WifiPlaced == \A i \in DOMAIN WifiRoutes : Placed(WifiRoutes[i])
BY RouteIs DEF WifiRoutes, Placed, OneSegment, TwoSegments, ThreeSegments, Leaves,
   scan, connect, Route
LEMMA KnxPlaced == \A i \in DOMAIN KnxRoutes : Placed(KnxRoutes[i])
BY RouteIs DEF KnxRoutes, Placed, OneSegment, TwoSegments, ThreeSegments, Leaves
LEMMA IdentityPlaced == \A i \in DOMAIN IdentityRoutes : Placed(IdentityRoutes[i])
BY RouteIs DEF IdentityRoutes, Placed, OneSegment, TwoSegments, ThreeSegments, Leaves, FourSegments
LEMMA TimePlaced == \A i \in DOMAIN TimeRoutes : Placed(TimeRoutes[i])
BY RouteIs DEF TimeRoutes, Placed, OneSegment, TwoSegments, ThreeSegments, Leaves
LEMMA HardwarePlaced == \A i \in DOMAIN HardwareRoutes : Placed(HardwareRoutes[i])
BY RouteIs DEF HardwareRoutes, Placed, OneSegment, TwoSegments, ThreeSegments, Leaves
LEMMA OtaPlaced == \A i \in DOMAIN OtaRoutes : Placed(OtaRoutes[i])
BY RouteIs DEF OtaRoutes, Placed, OneSegment, TwoSegments, ThreeSegments, Leaves
LEMMA LpcPlaced == \A i \in DOMAIN LpcRoutes : Placed(LpcRoutes[i])
BY RouteIs DEF LpcRoutes, Placed, OneSegment, TwoSegments, ThreeSegments, Leaves, Job
LEMMA MonitorPlaced == \A i \in DOMAIN MonitorRoutes : Placed(MonitorRoutes[i])
BY RouteIs DEF MonitorRoutes, Placed, OneSegment, TwoSegments, ThreeSegments, Leaves,
   monitorExact, KnxWrite
LEMMA PortalPlaced == \A i \in DOMAIN CaptivePortalRoutes : Placed(CaptivePortalRoutes[i])
BY RouteIs DEF CaptivePortalRoutes, Placed, OneSegment, TwoSegments, ThreeSegments, Leaves, Probes

(* Two routes of one method: neither answers for the path of the other.     *)
LEMMA PlacedApart ==
  ASSUME NEW r, NEW s, Placed(r), Placed(s), Matches(r, <<s.method, s.path>>)
  PROVE  r.path = s.path
<1>1. CASE r.exact
  BY <1>1 DEF Matches
<1>2. CASE ~r.exact
  <2>1. r.method = s.method /\ IsPrefix(r.path, s.path)
    BY <1>2 DEF Matches
  <2>2. CASE OneSegment(r)
    <3>1. Len(r.path) = 1 /\ SubSeq(r.path, 1, 1)[1] # "api"
      BY <2>2 DEF OneSegment
    <3>2. ~TwoSegments(s) /\ ~ThreeSegments(s) /\ ~FourSegments(s)
      BY <2>1, <3>1 DEF TwoSegments, ThreeSegments, FourSegments, IsPrefix
    <3>3. QED
      BY <2>1, <2>2, <3>1, <3>2 DEF Placed, OneSegment, IsPrefix
  <2>3. CASE TwoSegments(r)
    <3>1. Len(r.path) = 2 /\ SubSeq(r.path, 1, 2)[2] = r.path[2] /\ SubSeq(r.path, 1, 2)[1] = "api"
      BY <2>3 DEF TwoSegments
    <3>2. ASSUME ThreeSegments(s) \/ FourSegments(s) PROVE FALSE
      <4>1. SubSeq(s.path, 1, 2)[2] = s.path[2]
        BY <3>2 DEF ThreeSegments, FourSegments
      <4>2. s.path[2] = r.path[2]
        BY <2>1, <3>1, <4>1 DEF IsPrefix
      <4>3. <<"POST", "knx">> \notin Leaves
        BY DEF Leaves
      <4>4. QED
        BY <1>2, <2>1, <2>3, <3>2, <4>2, <4>3 DEF TwoSegments, ThreeSegments, FourSegments
    <3>3. CASE OneSegment(s)
      BY <2>1, <3>1, <3>3 DEF OneSegment, IsPrefix
    <3>4. CASE TwoSegments(s)
      <4>1. SubSeq(s.path, 1, 2)[2] = s.path[2]
        BY <3>4 DEF TwoSegments
      <4>2. QED
        BY <2>1, <2>3, <3>1, <3>4, <4>1 DEF TwoSegments, IsPrefix
    <3>5. QED
      BY <3>2, <3>3, <3>4 DEF Placed
  <2>4. CASE ThreeSegments(r)
    <3>1. /\ Len(r.path) = 3 /\ SubSeq(r.path, 1, 3)[1] = "api"
          /\ SubSeq(r.path, 1, 3)[2] = r.path[2] /\ SubSeq(r.path, 1, 3)[3] = r.path[3]
      BY <2>4 DEF ThreeSegments
    <3>2. ~OneSegment(s) /\ ~TwoSegments(s)
      BY <2>1, <3>1 DEF OneSegment, TwoSegments, IsPrefix
    <3>3. CASE ThreeSegments(s)
      <4>1. SubSeq(s.path, 1, 3)[2] = s.path[2] /\ SubSeq(s.path, 1, 3)[3] = s.path[3]
        BY <3>3 DEF ThreeSegments
      <4>2. QED
        BY <2>1, <2>4, <3>1, <3>3, <4>1 DEF ThreeSegments, IsPrefix
    <3>4. CASE FourSegments(s)
      <4>1. SubSeq(s.path, 1, 3)[2] = "knx" /\ SubSeq(s.path, 1, 3)[3] = "identity"
        BY <3>4 DEF FourSegments
      <4>2. QED
        BY <1>2, <2>1, <2>4, <3>1, <3>4, <4>1 DEF ThreeSegments, FourSegments, IsPrefix
    <3>5. QED
      BY <3>2, <3>3, <3>4 DEF Placed
  <2>5. CASE FourSegments(r)
    <3>1. Len(r.path) = 4
      BY <2>5 DEF FourSegments
    <3>2. QED
      BY <2>1, <2>5, <3>1 DEF Placed, OneSegment, TwoSegments, ThreeSegments, FourSegments, IsPrefix
  <2>6. QED
    BY <2>2, <2>3, <2>4, <2>5 DEF Placed
<1>3. QED
  BY <1>1, <1>2 DEF Placed
TableRoutes ==
  UNION {ToSet(mainRoutes), ToSet(CaptivePortalRoutes), ToSet(WifiRoutes), ToSet(KnxRoutes),
         ToSet(IdentityRoutes), ToSet(TimeRoutes), ToSet(HardwareRoutes), ToSet(OtaRoutes),
         ToSet(LpcRoutes), ToSet(MonitorRoutes)}
LEMMA TablePlaced == \A r \in TableRoutes : Placed(r)
BY MainPlaced, WifiPlaced, KnxPlaced, IdentityPlaced, TimePlaced, HardwarePlaced, OtaPlaced,
   LpcPlaced, MonitorPlaced, PortalPlaced DEF TableRoutes, ToSet

(* The groups one after another are the table.                              *)
LEMMA TableList ==
  ASSUME NEW s, NEW n \in Nat, DOMAIN s = 1 .. n, s = [i \in 1 .. n |-> s[i]],
         ToSet(s) \subseteq TableRoutes
  PROVE  s \in Seq(TableRoutes)
BY DEF ToSet

LEMMA ListShapes ==
  /\ DOMAIN mainRoutes = 1 .. 8 /\ mainRoutes = [i \in 1 .. 8 |-> mainRoutes[i]]
  /\ DOMAIN WifiRoutes = 1 .. 5 /\ WifiRoutes = [i \in 1 .. 5 |-> WifiRoutes[i]]
  /\ DOMAIN KnxRoutes = 1 .. 5 /\ KnxRoutes = [i \in 1 .. 5 |-> KnxRoutes[i]]
  /\ DOMAIN IdentityRoutes = 1 .. 5 /\ IdentityRoutes = [i \in 1 .. 5 |-> IdentityRoutes[i]]
  /\ DOMAIN TimeRoutes = 1 .. 4 /\ TimeRoutes = [i \in 1 .. 4 |-> TimeRoutes[i]]
  /\ DOMAIN HardwareRoutes = 1 .. 7 /\ HardwareRoutes = [i \in 1 .. 7 |-> HardwareRoutes[i]]
  /\ DOMAIN OtaRoutes = 1 .. 7 /\ OtaRoutes = [i \in 1 .. 7 |-> OtaRoutes[i]]
  /\ DOMAIN LpcRoutes = 1 .. 6 /\ LpcRoutes = [i \in 1 .. 6 |-> LpcRoutes[i]]
  /\ DOMAIN MonitorRoutes = 1 .. 6 /\ MonitorRoutes = [i \in 1 .. 6 |-> MonitorRoutes[i]]
  /\ DOMAIN CaptivePortalRoutes = 1 .. 6 /\ CaptivePortalRoutes = [i \in 1 .. 6 |-> CaptivePortalRoutes[i]]
<1>1. DOMAIN mainRoutes = 1 .. 8 /\ mainRoutes = [i \in 1 .. 8 |-> mainRoutes[i]]
  BY DEF mainRoutes
<1>2. DOMAIN WifiRoutes = 1 .. 5 /\ WifiRoutes = [i \in 1 .. 5 |-> WifiRoutes[i]]
  BY DEF WifiRoutes
<1>3. DOMAIN KnxRoutes = 1 .. 5 /\ KnxRoutes = [i \in 1 .. 5 |-> KnxRoutes[i]]
  BY DEF KnxRoutes
<1>4. DOMAIN IdentityRoutes = 1 .. 5 /\ IdentityRoutes = [i \in 1 .. 5 |-> IdentityRoutes[i]]
  BY DEF IdentityRoutes
<1>5. DOMAIN TimeRoutes = 1 .. 4 /\ TimeRoutes = [i \in 1 .. 4 |-> TimeRoutes[i]]
  BY DEF TimeRoutes
<1>6. DOMAIN HardwareRoutes = 1 .. 7 /\ HardwareRoutes = [i \in 1 .. 7 |-> HardwareRoutes[i]]
  BY DEF HardwareRoutes
<1>7. DOMAIN OtaRoutes = 1 .. 7 /\ OtaRoutes = [i \in 1 .. 7 |-> OtaRoutes[i]]
  BY DEF OtaRoutes
<1>8. DOMAIN LpcRoutes = 1 .. 6 /\ LpcRoutes = [i \in 1 .. 6 |-> LpcRoutes[i]]
  BY DEF LpcRoutes
<1>9. DOMAIN MonitorRoutes = 1 .. 6 /\ MonitorRoutes = [i \in 1 .. 6 |-> MonitorRoutes[i]]
  BY DEF MonitorRoutes
<1>10. DOMAIN CaptivePortalRoutes = 1 .. 6 /\ CaptivePortalRoutes = [i \in 1 .. 6 |-> CaptivePortalRoutes[i]]
  BY DEF CaptivePortalRoutes, Probes
<1>11. QED
  BY <1>1, <1>2, <1>3, <1>4, <1>5, <1>6, <1>7, <1>8, <1>9, <1>10

LEMMA TableIsList == Routes \in Seq(TableRoutes)
<1>1. \A s \in {mainRoutes, CaptivePortalRoutes, WifiRoutes, KnxRoutes, IdentityRoutes,
                 TimeRoutes, HardwareRoutes, OtaRoutes, LpcRoutes, MonitorRoutes} :
        ToSet(s) \subseteq TableRoutes
  BY DEF TableRoutes
<1>2. /\ mainRoutes \in Seq(TableRoutes) /\ CaptivePortalRoutes \in Seq(TableRoutes)
      /\ WifiRoutes \in Seq(TableRoutes) /\ KnxRoutes \in Seq(TableRoutes)
      /\ IdentityRoutes \in Seq(TableRoutes) /\ TimeRoutes \in Seq(TableRoutes)
      /\ HardwareRoutes \in Seq(TableRoutes) /\ OtaRoutes \in Seq(TableRoutes)
      /\ LpcRoutes \in Seq(TableRoutes) /\ MonitorRoutes \in Seq(TableRoutes)
  BY <1>1, ListShapes, TableList
<1>3. QED
  BY <1>2, ConcatProperties DEF Routes

(* The first route that matches has the path that was asked for.            *)
LEMMA OwnRoute ==
  ASSUME NEW ask \in Asked
  PROVE  RouteOf(ask).path = ask[2]
<1>1. CASE ask = Elsewhere
  BY <1>1, RouteIs DEF RouteOf, NotFound
<1>2. CASE ask # Elsewhere
  <2> DEFINE matching == {i \in DOMAIN Routes : Matches(Routes[i], ask)}
  <2>1. PICK s \in ToSet(Routes) : ask = <<s.method, s.path>>
    BY <1>2 DEF Asked
  <2>2. DOMAIN Routes = 1 .. Len(Routes) /\ Len(Routes) \in Nat
        /\ \A i \in DOMAIN Routes : Routes[i] \in TableRoutes
    BY TableIsList
  <2>3. s \in TableRoutes /\ \E i \in DOMAIN Routes : Routes[i] = s
    BY <2>1, <2>2 DEF ToSet
  <2>4. Matches(s, ask)
    <3>1. IsPrefix(s.path, s.path)
      BY <2>3, TablePlaced DEF Placed, OneSegment, TwoSegments, ThreeSegments, FourSegments, IsPrefix
    <3>2. QED
      BY <2>1, <3>1 DEF Matches
  <2>5. matching \in SUBSET Nat /\ matching # {}
    BY <2>2, <2>3, <2>4
  <2>6. Min(matching) \in matching
    BY <2>5, FirstNumber
  <2>7. RouteOf(ask) = Routes[Min(matching)]
    BY <1>2 DEF RouteOf, FirstMatch
  <2>8. Routes[Min(matching)] \in TableRoutes /\ Matches(Routes[Min(matching)], ask)
    BY <2>2, <2>6
  <2>9. QED
    BY <2>1, <2>3, <2>7, <2>8, TablePlaced, PlacedApart
<1>3. QED
  BY <1>1, <1>2

(* Every path somebody registered is answered by its own handler, and not   *)
(* by one registered before it (web_server.cpp:1817-1824), whatever the     *)
(* order of the requests.                                                   *)
THEOREM OwnHandlerAnswers == WebSpec => []OwnHandler
<1>1. WebInit => OwnHandler
  BY DEF WebInit, OwnHandler, NoRequest
<1>2. OwnHandler /\ [WebNext]_webVars => OwnHandler'
  <2> SUFFICES ASSUME OwnHandler, [WebNext]_webVars PROVE OwnHandler'
    OBVIOUS
  <2>1. ASSUME NEW ask \in Asked, NEW own \in BOOLEAN, Serve(ask, own) PROVE OwnHandler'
    BY <2>1, OwnRoute DEF Serve, Answered, OwnHandler
  <2>2. ASSUME NEW value \in Values, WriteQueues(value) PROVE OwnHandler'
    BY <2>2 DEF WriteQueues, Answered, OwnHandler
  <2>3. CASE WriteFlags
    BY <2>3 DEF WriteFlags, Answered, OwnHandler
  <2>4. CASE LoopSends \/ LoopClears \/ ApChanges \/ UNCHANGED webVars
    BY <2>4 DEF LoopSends, LoopClears, ApChanges, webVars, OwnHandler
  <2>5. QED
    BY <2>1, <2>2, <2>3, <2>4 DEF WebNext
<1>3. QED
  BY <1>1, <1>2, PTL DEF WebSpec

-------------------------------------------------------------------------------
(* Buttons, for any limits in the order the code has them in.               *)

ButtonTypes ==
  /\ contact \in BOOLEAN /\ raw \in BOOLEAN /\ pressed \in BOOLEAN /\ clean \in BOOLEAN
  /\ changedAt \in Nat /\ pressedAt \in Nat /\ buttonNow \in Nat /\ lastPass \in Nat
  /\ downAt \in Nat /\ upAt \in Nat /\ lastPass =< buttonNow
  /\ fired \subseteq {"short", "long", "very long"}

(* A press that fired anything else is never short as well.                 *)
OneMeaning == ("short" \in fired => fired = {"short"}) /\ (pressed => "short" \notin fired)

(* What the pass at a given time leaves, while the contact has been down    *)
(* since downAt, and while it has been up since upAt.                       *)
FiredAt(pass) == pressedAt = downAt + Debounce /\ fired = LongerThan(pass - downAt)
SeenDown(pass) ==
  /\ raw /\ changedAt = downAt /\ (pressed <=> pass >= downAt + Debounce)
  /\ pressed => FiredAt(pass)
SeenUp(pass) ==
  /\ ~raw /\ changedAt = upAt
  /\ pass < upAt + Debounce =>
       /\ pressed <=> upAt - 1 >= downAt + Debounce
       /\ pressed => FiredAt(upAt - 1)
  /\ pass >= upAt + Debounce =>
       ~pressed /\ (upAt - 1 >= downAt + Debounce => fired = Meaning(upAt - downAt))

CleanPress ==
  /\ buttonNow =< lastPass + 1
  /\ contact => /\ 0 < downAt /\ downAt =< buttonNow
                /\ lastPass < downAt => ~raw /\ ~pressed
                /\ lastPass >= downAt => SeenDown(lastPass)
  /\ ~contact => /\ downAt < upAt /\ upAt =< buttonNow
                 /\ lastPass < upAt => SeenDown(lastPass)
                 /\ lastPass >= upAt => SeenUp(lastPass)

ButtonInv == ButtonTypes /\ OneMeaning /\ (clean => CleanPress)

LEMMA Limits == Debounce \in Nat /\ ShortMin \in Nat /\ ShortMax \in Nat /\ Long \in Nat /\ VeryLong \in Nat
                /\ 0 < Debounce /\ Debounce < ShortMin /\ ShortMin < ShortMax /\ ShortMax =< Long /\ Long < VeryLong
  BY LimitsOrdered

LEMMA Numbers == ButtonTypes => /\ changedAt \in Nat /\ pressedAt \in Nat /\ buttonNow \in Nat /\ lastPass \in Nat
                                /\ downAt \in Nat /\ upAt \in Nat /\ lastPass =< buttonNow
  BY DEF ButtonTypes

LEMMA LongerIs ==
  ASSUME NEW n \in Int
  PROVE  /\ LongerThan(n) \subseteq {"long", "very long"}
         /\ "long" \in LongerThan(n) <=> n >= Debounce + Long
         /\ "very long" \in LongerThan(n) <=> n >= Debounce + VeryLong
  BY DEF LongerThan

LEMMA ButtonEnough == ButtonInv => PressMeansItsLength
<1> SUFFICES ASSUME ButtonInv PROVE PressMeansItsLength
  OBVIOUS
<1>1. "short" \in fired => fired = {"short"}
  BY DEF ButtonInv, OneMeaning
<1>2. ASSUME clean, lastPass = buttonNow, contact, pressed PROVE fired = LongerThan(buttonNow - downAt)
  BY <1>2 DEF ButtonInv, ButtonTypes, CleanPress, SeenDown, FiredAt
<1>3. ASSUME clean, lastPass = buttonNow, ~contact, ~pressed, upAt - downAt > Debounce,
             buttonNow - upAt >= Debounce
      PROVE  fired = Meaning(upAt - downAt)
  <2>0. upAt \in Nat /\ downAt \in Nat /\ lastPass \in Nat
    BY DEF ButtonInv, ButtonTypes
  <2>1. lastPass >= upAt + Debounce /\ upAt - 1 >= downAt + Debounce /\ lastPass >= upAt
    BY <1>3, <2>0, Limits
  <2>2. QED
    BY <1>3, <2>1 DEF ButtonInv, ButtonTypes, CleanPress, SeenUp
<1>4. QED
  BY <1>1, <1>2, <1>3 DEF PressMeansItsLength

LEMMA TickKeeps == ASSUME ButtonInv, NEW down \in BOOLEAN, Tick(down) PROVE ButtonInv'
<1> USE Limits
<1>1. ButtonTypes'
  <2>1. UNCHANGED <<raw, pressed, changedAt, pressedAt, fired, lastPass>> /\ buttonNow' = buttonNow + 1
    BY DEF Tick, pinVars
  <2>2. clean' \in BOOLEAN
    BY DEF Tick
  <2>3. downAt' \in Nat /\ upAt' \in Nat
    <3>1. downAt \in Nat /\ upAt \in Nat /\ buttonNow' \in Nat
      BY <2>1, Numbers DEF ButtonInv
    <3>2. downAt' \in {buttonNow', downAt} /\ upAt' \in {buttonNow', upAt}
      BY DEF Tick
    <3>3. QED
      BY <3>1, <3>2
  <2>4. contact' \in BOOLEAN
    BY DEF Tick
  <2>5. changedAt' \in Nat /\ pressedAt' \in Nat /\ buttonNow' \in Nat /\ lastPass' \in Nat /\ lastPass' =< buttonNow'
    BY <2>1, Numbers DEF ButtonInv
  <2>6. raw' \in BOOLEAN /\ pressed' \in BOOLEAN /\ fired' \subseteq {"short", "long", "very long"}
    BY <2>1 DEF ButtonInv, ButtonTypes
  <2>7. QED
    BY <2>2, <2>3, <2>4, <2>5, <2>6 DEF ButtonTypes
<1>2. OneMeaning'
  BY DEF ButtonInv, OneMeaning, Tick, pinVars
<1>3. ASSUME clean' PROVE CleanPress'
  <2>1. lastPass = buttonNow /\ UNCHANGED <<pinVars, lastPass>> /\ buttonNow' = buttonNow + 1 /\ contact' = down
        /\ (IF down /\ ~contact THEN Settled ELSE clean)
    BY <1>3 DEF Tick
  <2>2. buttonNow \in Nat /\ downAt \in Nat /\ upAt \in Nat /\ lastPass \in Nat
    BY DEF ButtonInv, ButtonTypes
  <2>3. CASE down /\ ~contact
    BY <2>1, <2>2, <2>3 DEF Tick, Settled, CleanPress, pinVars
  <2>4. CASE down /\ contact
    <3>1. CleanPress /\ downAt' = downAt /\ upAt' = upAt
      BY <2>1, <2>4 DEF ButtonInv, Tick
    <3>2. UNCHANGED <<raw, pressed, lastPass>>
      BY <2>1 DEF pinVars
    <3>3. lastPass >= downAt => SeenDown(lastPass)'
      <4>1. SUFFICES ASSUME lastPass >= downAt PROVE SeenDown(lastPass)'
        OBVIOUS
      <4>2. SeenDown(lastPass)
        BY <2>4, <3>1, <4>1 DEF CleanPress
      <4>3. QED
        BY <2>1, <3>1, <4>2 DEF pinVars, SeenDown, FiredAt, LongerThan
    <3>4. QED
      BY <2>1, <2>2, <2>4, <3>1, <3>2, <3>3 DEF CleanPress
  <2>5. CASE ~down /\ contact
    <3>1. CleanPress /\ downAt' = downAt /\ upAt' = buttonNow + 1
      BY <2>1, <2>5 DEF ButtonInv, Tick
    <3>2. SeenDown(lastPass)
      BY <2>1, <2>2, <2>5, <3>1 DEF CleanPress
    <3>3. SeenDown(lastPass)'
      BY <2>1, <3>1, <3>2 DEF pinVars, SeenDown, FiredAt, LongerThan
    <3>4. QED
      BY <2>1, <2>2, <2>5, <3>1, <3>3 DEF CleanPress
  <2>6. CASE ~down /\ ~contact
    <3>1. CleanPress /\ downAt' = downAt /\ upAt' = upAt
      BY <2>1, <2>6 DEF ButtonInv, Tick
    <3>2. SeenUp(lastPass)
      BY <2>1, <2>2, <2>6, <3>1 DEF CleanPress
    <3>3. SeenUp(lastPass)'
      BY <2>1, <3>1, <3>2 DEF pinVars, SeenUp, FiredAt, LongerThan, Meaning
    <3>4. QED
      BY <2>1, <2>2, <2>6, <3>1, <3>3 DEF CleanPress
  <2>7. QED
    BY <2>3, <2>4, <2>5, <2>6
<1>4. QED
  BY <1>1, <1>2, <1>3 DEF ButtonInv

(* What a pass makes of a clean press.                                      *)
LEMMA PassSees ==
  ASSUME ButtonInv, Pass, clean
  PROVE  /\ contact => SeenDown(buttonNow)'
         /\ ~contact => SeenUp(buttonNow)'
<1> USE Limits
<1>1. /\ buttonNow \in Nat /\ downAt \in Nat /\ upAt \in Nat /\ lastPass \in Nat /\ changedAt \in Nat
  BY DEF ButtonInv, ButtonTypes
<1>b. raw \in BOOLEAN /\ pressed \in BOOLEAN /\ contact \in BOOLEAN
  BY DEF ButtonInv, ButtonTypes
<1>2. /\ buttonNow = lastPass + 1 /\ lastPass' = buttonNow
      /\ UNCHANGED <<contact, buttonNow, downAt, upAt, clean>>
  BY <1>1 DEF ButtonInv, CleanPress, Pass
<1>3. CleanPress
  BY DEF ButtonInv
<1>4. ASSUME contact PROVE SeenDown(buttonNow)'
  <2>1. 0 < downAt /\ downAt =< buttonNow
    BY <1>3, <1>4 DEF CleanPress
  <2>2. CASE lastPass < downAt
    <3>1. ~raw /\ ~pressed /\ buttonNow = downAt
      BY <1>1, <1>2, <1>3, <1>4, <2>1, <2>2 DEF CleanPress
    <3>2. Changes
      BY <1>4, <3>1 DEF Pass, Bouncing
    <3>3. QED
      BY <1>1, <1>2, <1>4, <3>1, <3>2 DEF Changes, SeenDown
  <2>3. CASE lastPass >= downAt
    <3>1. SeenDown(lastPass)
      BY <1>3, <1>4, <2>3 DEF CleanPress
    <3>2. raw /\ changedAt = downAt /\ (pressed <=> lastPass >= downAt + Debounce) /\ ~Changes
      BY <1>4, <3>1 DEF SeenDown, Changes
    <3>3. CASE Bouncing
      <4>1. UNCHANGED <<raw, pressed, changedAt>>
        BY <3>2, <3>3 DEF Pass, pinVars
      <4>2. buttonNow < downAt + Debounce
        BY <1>1, <3>2, <3>3 DEF Bouncing
      <4>3. QED
        BY <1>1, <1>2, <3>2, <4>1, <4>2 DEF SeenDown
    <3>4. CASE ~Bouncing
      <4>1. /\ UNCHANGED <<raw, changedAt>>
            /\ Presses \/ HeldDown
        BY <1>4, <3>2, <3>4 DEF Pass, Releases
      <4>2. buttonNow >= downAt + Debounce
        BY <1>1, <1>4, <3>2, <3>4 DEF Bouncing
      <4>3. CASE Presses
        <5>1. buttonNow = downAt + Debounce
          BY <1>1, <1>2, <3>2, <4>2, <4>3 DEF Presses
        <5>2. LongerThan(buttonNow - downAt) = {}
          <6>1. buttonNow - downAt = Debounce
            BY <1>1, <5>1
          <6>2. ~(Debounce >= Debounce + Long) /\ ~(Debounce >= Debounce + VeryLong)
            OBVIOUS
          <6>3. LongerThan(Debounce) \subseteq {"long", "very long"} /\ "long" \notin LongerThan(Debounce)
                /\ "very long" \notin LongerThan(Debounce)
            <7>1. Debounce \in Int
              OBVIOUS
            <7>2. QED
              BY <6>2, <7>1, LongerIs
          <6>4. QED
            BY <6>1, <6>3
        <5>3. LongerThan(buttonNow - downAt)' = {}
          BY <1>2, <5>2 DEF LongerThan
        <5>4. FiredAt(buttonNow)'
          BY <1>2, <4>3, <5>1, <5>3 DEF FiredAt, Presses
        <5>5. raw' /\ changedAt' = downAt' /\ pressed' = TRUE /\ buttonNow' >= downAt' + Debounce
          BY <1>2, <3>2, <4>1, <4>2, <4>3 DEF Presses
        <5>6. QED
          BY <5>4, <5>5 DEF SeenDown
      <4>4. CASE HeldDown
        <5>1. pressedAt = downAt + Debounce /\ fired = LongerThan(lastPass - downAt)
          BY <3>1, <4>4 DEF SeenDown, FiredAt, HeldDown
        <5>2. Held = buttonNow - downAt - Debounce
          BY <1>1, <5>1 DEF Held
        <5>3. fired' = LongerThan(buttonNow - downAt)
          <6> DEFINE old == lastPass - downAt
                     new == buttonNow - downAt
          <6>1. old \in Int /\ new \in Int /\ new = old + 1
            BY <1>1, <1>2
          <6>2. /\ fired = LongerThan(old)
                /\ "long" \in fired <=> old >= Debounce + Long
                /\ "very long" \in fired <=> old >= Debounce + VeryLong
            BY <5>1, <6>1, LongerIs
          <6>3. /\ LongerThan(new) \subseteq {"long", "very long"} /\ fired \subseteq {"long", "very long"}
                /\ "long" \in LongerThan(new) <=> new >= Debounce + Long
                /\ "very long" \in LongerThan(new) <=> new >= Debounce + VeryLong
            BY <6>1, <6>2, LongerIs
          <6>4. (Held >= VeryLong <=> new >= Debounce + VeryLong) /\ (Held >= Long <=> new >= Debounce + Long)
            BY <1>1, <5>2
          <6>5. /\ old >= Debounce + Long => new >= Debounce + Long
                /\ old >= Debounce + VeryLong => new >= Debounce + VeryLong
                /\ new >= Debounce + VeryLong => old >= Debounce + Long
            BY <6>1
          <6> HIDE DEF old, new
          <6>6. IF new >= Debounce + VeryLong /\ "very long" \notin fired THEN fired' = fired \cup {"very long"}
                ELSE IF new >= Debounce + Long /\ "long" \notin fired THEN fired' = fired \cup {"long"}
                ELSE fired' = fired
            BY <4>4, <6>4, Zenon DEF HeldDown, Fires
          <6>7. fired' = LongerThan(new)
            <7> DEFINE VeryOld == old >= Debounce + VeryLong
                       LongOld == old >= Debounce + Long
                       VeryNew == new >= Debounce + VeryLong
                       LongNew == new >= Debounce + Long
            <7>1. (LongOld => LongNew) /\ (VeryOld => VeryNew) /\ (VeryNew => LongOld)
              BY <6>5
            <7>2. ("long" \in fired <=> LongOld) /\ ("very long" \in fired <=> VeryOld)
              BY <6>2
            <7>3. /\ LongerThan(new) \subseteq {"long", "very long"} /\ fired \subseteq {"long", "very long"}
                  /\ "long" \in LongerThan(new) <=> LongNew
                  /\ "very long" \in LongerThan(new) <=> VeryNew
              BY <6>3
            <7>4. IF VeryNew /\ "very long" \notin fired THEN fired' = fired \cup {"very long"}
                  ELSE IF LongNew /\ "long" \notin fired THEN fired' = fired \cup {"long"}
                  ELSE fired' = fired
              BY <6>6
            <7> HIDE DEF VeryOld, LongOld, VeryNew, LongNew
            <7>5. ASSUME NEW t PROVE t \in fired' <=> t \in LongerThan(new)
              <8>1. CASE t = "long"
                BY <7>1, <7>2, <7>3, <7>4, <8>1
              <8>2. CASE t = "very long"
                BY <7>1, <7>2, <7>3, <7>4, <8>2
              <8>3. CASE t \notin {"long", "very long"}
                BY <7>3, <7>4, <8>3
              <8>4. QED
                BY <8>1, <8>2, <8>3
            <7>6. QED
              BY <7>5
          <6>8. QED
            BY <6>7 DEF new
        <5>4. LongerThan(buttonNow - downAt)' = LongerThan(buttonNow - downAt)
          BY <1>2 DEF LongerThan
        <5>5. FiredAt(buttonNow)'
          BY <1>2, <4>4, <5>1, <5>3, <5>4 DEF FiredAt, HeldDown
        <5>6. raw' /\ changedAt' = downAt' /\ pressed' /\ buttonNow' >= downAt' + Debounce
          BY <1>2, <3>2, <4>1, <4>2, <4>4 DEF HeldDown
        <5>7. QED
          BY <5>5, <5>6 DEF SeenDown
      <4>5. QED
        BY <4>1, <4>3, <4>4
    <3>5. QED
      BY <3>3, <3>4
  <2>4. QED
    BY <1>1, <2>2, <2>3
<1>5. ASSUME ~contact PROVE SeenUp(buttonNow)'
  <2>1. downAt < upAt /\ upAt =< buttonNow
    BY <1>3, <1>5 DEF CleanPress
  <2>2. CASE lastPass < upAt
    <3>1. SeenDown(lastPass) /\ buttonNow = upAt
      BY <1>1, <1>2, <1>3, <1>5, <2>1, <2>2 DEF CleanPress
    <3>2. Changes
      BY <1>5, <3>1 DEF Pass, Bouncing, SeenDown
    <3>3. ~raw' /\ changedAt' = upAt' /\ buttonNow' < upAt' + Debounce
      BY <1>1, <1>2, <1>5, <3>1, <3>2 DEF Changes
    <3>4. (pressed <=> upAt - 1 >= downAt + Debounce) /\ (pressed => FiredAt(upAt - 1))
      <4>1. lastPass = upAt - 1
        BY <1>1, <1>2, <3>1
      <4>2. QED
        BY <3>1, <4>1 DEF SeenDown
    <3>5. (pressed <=> upAt - 1 >= downAt + Debounce)' /\ (pressed => FiredAt(upAt - 1))'
      BY <1>2, <3>2, <3>4 DEF Changes, FiredAt, LongerThan
    <3>6. ~(buttonNow' >= upAt' + Debounce)
      BY <1>1, <1>2, <3>3
    <3>7. QED
      BY <3>3, <3>5, <3>6 DEF SeenUp
  <2>3. CASE lastPass >= upAt
    <3>1. SeenUp(lastPass)
      BY <1>3, <1>5, <2>3 DEF CleanPress
    <3>2. ~raw /\ changedAt = upAt /\ ~Changes
      BY <1>b, <1>5, <3>1 DEF SeenUp, Changes
    <3>3. CASE Bouncing
      <4>1. UNCHANGED pinVars
        BY <3>2, <3>3 DEF Pass
      <4>2. buttonNow < upAt + Debounce /\ lastPass < upAt + Debounce
        BY <1>1, <1>2, <3>2, <3>3 DEF Bouncing
      <4>3. SeenUp(buttonNow)
        BY <1>1, <3>1, <4>2 DEF SeenUp
      <4>4. QED
        BY <1>2, <4>1, <4>3 DEF SeenUp, FiredAt, LongerThan, Meaning, pinVars
    <3>4. CASE ~Bouncing
      <4>1. /\ UNCHANGED <<raw, changedAt>>
            /\ Releases \/ (~pressed /\ UNCHANGED <<pressed, pressedAt, fired>>)
        BY <1>5, <3>2, <3>4 DEF Pass, Presses, HeldDown
      <4>2. buttonNow >= upAt + Debounce
        <5>1. ~(buttonNow - changedAt < Debounce) /\ changedAt = upAt
          BY <1>b, <1>5, <3>2, <3>4 DEF Bouncing
        <5>2. QED
          BY <1>1, <5>1
      <4>3. ASSUME upAt - 1 >= downAt + Debounce PROVE fired' = Meaning(upAt - downAt)
        <5>1. CASE lastPass >= upAt + Debounce
          <6>1. ~pressed /\ fired = Meaning(upAt - downAt)
            BY <3>1, <4>3, <5>1 DEF SeenUp
          <6>2. QED
            BY <4>1, <6>1 DEF Releases
        <5>2. CASE lastPass < upAt + Debounce
          <6>1. pressed /\ FiredAt(upAt - 1) /\ Releases
            BY <3>1, <4>1, <4>3, <5>2 DEF SeenUp
          <6>2. buttonNow = upAt + Debounce
            BY <1>1, <1>2, <4>2, <5>2
          <6>3. Held = upAt - downAt
            BY <1>1, <6>1, <6>2 DEF FiredAt, Held
          <6>4. fired = LongerThan((upAt - downAt) - 1)
            <7>1. (upAt - 1) - downAt = (upAt - downAt) - 1
              BY <1>1
            <7>2. QED
              BY <6>1, <7>1 DEF FiredAt
          <6>5. upAt - downAt < ShortMax => fired = {}
            <7>1. (upAt - downAt) - 1 \in Int
              BY <1>1
            <7>2. upAt - downAt < ShortMax => /\ ~((upAt - downAt) - 1 >= Debounce + Long)
                                              /\ ~((upAt - downAt) - 1 >= Debounce + VeryLong)
              BY <1>1
            <7>3. upAt - downAt < ShortMax => "long" \notin fired /\ "very long" \notin fired
              BY <6>4, <7>1, <7>2, LongerIs
            <7>4. fired \subseteq {"long", "very long"}
              BY <6>4, <7>1, LongerIs
            <7>5. QED
              BY <7>3, <7>4
          <6>6. CASE upAt - downAt \in ShortMin..(ShortMax - 1)
            <7>1. fired' = fired \cup {"short"}
              BY <1>1, <6>1, <6>3, <6>5, <6>6 DEF Releases, IsShort, Fires
            <7>2. QED
              BY <6>4, <6>6, <7>1 DEF Meaning
          <6>7. CASE upAt - downAt \notin ShortMin..(ShortMax - 1)
            <7>1. ~IsShort
              BY <1>1, <6>3, <6>7 DEF IsShort
            <7>2. fired' = fired
              BY <6>1, <7>1 DEF Releases
            <7>3. QED
              BY <6>4, <6>7, <7>2 DEF Meaning
          <6>8. QED
            BY <6>6, <6>7
        <5>3. QED
          BY <1>1, <5>1, <5>2
      <4>4. pressed' = FALSE
        BY <1>1, <4>1 DEF Releases
      <4>5. Meaning(upAt - downAt)' = Meaning(upAt - downAt)
        BY <1>2 DEF Meaning, LongerThan
      <4>6. ~(buttonNow' < upAt' + Debounce) /\ ~raw' /\ changedAt' = upAt'
        BY <1>1, <1>2, <3>2, <4>1, <4>2
      <4>7. (upAt - 1 >= downAt + Debounce => fired = Meaning(upAt - downAt))'
        BY <1>2, <4>3, <4>5
      <4>8. QED
        BY <4>4, <4>6, <4>7 DEF SeenUp
    <3>5. QED
      BY <3>3, <3>4
  <2>4. QED
    BY <1>1, <2>2, <2>3
<1>6. QED
  BY <1>4, <1>5

LEMMA PassKeeps == ASSUME ButtonInv, Pass PROVE ButtonInv'
<1> USE Limits
<1>a. \/ UNCHANGED <<pressed, fired>>
      \/ pressed' = TRUE /\ fired' = {}
      \/ pressed' = FALSE /\ fired' = fired
      \/ pressed' = FALSE /\ fired = {} /\ fired' = {"short"}
      \/ pressed /\ pressed' = pressed /\ \E trigger \in {"long", "very long"} : fired' = fired \cup {trigger}
  <2>1. CASE Changes \/ UNCHANGED pinVars \/ UNCHANGED <<pressed, pressedAt, fired>>
    BY <2>1 DEF Changes, pinVars
  <2>2. CASE Presses
    BY <2>2 DEF Presses
  <2>3. CASE Releases
    BY <2>3 DEF Releases, IsShort, Fires
  <2>4. CASE HeldDown
    BY <2>4, Zenon DEF HeldDown, Fires
  <2>5. QED
    BY <2>1, <2>2, <2>3, <2>4 DEF Pass
<1>1. ButtonTypes'
  <2>1. /\ contact' \in BOOLEAN /\ clean' \in BOOLEAN /\ raw' \in BOOLEAN /\ pressed' \in BOOLEAN
        /\ fired' \subseteq {"short", "long", "very long"}
    <3>1. raw' \in {raw, contact}
      BY DEF Pass, Changes, pinVars
    <3>2. QED
      BY <1>a, <3>1 DEF ButtonInv, ButtonTypes, Pass
  <2>2. changedAt' \in {changedAt, buttonNow} /\ pressedAt' \in {pressedAt, buttonNow}
    BY DEF Pass, Changes, Presses, Releases, HeldDown, pinVars
  <2>3. UNCHANGED <<buttonNow, downAt, upAt>> /\ lastPass' = buttonNow
    BY DEF Pass
  <2>4. /\ changedAt' \in Nat /\ pressedAt' \in Nat /\ buttonNow' \in Nat /\ lastPass' \in Nat
        /\ downAt' \in Nat /\ upAt' \in Nat /\ lastPass' =< buttonNow'
    BY <2>2, <2>3, Numbers DEF ButtonInv
  <2>5. QED
    BY <2>1, <2>4 DEF ButtonTypes
<1>2. OneMeaning'
  <2>1. ("short" \in fired => fired = {"short"}) /\ (pressed => "short" \notin fired)
    BY DEF ButtonInv, OneMeaning
  <2>2. CASE pressed /\ pressed' = pressed /\ \E trigger \in {"long", "very long"} : fired' = fired \cup {trigger}
    <3>1. "short" \notin fired'
      BY <2>1, <2>2
    <3>2. QED
      BY <3>1 DEF OneMeaning
  <2>3. CASE ~(pressed /\ pressed' = pressed /\ \E trigger \in {"long", "very long"} : fired' = fired \cup {trigger})
    <3>1. CASE UNCHANGED <<pressed, fired>>
      <4>1. pressed' = pressed /\ fired' = fired
        BY <3>1
      <4>2. QED
        BY <2>1, <4>1, Zenon DEF OneMeaning
    <3>2. CASE pressed' = TRUE /\ fired' = {}
      BY <3>2 DEF OneMeaning
    <3>3. CASE pressed' = FALSE /\ (fired' = fired \/ fired' = {"short"})
      BY <2>1, <3>3 DEF OneMeaning
    <3>4. QED
      BY <1>a, <2>3, <3>1, <3>2, <3>3
  <2>4. QED
    BY <2>2, <2>3
<1>3. ASSUME clean' PROVE CleanPress'
  <2>1. /\ clean /\ UNCHANGED <<contact, buttonNow, downAt, upAt>> /\ lastPass' = buttonNow
    BY <1>3 DEF Pass
  <2>2. buttonNow \in Nat /\ downAt \in Nat /\ upAt \in Nat
    BY DEF ButtonInv, ButtonTypes
  <2>3. (contact => SeenDown(buttonNow)') /\ (~contact => SeenUp(buttonNow)')
    BY <2>1, PassSees
  <2>4. (contact => SeenDown(lastPass)') /\ (~contact => SeenUp(lastPass)')
    BY <2>1, <2>3 DEF SeenDown, SeenUp, FiredAt
  <2>5. CleanPress
    BY <2>1 DEF ButtonInv
  <2>6. (contact => 0 < downAt /\ downAt =< buttonNow) /\ (~contact => downAt < upAt /\ upAt =< buttonNow)
    BY <2>5 DEF CleanPress
  <2>7. QED
    BY <2>1, <2>2, <2>4, <2>6 DEF CleanPress
<1>4. QED
  BY <1>1, <1>2, <1>3 DEF ButtonInv

(* README.md:209-213, button_service.cpp:75-127: whatever the contact does  *)
(* and however late loop() is, no press is both short and more; and one     *)
(* that does not bounce while loop() keeps its time does exactly what its   *)
(* length says, for any order-preserving choice of the limits.              *)
THEOREM PressesMeanTheirLength == ButtonSpec => []PressMeansItsLength
<1>1. ButtonInit => ButtonInv
  <2> SUFFICES ASSUME ButtonInit PROVE ButtonInv
    OBVIOUS
  <2>1. ButtonTypes
    <3>1. contact \in BOOLEAN /\ raw \in BOOLEAN /\ pressed \in BOOLEAN /\ clean \in BOOLEAN
      BY DEF ButtonInit
    <3>2. /\ changedAt = 0 /\ pressedAt = 0 /\ buttonNow = 0 /\ lastPass = 0 /\ downAt = 0 /\ upAt = 0
          /\ fired = {}
      BY DEF ButtonInit
    <3>3. QED
      BY <3>1, <3>2 DEF ButtonTypes
  <2>2. OneMeaning /\ ~clean
    BY DEF ButtonInit, OneMeaning
  <2>3. QED
    BY <2>1, <2>2 DEF ButtonInv
<1>2. ButtonInv /\ [ButtonNext]_buttonVars => ButtonInv'
  <2> SUFFICES ASSUME ButtonInv, [ButtonNext]_buttonVars PROVE ButtonInv'
    OBVIOUS
  <2>1. CASE Pass
    BY <2>1, PassKeeps
  <2>2. ASSUME NEW down \in BOOLEAN, Tick(down) PROVE ButtonInv'
    BY <2>2, TickKeeps
  <2>3. CASE UNCHANGED buttonVars
    BY <2>3 DEF buttonVars, pinVars, ButtonInv, ButtonTypes, OneMeaning, CleanPress, SeenDown, SeenUp,
      FiredAt, LongerThan, Meaning
  <2>4. QED
    BY <2>1, <2>2, <2>3 DEF ButtonNext
<1>3. QED
  BY <1>1, <1>2, ButtonEnough, PTL DEF ButtonSpec

-------------------------------------------------------------------------------
(* The rules a hardware profile must meet, for any requests.                *)

(* Two rows of one list that are told apart, in either order.               *)
LEMMA EitherOrder ==
  ASSUME NEW rows, DOMAIN rows \subseteq Nat, NEW i \in DOMAIN rows, NEW j \in DOMAIN rows, i # j
  PROVE  <<i, j>> \in Pairs(rows) \/ <<j, i>> \in Pairs(rows)
<1>1. i < j \/ j < i
  OBVIOUS
<1>2. QED
  BY <1>1 DEF Pairs

LEMMA ButtonsApart ==
  ASSUME NEW p, ButtonsGood(p), DOMAIN p.buttons \subseteq Nat,
         NEW i \in DOMAIN p.buttons, NEW j \in DOMAIN p.buttons, i # j,
         p.buttons[i].pin = p.buttons[j].pin
  PROVE  p.buttons[i].trigger # p.buttons[j].trigger
<1>1. \A pair \in Pairs(p.buttons) :
        ~(/\ p.buttons[pair[1]].pin = p.buttons[pair[2]].pin
          /\ p.buttons[pair[1]].trigger = p.buttons[pair[2]].trigger)
  BY DEF ButtonsGood
<1>2. CASE <<i, j>> \in Pairs(p.buttons)
  BY <1>1, <1>2
<1>3. CASE <<j, i>> \in Pairs(p.buttons)
  BY <1>1, <1>3
<1>4. QED
  BY <1>2, <1>3, EitherOrder

LEMMA LedsApart ==
  ASSUME NEW p, LedsGood(p), DOMAIN p.leds \subseteq Nat,
         NEW i \in DOMAIN p.leds, NEW j \in DOMAIN p.leds, i # j, p.leds[i].pin = p.leds[j].pin
  PROVE  /\ p.leds[i].kind = 1 /\ p.leds[j].kind = 1
         /\ p.leds[i].type = p.leds[j].type /\ p.leds[i].pos # p.leds[j].pos
<1>1. \A pair \in Pairs(p.leds) :
        p.leds[pair[1]].pin = p.leds[pair[2]].pin => MayShare(p.leds[pair[1]], p.leds[pair[2]])
  BY DEF LedsGood
<1>2. CASE <<i, j>> \in Pairs(p.leds)
  BY <1>1, <1>2 DEF MayShare, OneChain
<1>3. CASE <<j, i>> \in Pairs(p.leds)
  BY <1>1, <1>3 DEF MayShare, OneChain
<1>4. QED
  BY <1>2, <1>3, EitherOrder

LEMMA DriverShape ==
  ASSUME NEW p, NEW d \in Drivers(p)
  PROVE  \/ \E n \in FixedPins :
               Used(p, n) /\ p.pins[n] >= 0 /\ d = <<"fixed", n, p.pins[n]>> /\ d[1] = "fixed"
         \/ \E i \in DOMAIN p.buttons : d = <<"button", i, p.buttons[i].pin>> /\ d[1] = "button"
         \/ \E i \in DOMAIN p.leds : d = <<"led", i, p.leds[i].pin>> /\ d[1] = "led"
BY DEF Drivers

(* Drivers of different groups are different entries of the last group of   *)
(* validate().                                                              *)
LEMMA GroupsApart ==
  ASSUME NEW p, FixedGood(p), NEW d \in Drivers(p), NEW e \in Drivers(p), d # e, d[3] = e[3]
  PROVE  d[1] = e[1] /\ d[1] \in {"button", "led"}
<1>1. \A a, b \in FixedEntries(p) \cup RowEntries(p) : a # b => a[2] # b[2]
  BY DEF FixedGood
<1> DEFINE Entry(x) == IF x[1] = "fixed" THEN <<x[2], x[3]>> ELSE <<x[1], x[3]>>
<1>2. ASSUME NEW x \in Drivers(p)
      PROVE  /\ Entry(x) \in FixedEntries(p) \cup RowEntries(p)
             /\ x = <<x[1], x[2], x[3]>> /\ x[1] \in {"fixed", "button", "led"}
             /\ x[1] = "fixed" => x[2] \in FixedPins
  BY DEF Drivers, FixedEntries, RowEntries
<1>3. Entry(d) = Entry(e)
  BY <1>1, <1>2
<1>4. ~(d[1] = "fixed" /\ e[1] = "fixed")
  BY <1>2, <1>3
<1>5. \A n \in FixedPins : n # "button" /\ n # "led"
  BY DEF FixedPins, I2cPins, EthPins, EthBusPins
<1>6. QED
  BY <1>2, <1>3, <1>4, <1>5

LEMMA GoodKeepsApart ==
  ASSUME NEW p, validate(p), DOMAIN p.buttons \subseteq Nat, DOMAIN p.leds \subseteq Nat
  PROVE  /\ \A d, e \in Drivers(p) : d[3] = e[3] /\ d # e => MayMeet(p, d, e)
         /\ \A d \in Drivers(p) :
              d[3] \in ValidPins \ FlashPins /\ (Listens(d) \/ d[3] \in OutputPins)
<1> USE DEF validate
<1>1. ASSUME NEW d \in Drivers(p), NEW e \in Drivers(p), d[3] = e[3], d # e
      PROVE  MayMeet(p, d, e)
  <2>1. d[1] = e[1] /\ d[1] \in {"button", "led"}
    BY <1>1, GroupsApart
  <2>2. CASE d[1] = "button"
    <3>1. PICK i \in DOMAIN p.buttons : d = <<"button", i, p.buttons[i].pin>>
      BY <2>2, DriverShape
    <3>2. PICK j \in DOMAIN p.buttons : e = <<"button", j, p.buttons[j].pin>>
      BY <2>1, <2>2, DriverShape
    <3>3. QED
      BY <1>1, <3>1, <3>2, ButtonsApart DEF MayMeet
  <2>3. CASE d[1] = "led"
    <3>1. PICK i \in DOMAIN p.leds : d = <<"led", i, p.leds[i].pin>>
      BY <2>3, DriverShape
    <3>2. PICK j \in DOMAIN p.leds : e = <<"led", j, p.leds[j].pin>>
      BY <2>1, <2>3, DriverShape
    <3>3. QED
      BY <1>1, <3>1, <3>2, LedsApart DEF MayMeet
  <2>4. QED
    BY <2>1, <2>2, <2>3
<1>2. ASSUME NEW d \in Drivers(p)
      PROVE  d[3] \in ValidPins \ FlashPins /\ (Listens(d) \/ d[3] \in OutputPins)
  <2>1. \A entry \in FixedEntries(p) \cup RowEntries(p) :
          entry[2] \in ValidPins \ FlashPins /\ CanDrive(entry)
    BY DEF FixedGood, pinUsable
  <2>2. CASE \E n \in FixedPins : Used(p, n) /\ p.pins[n] >= 0 /\ d = <<"fixed", n, p.pins[n]>>
    <3>1. PICK n \in FixedPins : Used(p, n) /\ p.pins[n] >= 0 /\ d = <<"fixed", n, p.pins[n]>>
      BY <2>2
    <3>2. <<n, p.pins[n]>> \in FixedEntries(p)
      BY <3>1 DEF FixedEntries
    <3>3. n # "button"
      BY DEF FixedPins, I2cPins, EthPins, EthBusPins
    <3>4. p.pins[n] \in ValidPins \ FlashPins /\ (n \in InputPins \/ p.pins[n] \in OutputPins)
      BY <2>1, <3>2, <3>3 DEF CanDrive
    <3>5. QED
      BY <3>1, <3>4 DEF Listens
  <2>3. CASE \E i \in DOMAIN p.buttons : d = <<"button", i, p.buttons[i].pin>>
    <3>1. PICK i \in DOMAIN p.buttons : d = <<"button", i, p.buttons[i].pin>>
      BY <2>3
    <3>2. <<"button", p.buttons[i].pin>> \in RowEntries(p)
      BY DEF RowEntries
    <3>3. QED
      BY <2>1, <3>1, <3>2 DEF Listens
  <2>4. CASE \E i \in DOMAIN p.leds : d = <<"led", i, p.leds[i].pin>>
    <3>1. PICK i \in DOMAIN p.leds : d = <<"led", i, p.leds[i].pin>>
      BY <2>4
    <3>2. <<"led", p.leds[i].pin>> \in RowEntries(p)
      BY DEF RowEntries
    <3>3. p.leds[i].pin \in OutputPins
      BY DEF LedsGood
    <3>4. QED
      BY <2>1, <3>1, <3>2, <3>3
  <2>5. QED
    BY <2>2, <2>3, <2>4, DriverShape
<1>3. QED
  BY <1>1, <1>2

(* The casts and the trimming leave the fields of a profile in place, and   *)
(* what is trimmed fits.                                                    *)
LEMMA ListDomain ==
  ASSUME NEW rows, IsList(rows) PROVE DOMAIN rows = 1..Len(rows) /\ DOMAIN rows \subseteq Nat
BY DEF IsList

LEMMA ListMapped ==
  ASSUME NEW rows, IsList(rows), NEW f, f = [i \in DOMAIN rows |-> f[i]] PROVE IsList(f)
<1> DEFINE n == Len(rows)
           S == {f[i] : i \in 1..n}
<1>1. n \in Nat /\ DOMAIN rows = 1..n
  BY DEF IsList
<1> HIDE DEF n
<1>2. f = [i \in 1..n |-> f[i]] /\ f \in [1..n -> S]
  BY <1>1
<1>3. f \in Seq(S) /\ Len(f) = n
  BY <1>1, <1>2
<1>4. QED
  BY <1>1, <1>2, <1>3 DEF IsList

LEMMA CastProfile == ASSUME NEW p, IsProfile(p) PROVE IsProfile(Cast(p))
<1> DEFINE q == Cast(p)
           buttons == [i \in DOMAIN p.buttons |->
                         [p.buttons[i] EXCEPT !.pin = Int8(@), !.trigger = UInt8(@)]]
           leds == [i \in DOMAIN p.leds |->
                      [p.leds[i] EXCEPT !.pin = Int8(@), !.kind = UInt8(@), !.type = UInt8(@),
                                        !.pos = UInt8(@)]]
           rows == [i \in DOMAIN p.ledAssign |-> [p.ledAssign[i] EXCEPT !.condition = UInt8(@)]]
<1>1. q = [field \in Fields |-> q[field]]
  BY DEF IsProfile, Cast, Fields
<1>2. q.log = UInt16(p.log) /\ q.monitor = UInt16(p.monitor)
  BY DEF IsProfile, Cast, Fields
<1>3. q.log \in Nat /\ q.monitor \in Nat
  BY <1>2 DEF IsProfile, UInt16
<1>4. q.buttons = buttons /\ q.leds = leds /\ q.ledAssign = rows
  BY DEF IsProfile, Cast, Fields
<1>5. IsList(buttons) /\ IsList(leds) /\ IsList(rows)
  BY ListMapped DEF IsProfile
<1>6. QED
  BY <1>1, <1>3, <1>4, <1>5 DEF IsProfile

LEMMA ClampedProfile ==
  ASSUME NEW p, IsProfile(p)
  PROVE  IsProfile(clampMemory(p))
         /\ (Budget > 0 => clampMemory(p).log + clampMemory(p).monitor =< Budget)
<1> DEFINE log == IF p.log > Budget THEN Budget ELSE p.log
           monitor == IF log + p.monitor > Budget THEN Budget - log ELSE p.monitor
<1>1. Budget \in Int /\ p.log \in Nat /\ p.monitor \in Nat
  BY RulesAssumption DEF Budget, IsProfile
<1>2. CASE Budget =< 0
  BY <1>1, <1>2 DEF clampMemory
<1>3. CASE Budget > 0
  <2>1. log \in Nat /\ monitor \in Nat /\ log + monitor =< Budget
    BY <1>1, <1>3
  <2>2. clampMemory(p) = [p EXCEPT !.log = log, !.monitor = monitor]
    BY <1>1, <1>3 DEF clampMemory
  <2> HIDE DEF log, monitor
  <2>3. IsProfile([p EXCEPT !.log = log, !.monitor = monitor])
    BY <2>1 DEF IsProfile, Fields
  <2>4. /\ [p EXCEPT !.log = log, !.monitor = monitor].log = log
        /\ [p EXCEPT !.log = log, !.monitor = monitor].monitor = monitor
    BY <2>1 DEF IsProfile, Fields
  <2>5. QED
    BY <2>1, <2>2, <2>3, <2>4
<1>4. QED
  BY <1>1, <1>2, <1>3

RulesInv ==
  IsProfile(profile) /\ validate(profile) /\ (Budget > 0 => profile.log + profile.monitor =< Budget)

(* No accepted profile has two parts of the device on one pin or an output  *)
(* on a pin that cannot be one, for any chip, any requests and any number   *)
(* of rows.                                                                 *)
THEOREM AcceptedPinsApart == RulesSpec => []PinsKeptApart
<1>1. RulesInit => RulesInv
  BY ClampedProfile, RulesAssumption DEF RulesInit, RulesInv
<1>2. RulesInv /\ [RulesNext]_profile => RulesInv'
  <2> SUFFICES ASSUME RulesInv, [RulesNext]_profile PROVE RulesInv'
    OBVIOUS
  <2>1. CASE RulesNext
    <3>1. PICK request \in Requests : Apply(request)
      BY <2>1 DEF RulesNext
    <3> DEFINE p == clampMemory(Cast(request))
    <3>2. IsProfile(p) /\ (Budget > 0 => p.log + p.monitor =< Budget)
      BY CastProfile, ClampedProfile, RulesAssumption
    <3>3. profile' = IF validate(p) THEN p ELSE profile
      BY <3>1 DEF Apply
    <3> HIDE DEF p
    <3>4. CASE validate(p)
      BY <3>2, <3>3, <3>4 DEF RulesInv
    <3>5. CASE ~validate(p)
      BY <3>3, <3>5 DEF RulesInv
    <3>6. QED
      BY <3>4, <3>5
  <2>2. CASE UNCHANGED profile
    BY <2>2 DEF RulesInv
  <2>3. QED
    BY <2>1, <2>2
<1>3. RulesInv => PinsKeptApart
  <2> SUFFICES ASSUME RulesInv PROVE PinsKeptApart
    OBVIOUS
  <2>1. DOMAIN profile.buttons \subseteq Nat /\ DOMAIN profile.leds \subseteq Nat
    BY ListDomain DEF RulesInv, IsProfile
  <2>2. QED
    BY <2>1, GoodKeepsApart DEF RulesInv, PinsKeptApart
<1>4. QED
  BY <1>1, <1>2, <1>3, PTL DEF RulesSpec

-------------------------------------------------------------------------------
(* Status LEDs, for any rows.                                               *)

(* The profile while the LEDs run: what the code accepted.                  *)
LedProfile == IsProfile(profile) /\ validate(profile)

(* Two LEDs never share a place: rows on one pin are on one chain and at    *)
(* different positions.                                                     *)
LEMMA PlacesDiffer ==
  ASSUME LedProfile, NEW i \in LedsOf, NEW j \in LedsOf, i # j
  PROVE  Place(i) # Place(j)
<1>1. LedsGood(profile) /\ DOMAIN profile.leds \subseteq Nat
  BY DEF LedProfile, validate, IsProfile, IsList
<1>2. CASE profile.leds[i].pin = profile.leds[j].pin
  <2>1. /\ profile.leds[i].kind = 1 /\ profile.leds[j].kind = 1
        /\ profile.leds[i].pos # profile.leds[j].pos
    BY <1>1, <1>2, LedsApart DEF LedsOf
  <2>2. QED
    BY <2>1 DEF Place, IsRgb
<1>3. CASE profile.leds[i].pin # profile.leds[j].pin
  BY <1>3 DEF Place
<1>4. QED
  BY <1>2, <1>3

(* A place is on a chain exactly if its LED is on one: no plain LED shares  *)
(* the pin of a chain.                                                      *)
LEMMA ChainPlace ==
  ASSUME LedProfile, NEW i \in LedsOf
  PROVE  /\ Place(i) \in Places /\ Place(i)[1] = profile.leds[i].pin
         /\ Place(i)[1] \in ValidPins
         /\ IsRgb(i) <=> Place(i)[1] \in Chains
<1>1. Place(i) \in Places /\ Place(i)[1] = profile.leds[i].pin
  BY DEF Places, Place
<1>2. Place(i)[1] \in ValidPins
  BY <1>1 DEF LedProfile, validate, LedsGood, LedsOf, pinUsable
<1>3. IsRgb(i) => Place(i)[1] \in Chains
  BY <1>1 DEF Chains
<1>4. ASSUME Place(i)[1] \in Chains PROVE IsRgb(i)
  <2>1. PICK j \in LedsOf : IsRgb(j) /\ profile.leds[j].pin = profile.leds[i].pin
    BY <1>1, <1>4 DEF Chains
  <2>2. CASE j = i
    BY <2>1, <2>2
  <2>3. CASE j # i
    <3>1. LedsGood(profile) /\ IsList(profile.leds)
      BY DEF LedProfile, validate, IsProfile
    <3>2. DOMAIN profile.leds \subseteq Nat
      BY <3>1 DEF IsList
    <3>3. i \in DOMAIN profile.leds /\ j \in DOMAIN profile.leds
      BY <2>1 DEF LedsOf
    <3>4. profile.leds[i].kind = 1
      BY <2>1, <2>3, <3>1, <3>2, <3>3, LedsApart
    <3>5. QED
      BY <3>4 DEF IsRgb
  <2>4. QED
    BY <2>2, <2>3
<1>5. QED
  BY <1>1, <1>2, <1>3, <1>4

(* The first row that holds, as the property spells it out.                 *)
Right(i, light) == IF Dark(i) THEN light = Black ELSE ShowsRow(i, light)
LEMMA WantedRight ==
  ASSUME LedProfile, NEW i \in LedsOf, NEW light \in Wanted(i) PROVE Right(i, light)
<1> DEFINE Rows == RowsFor(i)
<1>1. Rows \in SUBSET Nat
  BY DEF RowsFor, LedProfile, IsProfile, IsList
<1>2. Dark(i) <=> Rows = {}
  BY DEF Dark, RowsFor, RowHolds
<1>3. CASE Rows = {}
  BY <1>2, <1>3 DEF Wanted, Right
<1>4. CASE Rows # {}
  <2> DEFINE first == FirstRow(i)
             row == profile.ledAssign[first]
  <2>1. first \in Rows /\ \A y \in Rows : first =< y
    BY <1>1, <1>4, FirstNumber DEF FirstRow
  <2>2. light \in Lights(row)
    BY <1>4 DEF Wanted
  <2>3. first \in DOMAIN profile.ledAssign /\ first \in Nat
        /\ row.target = profile.leds[i].name /\ row.condition \in holds
    BY <1>1, <2>1 DEF RowsFor, RowHolds
  <2>4. ASSUME NEW k \in 1..(first - 1), profile.ledAssign[k].target = row.target,
               profile.ledAssign[k].condition \in holds
        PROVE  FALSE
    <3>1. k \in DOMAIN profile.ledAssign
      BY <2>3 DEF LedProfile, IsProfile, IsList
    <3>2. k \in Rows
      BY <2>3, <2>4, <3>1 DEF RowsFor, RowHolds
    <3>3. QED
      BY <2>1, <2>3, <3>2
  <2>5. light = <<row.colour, bright>> \/ (light = Black /\ ~row.steady)
    BY <2>2 DEF Lights
  <2> HIDE DEF first
  <2>6. ShowsRow(i, light)
    BY <2>3, <2>4, <2>5 DEF ShowsRow
  <2>7. QED
    BY <1>2, <1>4, <2>6 DEF Right
<1>5. QED
  BY <1>3, <1>4

(* Where the loop is, and what the tables are over.                         *)
LedShape ==
  /\ LedsOf # {} /\ ledAt \in 1..Flush
  /\ px = [place \in Places |-> px[place]] /\ shown = [place \in Places |-> shown[place]]
  /\ dirty \subseteq Chains /\ toVisit \subseteq Chains /\ settled \in BOOLEAN
  /\ flushing \in Chains \cup {NoPin} /\ (flushing # NoPin => ledAt = Flush)

(* A chain shows its colours, or its transfer failed, or it is marked and   *)
(* flush() is still to come to it.                                          *)
ToCome(pin) == pin \in dirty /\ flushing # pin /\ (ledAt = Flush => pin \in toVisit)
ChainsFollow ==
  \A place \in Places :
    place[1] \in Chains \cap usable => \/ shown[place] = px[place]
                                     \/ place[1] \in missed
                                     \/ ToCome(place[1])

(* Since nothing changed, the LEDs of this pass have what they should.      *)
Has(i) == IF Place(i)[1] \in Chains THEN px[Place(i)] ELSE shown[Place(i)]
PaintedRight ==
  settled => \A i \in LedsOf : i < ledAt /\ Place(i)[1] \in usable => Has(i) \in Wanted(i)

LedInv == LedProfile /\ LedShape /\ ChainsFollow /\ PaintedRight

(* At the end of a pass that is all the property asks.                      *)
LEMMA LedInvEnough == LedInv => ShowsFirstRow
<1> SUFFICES ASSUME LedInv, PassOver, settled, NEW i \in LedsOf, Place(i)[1] \in usable \ missed
             PROVE  Right(i, shown[Place(i)])
  BY DEF ShowsFirstRow, Right
<1>1. Place(i) \in Places
  BY ChainPlace DEF LedInv
<1>2. Has(i) \in Wanted(i)
  <2>1. IsList(profile.leds)
    BY DEF LedInv, LedProfile, IsProfile
  <2>2. i < Flush
    BY <2>1 DEF IsList, LedsOf, Flush
  <2>3. QED
    BY <2>2 DEF LedInv, PaintedRight, PassOver
<1>3. Has(i) = shown[Place(i)]
  <2>1. CASE Place(i)[1] \in Chains
    BY <1>1, <2>1 DEF LedInv, ChainsFollow, ToCome, PassOver, Has
  <2>2. CASE Place(i)[1] \notin Chains
    BY <2>2 DEF Has
  <2>3. QED
    BY <2>1, <2>2
<1>4. QED
  BY <1>2, <1>3, WantedRight DEF LedInv

LEMMA LedInvInit == profile = FirstProfile /\ LedInit => LedInv
<1> SUFFICES ASSUME profile = FirstProfile, LedInit PROVE LedInv
  OBVIOUS
<1>1. LedProfile
  BY RulesAssumption DEF LedInit, LedProfile
<1>2. /\ px = [place \in Places |-> Black] /\ dirty = Chains \cap usable
      /\ shown = [place \in Places |-> IF place[1] \in Chains THEN Random ELSE Black]
      /\ ledAt = Flush /\ toVisit = Chains /\ flushing = NoPin /\ settled = FALSE
      /\ profile.leds # <<>>
  BY DEF LedInit
<1>3. IsList(profile.leds)
  BY <1>1 DEF LedProfile, IsProfile
<1>4. LedsOf # {} /\ ledAt \in 1..Flush
  <2>1. PICK n \in Nat : n = Len(profile.leds) /\ DOMAIN profile.leds = 1..n
    BY <1>3 DEF IsList
  <2>2. n # 0
    <3>1. n = 0 => profile.leds = <<>>
      BY <1>3, <2>1 DEF IsList
    <3>2. QED
      BY <1>2, <3>1
  <2>3. 1 \in LedsOf
    BY <2>1, <2>2 DEF LedsOf
  <2>4. ledAt = n + 1 /\ Flush = n + 1
    BY <1>2, <2>1 DEF Flush
  <2>5. QED
    BY <2>3, <2>4
<1>5. NoPin \notin Chains
  BY <1>1, ChainPlace, RulesAssumption DEF Chains, NoPin
<1>6. LedShape
  BY <1>2, <1>4 DEF LedShape
<1>7. ChainsFollow
  BY <1>2, <1>5 DEF ChainsFollow, ToCome
<1>8. QED
  BY <1>1, <1>2, <1>6, <1>7 DEF LedInv, PaintedRight

(* A step that keeps the LEDs and where the loop is, and unsettles.         *)
LEMMA LedEventKeeps ==
  ASSUME LedInv, LedEvent, UNCHANGED loopVars,
         profile' = profile \/ (ledAt = 1 /\ LedProfile' /\ profile'.leds = profile.leds),
         dirty' = dirty \/ dirty' = Chains \cap usable
  PROVE  LedInv'
<1> USE DEF loopVars
<1>1. LedProfile' /\ profile'.leds = profile.leds
  BY DEF LedInv, LedProfile
<1>2. /\ LedsOf' = LedsOf /\ Places' = Places /\ Chains' = Chains /\ Flush' = Flush
  BY <1>1 DEF LedsOf, Places, Place, Chains, IsRgb, Flush
<1>3. LedShape'
  BY <1>2 DEF LedInv, LedShape, LedEvent
<1>4. ASSUME NEW place \in Places, place[1] \in Chains \cap usable
      PROVE  \/ shown[place] = px[place] \/ place[1] \in missed
             \/ place[1] \in dirty' /\ flushing # place[1] /\ (ledAt = Flush => place[1] \in toVisit)
  BY <1>4 DEF LedInv, ChainsFollow, ToCome
<1>5. ChainsFollow'
  BY <1>2, <1>4 DEF ChainsFollow, ToCome
<1>6. PaintedRight'
  BY DEF LedEvent, PaintedRight
<1>7. QED
  BY <1>1, <1>3, <1>5, <1>6 DEF LedInv

LEMMA ReassignedKeeps ==
  ASSUME LedInv, NEW rows \in SomeAssigns, Reassigned(rows) PROVE LedInv'
<1> DEFINE p == [profile EXCEPT !.ledAssign = rows]
<1>1. profile = [field \in Fields |-> profile[field]] /\ IsProfile(profile) /\ IsList(rows)
  BY LedAssumption DEF LedInv, LedProfile, IsProfile
<1>2. p = [field \in Fields |-> p[field]]
  BY <1>1 DEF Fields
<1>3. p.ledAssign = rows /\ p.leds = profile.leds /\ p.buttons = profile.buttons
      /\ p.log = profile.log /\ p.monitor = profile.monitor
  BY <1>1 DEF Fields
<1>4. profile' = IF validate(p) THEN p ELSE profile
  BY DEF Reassigned
<1> HIDE DEF p
<1>5. IsProfile(p)
  BY <1>1, <1>2, <1>3 DEF IsProfile
<1>6. LedProfile' /\ profile'.leds = profile.leds
  BY <1>3, <1>4, <1>5 DEF LedInv, LedProfile
<1>7. QED
  BY <1>6, LedEventKeeps DEF Reassigned

(* What every step of the loop leaves alone.                                *)
LoopLeaves == UNCHANGED <<profile, holds, bright, usable>>
LEMMA LoopSame ==
  ASSUME LoopLeaves
  PROVE  /\ LedProfile' <=> LedProfile
         /\ LedsOf' = LedsOf /\ Places' = Places /\ Chains' = Chains /\ Flush' = Flush
         /\ \A i : Place(i)' = Place(i) /\ Wanted(i)' = Wanted(i)
<1> USE DEF LoopLeaves
<1>1. LedProfile' <=> LedProfile
  BY DEF LedProfile
<1>2. LedsOf' = LedsOf /\ Places' = Places /\ Chains' = Chains /\ Flush' = Flush
  BY DEF LedsOf, Places, Place, Chains, IsRgb, Flush
<1>3. ASSUME NEW i PROVE Place(i)' = Place(i) /\ Wanted(i)' = Wanted(i)
  BY DEF Place, IsRgb, Wanted, RowsFor, RowHolds, FirstRow, Lights
<1>4. QED
  BY <1>1, <1>2, <1>3

LEMMA PaintKeeps == ASSUME LedInv, PaintNext PROVE LedInv'
<1>0. PICK i \in LedsOf : i = ledAt
  BY DEF PaintNext
<1> DEFINE place == Place(i)
<1>1. LedProfile /\ LedShape /\ ChainsFollow /\ PaintedRight
  BY DEF LedInv
<1>2. LoopLeaves /\ UNCHANGED <<flushing, missed>> /\ i \in LedsOf /\ ledAt' = i + 1 /\ toVisit' = Chains
      /\ settled' = (settled \/ i = 1)
  BY <1>0 DEF PaintNext, LoopLeaves
<1>3. PICK light \in Wanted(i) : Paint(place, light)
  BY <1>0 DEF PaintNext
<1>4. IsList(profile.leds)
  BY <1>1 DEF LedProfile, IsProfile
<1>5. i \in Nat /\ 1 =< i /\ i < Flush /\ Flush \in Nat /\ LedsOf \subseteq Nat
  BY <1>2, <1>4, ListDomain DEF LedsOf, Flush, IsList
<1>6. flushing = NoPin
  BY <1>0, <1>1, <1>5 DEF LedShape
<1>7. NoPin \notin Chains
  BY <1>1, ChainPlace, RulesAssumption DEF Chains, NoPin
<1>8. place \in Places /\ \A j \in LedsOf : j # i => Place(j) # place
  BY <1>1, <1>2, ChainPlace, PlacesDiffer
<1> HIDE DEF place
<1>9. LedProfile' /\ LedsOf' = LedsOf /\ Places' = Places /\ Chains' = Chains /\ Flush' = Flush
  BY <1>1, <1>2, LoopSame
<1>10. \A j \in LedsOf : Has(j)' = IF Place(j)[1] \in Chains THEN px'[Place(j)] ELSE shown'[Place(j)]
  BY <1>2, <1>9, LoopSame DEF Has
<1>11. ASSUME place[1] \in usable => Has(i)' = light,
              \A j \in LedsOf : j # i => Has(j)' = Has(j)
       PROVE  PaintedRight'
  <2> SUFFICES ASSUME settled', NEW j \in LedsOf, j < ledAt', Place(j)[1] \in usable
               PROVE  Has(j)' \in Wanted(j)
    BY <1>2, <1>9, LoopSame DEF PaintedRight, LoopLeaves
  <2>1. CASE j = i
    BY <1>3, <1>11, <2>1 DEF place
  <2>2. CASE j # i
    <3>1. j < i /\ i # 1
      BY <1>2, <1>4, <1>5, <2>2, ListDomain DEF LedsOf
    <3>2. settled
      BY <1>2, <3>1
    <3>3. Has(j) \in Wanted(j)
      BY <1>0, <1>1, <3>1, <3>2 DEF PaintedRight
    <3>4. QED
      BY <1>11, <2>2, <3>3
  <2>3. QED
    BY <2>1, <2>2
<1>12. CASE place[1] \notin Chains
  <2>1. /\ shown' = [shown EXCEPT ![place] = Level(place[1], light)] /\ UNCHANGED <<px, dirty>>
    BY <1>3, <1>12 DEF Paint
  <2>2. LedShape'
    BY <1>1, <1>2, <1>5, <1>6, <1>9, <2>1 DEF LedShape
  <2>3. ChainsFollow'
    BY <1>0, <1>1, <1>2, <1>5, <1>6, <1>7, <1>8, <1>9, <1>12, <2>1
       DEF ChainsFollow, ToCome, LoopLeaves, LedShape
  <2>4. place[1] \in usable => shown'[place] = light
    BY <1>1, <1>8, <2>1 DEF Level, LedShape
  <2>5. \A j \in LedsOf : j # i => shown'[Place(j)] = shown[Place(j)]
    BY <1>1, <1>8, <2>1, ChainPlace DEF LedShape
  <2>6. place[1] \in usable => Has(i)' = light
    BY <1>2, <1>10, <1>12, <2>4 DEF place
  <2>7. \A j \in LedsOf : j # i => Has(j)' = Has(j)
    BY <1>10, <2>1, <2>5 DEF Has
  <2>8. QED
    BY <1>9, <1>11, <2>2, <2>3, <2>6, <2>7 DEF LedInv
<1>13. CASE place[1] \in Chains /\ place[1] \in usable /\ Marks(place, light)
  <2>1. px' = [px EXCEPT ![place] = light] /\ dirty' = dirty \cup {place[1]} /\ UNCHANGED shown
    BY <1>3, <1>13 DEF Paint
  <2>2. LedShape'
    BY <1>1, <1>2, <1>5, <1>6, <1>9, <1>13, <2>1 DEF LedShape
  <2>3. ChainsFollow'
    <3> SUFFICES ASSUME NEW at \in Places, at[1] \in Chains \cap usable
                 PROVE  \/ shown'[at] = px'[at] \/ at[1] \in missed'
                        \/ at[1] \in dirty' /\ flushing' # at[1] /\ at[1] \in toVisit'
      BY <1>2, <1>9 DEF ChainsFollow, ToCome, LoopLeaves
    <3>1. flushing' # at[1] /\ at[1] \in toVisit'
      BY <1>2, <1>6, <1>7
    <3>2. CASE at = place
      BY <2>1, <3>1, <3>2
    <3>3. CASE at # place
      <4>1. px'[at] = px[at] /\ shown'[at] = shown[at]
        BY <1>1, <2>1, <3>3 DEF LedShape
      <4>2. QED
        BY <1>1, <1>2, <2>1, <3>1, <4>1 DEF ChainsFollow, ToCome
    <3>4. QED
      BY <3>2, <3>3
  <2>4. px'[place] = light
    BY <1>1, <1>8, <2>1 DEF LedShape
  <2>5. \A j \in LedsOf : j # i => px'[Place(j)] = px[Place(j)]
    BY <1>1, <1>8, <2>1, ChainPlace DEF LedShape
  <2>6. Has(i)' = light
    BY <1>2, <1>10, <1>13, <2>4 DEF place
  <2>7. \A j \in LedsOf : j # i => Has(j)' = Has(j)
    BY <1>10, <2>1, <2>5 DEF Has
  <2>8. QED
    BY <1>9, <1>11, <2>2, <2>3, <2>6, <2>7 DEF LedInv
<1>14. CASE place[1] \in Chains /\ ~(place[1] \in usable /\ Marks(place, light))
  <2>1. UNCHANGED <<px, dirty, shown>>
    BY <1>3, <1>14 DEF Paint
  <2>2. LedShape'
    BY <1>1, <1>2, <1>5, <1>6, <1>9, <2>1 DEF LedShape
  <2>3. ChainsFollow'
    BY <1>0, <1>1, <1>2, <1>5, <1>6, <1>7, <1>9, <2>1 DEF ChainsFollow, ToCome, LoopLeaves, LedShape
  <2>4. place[1] \in usable => Has(i)' = light
    BY <1>2, <1>10, <1>14, <2>1 DEF place, Marks
  <2>5. \A j \in LedsOf : j # i => Has(j)' = Has(j)
    BY <1>10, <2>1 DEF Has
  <2>6. QED
    BY <1>9, <1>11, <2>2, <2>3, <2>4, <2>5 DEF LedInv
<1>15. QED
  BY <1>12, <1>13, <1>14

(* Whatever leaves the colours and the plain LEDs alone keeps what was      *)
(* painted.                                                                 *)
LEMMA PaintedStays ==
  ASSUME LedInv, LoopLeaves, UNCHANGED <<px, settled>>, ledAt' = ledAt \/ ledAt' = 1,
         \A place \in Places : place[1] \notin Chains => shown'[place] = shown[place]
  PROVE  PaintedRight'
<1>1. LedProfile /\ PaintedRight /\ IsList(profile.leds)
  BY DEF LedInv, LedProfile, IsProfile
<1>2. \A j \in LedsOf : Has(j)' = Has(j)
  BY <1>1, LoopSame, ChainPlace DEF Has
<1>3. \A j \in LedsOf : j \in Nat /\ 1 =< j
  BY <1>1, ListDomain DEF LedsOf
<1>4. ledAt' = 1 => \A j \in LedsOf : ~(j < ledAt')
  BY <1>3
<1>5. /\ LedsOf' = LedsOf /\ usable' = usable
      /\ \A j : Place(j)' = Place(j) /\ Wanted(j)' = Wanted(j)
  BY LoopSame DEF LoopLeaves
<1>6. QED
  BY <1>1, <1>2, <1>4, <1>5 DEF PaintedRight

LEMMA VisitKeeps == ASSUME LedInv, NEW pin \in Chains, Visit(pin) PROVE LedInv'
<1>1. LedProfile /\ LedShape /\ ChainsFollow /\ PaintedRight
  BY DEF LedInv
<1>2. /\ LoopLeaves /\ UNCHANGED <<px, dirty, ledAt, settled>> /\ ledAt = Flush
      /\ flushing = NoPin /\ toVisit' = toVisit \ {pin}
  BY DEF Visit, LoopLeaves
<1>3. LedProfile' /\ LedsOf' = LedsOf /\ Places' = Places /\ Chains' = Chains /\ Flush' = Flush
  BY <1>1, <1>2, LoopSame
<1>4. CASE pin \notin dirty
  <2>1. UNCHANGED <<flushing, shown, missed>>
    BY <1>4 DEF Visit
  <2>2. LedShape'
    BY <1>1, <1>2, <1>3, <2>1 DEF LedShape
  <2>3. ChainsFollow'
    BY <1>1, <1>2, <1>3, <1>4, <2>1 DEF ChainsFollow, ToCome, LoopLeaves
  <2>4. QED
    BY <1>2, <1>3, <2>1, <2>2, <2>3, PaintedStays DEF LedInv
<1>5. CASE pin \in dirty /\ missed' = missed \cup {pin} /\ UNCHANGED shown
  <2>1. flushing' = pin
    BY <1>5 DEF Visit
  <2>2. LedShape'
    BY <1>1, <1>2, <1>3, <1>5, <2>1 DEF LedShape
  <2>3. ChainsFollow'
    BY <1>1, <1>2, <1>3, <1>5, <2>1 DEF ChainsFollow, ToCome, LoopLeaves
  <2>4. QED
    BY <1>2, <1>3, <1>5, <2>2, <2>3, PaintedStays DEF LedInv
<1>6. CASE /\ pin \in dirty /\ missed' = missed \ {pin}
           /\ shown' = [place \in Places |-> IF place \in OnPin(pin) THEN px[place] ELSE shown[place]]
  <2>1. flushing' = pin
    BY <1>6 DEF Visit
  <2>2. LedShape'
    BY <1>1, <1>2, <1>3, <1>6, <2>1 DEF LedShape
  <2>3. \A place \in Places : shown'[place] = IF place[1] = pin THEN px[place] ELSE shown[place]
    BY <1>6 DEF OnPin
  <2>4. ChainsFollow'
    BY <1>1, <1>2, <1>3, <1>6, <2>1, <2>3 DEF ChainsFollow, ToCome, LoopLeaves
  <2>5. \A place \in Places : place[1] \notin Chains => shown'[place] = shown[place]
    BY <2>3
  <2>6. QED
    BY <1>2, <1>3, <2>2, <2>4, <2>5, PaintedStays DEF LedInv
<1>7. QED
  BY <1>4, <1>5, <1>6 DEF Visit

LEMMA MarkCleanKeeps == ASSUME LedInv, MarkClean PROVE LedInv'
<1>1. LedProfile /\ LedShape /\ ChainsFollow /\ PaintedRight
  BY DEF LedInv
<1>2. /\ LoopLeaves /\ UNCHANGED <<px, shown, ledAt, toVisit, missed, settled>>
      /\ flushing # NoPin /\ flushing' = NoPin /\ dirty' = dirty \ {flushing}
  BY DEF MarkClean, LoopLeaves
<1>3. LedProfile' /\ LedsOf' = LedsOf /\ Places' = Places /\ Chains' = Chains /\ Flush' = Flush
  BY <1>1, <1>2, LoopSame
<1>4. LedShape'
  BY <1>1, <1>2, <1>3 DEF LedShape
<1>5. NoPin \notin Chains
  BY <1>1, ChainPlace, RulesAssumption DEF Chains, NoPin
<1>6. ChainsFollow'
  BY <1>1, <1>2, <1>3, <1>5 DEF ChainsFollow, ToCome, LoopLeaves
<1>7. QED
  BY <1>2, <1>3, <1>4, <1>6, PaintedStays DEF LedInv

LEMMA PassEndsKeeps == ASSUME LedInv, PassEnds PROVE LedInv'
<1>1. LedProfile /\ LedShape /\ ChainsFollow /\ PaintedRight
  BY DEF LedInv
<1>2. /\ LoopLeaves /\ UNCHANGED <<px, dirty, shown, toVisit, flushing, missed, settled>>
      /\ PassOver /\ ledAt' = 1
  BY DEF PassEnds, LoopLeaves
<1>3. LedProfile' /\ LedsOf' = LedsOf /\ Places' = Places /\ Chains' = Chains /\ Flush' = Flush
  BY <1>1, <1>2, LoopSame
<1>4. LedShape'
  BY <1>1, <1>2, <1>3 DEF LedShape, PassOver
<1>5. ChainsFollow'
  BY <1>1, <1>2, <1>3 DEF ChainsFollow, ToCome, LoopLeaves, PassOver
<1>6. QED
  BY <1>2, <1>3, <1>4, <1>5, PaintedStays DEF LedInv

(* When a pass is over and nothing changed during it, every LED shows the   *)
(* first of its rows that holds, for any LEDs, rows, conditions and chains. *)
THEOREM LedsShowFirstRow == LedSpec => []ShowsFirstRow
<1>1. LedInv /\ [LedNext]_ledVars => LedInv'
  <2> SUFFICES ASSUME LedInv, [LedNext]_ledVars PROVE LedInv'
    OBVIOUS
  <2>1. CASE LedLoop
    BY <2>1, PaintKeeps, VisitKeeps, MarkCleanKeeps, PassEndsKeeps DEF LedLoop
  <2>2. ASSUME NEW c \in Conditions, ConditionChanges(c) PROVE LedInv'
    BY <2>2, LedEventKeeps DEF ConditionChanges
  <2>3. ASSUME NEW b \in Brightnesses, Brightness(b) PROVE LedInv'
    BY <2>3, LedEventKeeps DEF Brightness
  <2>4. ASSUME NEW rows \in SomeAssigns, Reassigned(rows) PROVE LedInv'
    BY <2>4, ReassignedKeeps
  <2>5. CASE UNCHANGED ledVars
    <3>1. LoopLeaves /\ UNCHANGED <<px, dirty, shown, ledAt, toVisit, flushing, missed, settled>>
      BY <2>5 DEF ledVars, LoopLeaves
    <3>2. /\ LedProfile' /\ LedsOf' = LedsOf /\ Places' = Places /\ Chains' = Chains
          /\ Flush' = Flush /\ usable' = usable
      BY <3>1, LoopSame DEF LedInv, LoopLeaves
    <3>3. LedShape'
      BY <3>1, <3>2 DEF LedInv, LedShape
    <3>4. ChainsFollow'
      BY <3>1, <3>2 DEF LedInv, ChainsFollow, ToCome
    <3>5. QED
      BY <3>1, <3>2, <3>3, <3>4, PaintedStays DEF LedInv
  <2>6. QED
    BY <2>1, <2>2, <2>3, <2>4, <2>5 DEF LedNext
<1>2. QED
  BY <1>1, LedInvInit, LedInvEnough, PTL DEF LedSpec

-------------------------------------------------------------------------------
(* The online update, for any images, clients and number of chunks.         *)

States == {"undefined", "new", "pending", "valid", "aborted"}
Chunked == Images \X Nat
AnyUpdate == [on : BOOLEAN, error : BOOLEAN, size : Nat, data : Seq(Chunked)]
Updates == {u \in AnyUpdate : ~(u.on /\ u.error)}
Uploads == [error : BOOLEAN, hashFailed : BOOLEAN, sha : Images, hashed : Seq(Chunked)]
UploadSides == [sent : 0..Chunks, sha : Images, refused : BOOLEAN]
InstallSides ==
  [at : {"none", "get", "begin", "write", "restart"}, image : Images, written : 0..Chunks]
SlotSides == [image : Images, state : States]

Described == gUrl \in Images /\ gSha256 \in Images
Sides ==
  /\ installs \in [Installs -> InstallSides]
  /\ upload \in Uploads /\ clients \in [Clients -> UploadSides]
  /\ update \in Updates /\ alone \subseteq Installs \cup Clients
SlotTypes ==
  /\ flash \in [Slots -> SlotSides] /\ running \in Slots /\ boot \in Slots
  /\ {switched, stuck, picked} \subseteq BOOLEAN

(* A record with one field replaced.                                        *)
LEMMA UpdateWith ==
  ASSUME NEW r \in AnyUpdate, NEW n
  PROVE  /\ n = [r EXCEPT !.on = TRUE]
              => n = [on |-> TRUE, error |-> r.error, size |-> r.size, data |-> r.data]
         /\ n = [r EXCEPT !.error = TRUE]
              => n = [on |-> r.on, error |-> TRUE, size |-> r.size, data |-> r.data]
         /\ \A size \in Nat : n = [r EXCEPT !.size = size]
              => n = [on |-> r.on, error |-> r.error, size |-> size, data |-> r.data]
         /\ \A data \in Seq(Chunked) : n = [r EXCEPT !.data = data]
              => n = [on |-> r.on, error |-> r.error, size |-> r.size, data |-> data]
<1>1. ASSUME n = [r EXCEPT !.on = TRUE]
      PROVE  n = [on |-> TRUE, error |-> r.error, size |-> r.size, data |-> r.data]
  BY <1>1 DEF AnyUpdate
<1>2. ASSUME n = [r EXCEPT !.error = TRUE]
      PROVE  n = [on |-> r.on, error |-> TRUE, size |-> r.size, data |-> r.data]
  BY <1>2 DEF AnyUpdate
<1>3. ASSUME NEW size \in Nat, n = [r EXCEPT !.size = size]
      PROVE  n = [on |-> r.on, error |-> r.error, size |-> size, data |-> r.data]
  BY <1>3 DEF AnyUpdate
<1>4. ASSUME NEW data \in Seq(Chunked), n = [r EXCEPT !.data = data]
      PROVE  n = [on |-> r.on, error |-> r.error, size |-> r.size, data |-> data]
  BY <1>4 DEF AnyUpdate
<1>5. QED
  BY <1>1, <1>2, <1>3, <1>4

LEMMA FreshUpdates ==
  ASSUME NEW size \in Nat
  PROVE  /\ Begun(size) = [on |-> TRUE, error |-> FALSE, size |-> size, data |-> <<>>]
         /\ Aborted = [on |-> FALSE, error |-> TRUE, size |-> 0, data |-> <<>>]
         /\ NoUpdate \in Updates /\ Aborted \in Updates /\ Begun(size) \in Updates
<1>1. NoUpdate \in Updates
  BY DEF NoUpdate, Updates, AnyUpdate
<1>2. Aborted = [on |-> FALSE, error |-> TRUE, size |-> 0, data |-> <<>>]
  BY <1>1, UpdateWith DEF Aborted, NoUpdate, Updates
<1>3. Begun(size) = [on |-> TRUE, error |-> FALSE, size |-> size, data |-> <<>>]
  <2> DEFINE opened == [NoUpdate EXCEPT !.on = TRUE]
  <2>1. opened = [on |-> TRUE, error |-> FALSE, size |-> 0, data |-> <<>>]
    BY <1>1, UpdateWith DEF NoUpdate, Updates
  <2>2. Begun(size) = [opened EXCEPT !.size = size]
    BY DEF Begun
  <2> HIDE DEF opened
  <2>3. opened \in AnyUpdate
    BY <2>1 DEF AnyUpdate
  <2>4. QED
    BY <2>1, <2>2, <2>3, UpdateWith
<1>4. QED
  BY <1>1, <1>2, <1>3 DEF Updates, AnyUpdate

(* A chunk goes behind the others, or the Update is aborted.                *)
LEMMA WrittenUpdate ==
  ASSUME NEW u \in Updates, NEW x \in Chunked
  PROVE  /\ Written(u, x) \in Updates
         /\ Accepts(u) => Written(u, x).on /\ Written(u, x).data = Append(u.data, x)
         /\ ~Accepts(u) => ~Written(u, x).on
<1>1. CASE Accepts(u)
  <2>1. Append(u.data, x) \in Seq(Chunked)
    BY DEF Updates, AnyUpdate
  <2>2. Written(u, x)
          = [on |-> u.on, error |-> u.error, size |-> u.size, data |-> Append(u.data, x)]
    <3>1. Written(u, x) = [u EXCEPT !.data = Append(u.data, x)]
      BY <1>1 DEF Written
    <3>2. QED
      BY <2>1, <3>1, UpdateWith DEF Updates
  <2>3. QED
    BY <1>1, <2>1, <2>2 DEF Updates, AnyUpdate, Accepts
<1>2. CASE ~Accepts(u)
  BY <1>2, FreshUpdates DEF Written
<1>3. QED
  BY <1>1, <1>2

LEMMA EndedUpdate == ASSUME NEW u \in Updates PROVE Ended(u) \in Updates /\ ~Ended(u).on
BY FreshUpdates DEF Ended, NoUpdate

LEMMA ChunksTyped ==
  ASSUME NEW image \in Images, NEW k \in Nat PROVE Chunk(image, k) \in Chunked
BY DEF Chunk, Chunked

(* What an Update holds as a whole names its image by the last chunk.       *)
LEMMA LastChunk ==
  ASSUME NEW image \in Images
  PROVE  Full(image) \in Seq(Chunked) /\ Len(Full(image)) = Chunks
         /\ Full(image)[Chunks] = <<image, Chunks>>
<1>1. \A k \in 1..Chunks : Chunk(image, k) \in Chunked
  BY ChunksTyped, OtaAssumption
<1>2. QED
  BY <1>1, OtaAssumption DEF Full, Chunk

LEMMA WholeImage ==
  ASSUME NEW u \in Updates, Whole(u)
  PROVE  ImageIn(u) \in Images /\ u.data = Full(ImageIn(u))
BY DEF Whole, ImageIn
---------------------------------------------------------------------------
(* The slots. All steps but a start and loop() write the slot that does not *)
(* run, and never mark anything valid.                                      *)
WritesOther ==
  \/ UNCHANGED flash
  \/ Overwrites
  \/ \E image \in Images : flash' = SlotIs(image, "new")
NotedByUser == switched => picked \/ stuck
SlotInv == SlotTypes /\ NotedByUser

LEMMA OtherSlot ==
  ASSUME SlotTypes, WritesOther
  PROVE  /\ flash' \in [Slots -> SlotSides]
         /\ \A s \in Slots : flash'[s].state = "valid" => flash[s].state = "valid"
<1> USE DEF SlotTypes, SlotSides
<1>1. ASSUME NEW image \in Images, NEW state \in {"new", flash[Other(running)].state},
             flash' = SlotIs(image, state)
      PROVE  /\ flash' \in [Slots -> SlotSides]
             /\ \A s \in Slots : flash'[s].state = "valid" => flash[s].state = "valid"
  <2>1. Other(running) \in Slots /\ state \in States
    BY DEF Other, Slots, States
  <2> DEFINE side == [image |-> image, state |-> state]
  <2>2. side \in SlotSides /\ side.state = state
    BY <2>1
  <2>3. flash' = [flash EXCEPT ![Other(running)] = side]
    BY <1>1 DEF SlotIs
  <2> HIDE DEF side
  <2>4. QED
    BY <2>1, <2>2, <2>3 DEF States
<1>2. CASE Overwrites
  BY <1>1, <1>2 DEF Overwrites, Images
<1>3. CASE \E image \in Images : flash' = SlotIs(image, "new")
  BY <1>1, <1>3
<1>4. CASE UNCHANGED flash
  BY <1>4
<1>5. QED
  BY <1>2, <1>3, <1>4 DEF WritesOther

(* What loop() marks valid is the slot that runs.                           *)
LEMMA MarkedSlot ==
  ASSUME SlotTypes, MarksValid PROVE flash' \in [Slots -> SlotSides]
<1> DEFINE state == IF flash[running].state = "pending" THEN "valid" ELSE flash[running].state
           side == [flash[running] EXCEPT !.state = state]
<1>1. state \in States /\ flash[running] \in SlotSides
  BY DEF SlotTypes, States, SlotSides
<1>2. flash' = [flash EXCEPT ![running] = side]
  BY DEF MarksValid
<1> HIDE DEF state
<1>3. side \in SlotSides
  BY <1>1 DEF SlotSides
<1> HIDE DEF side
<1>4. QED
  BY <1>2, <1>3 DEF SlotTypes

(* A start changes no image, and marks nothing valid.                       *)
LEMMA StartedSlots ==
  ASSUME SlotTypes, Reboots
  PROVE  /\ flash' \in [Slots -> SlotSides] /\ running' \in Slots /\ boot' \in Slots
         /\ \A s \in Slots : /\ flash'[s].image = flash[s].image
                             /\ flash'[s].state = "valid" => flash[s].state = "valid"
<1>1. BootSlot \in Slots
  BY DEF BootSlot, SlotTypes, Slots, Other
<1>2. ASSUME NEW s \in Slots
      PROVE  flash'[s].image = flash[s].image /\ flash'[s] \in SlotSides
             /\ (flash'[s].state = "valid" => flash[s].state = "valid")
  <2> DEFINE state == IF s = BootSlot /\ Judged(s) = "new" THEN "pending" ELSE Judged(s)
  <2>1. state \in States /\ flash[s] \in SlotSides /\ (state = "valid" => flash[s].state = "valid")
    BY DEF Judged, SlotTypes, SlotSides, States
  <2>2. flash'[s] = [flash[s] EXCEPT !.state = state]
    BY DEF Reboots
  <2> HIDE DEF state
  <2>3. QED
    BY <2>1, <2>2 DEF SlotSides
<1>3. flash' = [s \in Slots |-> flash'[s]]
  BY DEF Reboots
<1>4. flash' \in [Slots -> SlotSides]
  BY <1>2, <1>3
<1>5. QED
  BY <1>1, <1>2, <1>4 DEF Reboots

(* All that the two tasks and the requests do to the slots.                 *)
SlotsAsBefore == running' = running /\ boot' \in {boot, Other(running)} /\ WritesOther

LEMMA InstallSlots ==
  ASSUME SlotTypes, NEW i \in Installs, InstallStep(i)
  PROVE  SlotsAsBefore /\ UNCHANGED <<switched, stuck, picked>>
<1> USE DEF SlotsAsBefore, WritesOther
<1>1. UNCHANGED <<running, switched, stuck, picked>>
  BY DEF InstallStep
<1>2. CASE InstallGet(i)
  BY <1>1, <1>2 DEF InstallGet, InstallFails
<1>3. CASE InstallBegin(i)
  BY <1>1, <1>3 DEF InstallBegin, InstallFails
<1>4. CASE InstallWrite(i)
  BY <1>1, <1>4 DEF InstallWrite, InstallFails
<1>5. CASE InstallEnd(i)
  <2>1. CASE DigestMatches(i) /\ Whole(update)
    <3>1. ImageIn(update) \in Images
      BY <2>1 DEF Whole, ImageIn
    <3>2. QED
      BY <1>1, <1>5, <2>1, <3>1 DEF InstallEnd, Activates
  <2>2. CASE ~(DigestMatches(i) /\ Whole(update))
    BY <1>1, <1>5, <2>2 DEF InstallEnd, InstallFails
  <2>3. QED
    BY <2>1, <2>2
<1>6. QED
  BY <1>2, <1>3, <1>4, <1>5 DEF InstallStep

LEMMA UploadSlots ==
  ASSUME SlotTypes, NEW c \in Clients, Upload(c)
  PROVE  SlotsAsBefore /\ UNCHANGED <<switched, stuck, picked>>
<1> USE DEF SlotsAsBefore, WritesOther
<1>1. CASE UploadRefused(c) \/ Answer(c) \/ UploadLost(c)
  BY <1>1 DEF UploadRefused, Answer, UploadLost, slotVars
<1>2. ASSUME NEW sha, UploadBegins(c, sha) PROVE SlotsAsBefore /\ UNCHANGED <<switched, stuck, picked>>
  BY <1>2 DEF UploadBegins
<1>3. CASE UploadNext(c)
  <2> DEFINE sent == clients[c].sent + 1
             now == IF update.on /\ ~update.error THEN Written(update, Chunk(c, sent)) ELSE update
  <2>1. Whole(now) => ImageIn(now) \in Images
    BY DEF Whole, ImageIn
  <2>2. /\ UNCHANGED <<running, switched, stuck, picked>>
        /\ \/ Whole(now) /\ Activates(ImageIn(now))
           \/ Overwrites /\ UNCHANGED boot
           \/ UNCHANGED <<flash, boot>>
    BY <1>3 DEF UploadNext
  <2> HIDE DEF now
  <2>3. QED
    BY <2>1, <2>2 DEF Activates
<1>4. QED
  BY <1>1, <1>2, <1>3 DEF Upload

LEMMA RequestSlots ==
  ASSUME SlotTypes, StartCheck \/ (\E k \in Checks : CheckStep(k)) \/ StartInstall \/ AnswerEmpty \/ SwitchPartition
  PROVE  SlotsAsBefore /\ (UNCHANGED <<switched, stuck, picked>> \/ (picked' = TRUE /\ stuck' = stuck))
<1> USE DEF SlotsAsBefore, WritesOther
<1>1. CASE SwitchPartition
  <2>1. flash[Other(running)].image \in Images
    BY DEF SlotTypes, SlotSides, Other, Slots
  <2>2. QED
    BY <1>1, <2>1 DEF SwitchPartition
<1>2. QED
  BY <1>1 DEF StartCheck, CheckStep, StartInstall, AnswerEmpty, slotVars

(* A slot turns valid only in loop(): after the proving time, or in the     *)
(* first start after the user picked it.                                    *)
LEMMA SlotStep ==
  ASSUME SlotInv, [OtaNext]_otaVars
  PROVE  /\ SlotInv'
         /\ \A s \in Slots : flash[s].state = "pending" /\ flash'[s].state = "valid"
              => started = "looped" \/ picked \/ stuck
<1> DEFINE Goal ==
      /\ SlotInv'
      /\ \A s \in Slots : flash[s].state = "pending" /\ flash'[s].state = "valid"
           => started = "looped" \/ picked \/ stuck
<1>1. ASSUME SlotsAsBefore, 
         UNCHANGED <<switched, stuck, picked>> \/ (picked' = TRUE /\ switched' \in BOOLEAN /\ stuck' = stuck)
      PROVE  Goal
  <2>1. running' \in Slots /\ boot' \in Slots
    BY <1>1 DEF SlotsAsBefore, SlotInv, SlotTypes, Other, Slots
  <2>2. {switched', stuck', picked'} \subseteq BOOLEAN /\ NotedByUser'
    <3>1. CASE UNCHANGED <<switched, stuck, picked>>
      BY <3>1 DEF SlotInv, SlotTypes, NotedByUser
    <3>2. CASE picked' = TRUE /\ switched' \in BOOLEAN /\ stuck' = stuck
      BY <3>2 DEF NotedByUser, SlotInv, SlotTypes
    <3>3. QED
      BY <1>1, <3>1, <3>2
  <2>3. QED
    BY <1>1, <2>1, <2>2, OtherSlot DEF SlotsAsBefore, SlotInv, SlotTypes
<1>2. ASSUME NEW i \in Installs, InstallStep(i) PROVE Goal
  BY <1>1, <1>2, InstallSlots DEF SlotInv
<1>3. ASSUME NEW c \in Clients, Upload(c) PROVE Goal
  BY <1>1, <1>3, UploadSlots DEF SlotInv
<1>4. CASE StartCheck \/ (\E k \in Checks : CheckStep(k)) \/ StartInstall \/ AnswerEmpty
  <2>1. UNCHANGED <<switched, stuck, picked>>
    BY <1>4 DEF StartCheck, CheckStep, StartInstall, AnswerEmpty, slotVars
  <2>2. QED
    BY <1>1, <1>4, <2>1, RequestSlots DEF SlotInv
<1>5. CASE SwitchPartition
  <2>1. picked' = TRUE /\ switched' \in BOOLEAN /\ stuck' = stuck
    BY <1>5 DEF SwitchPartition, SlotInv, SlotTypes
  <2>2. QED
    BY <1>1, <1>5, <2>1, RequestSlots DEF SlotInv
<1>6. CASE OtaRestart \/ OtaPowerCut
  <2>1. Reboots /\ UNCHANGED <<switched, stuck, picked>>
    BY <1>6 DEF OtaRestart, OtaPowerCut, Reboots
  <2>2. QED
    BY <2>1, StartedSlots DEF SlotInv, SlotTypes, NotedByUser
<1>7. ASSUME NEW opened \in BOOLEAN, NEW removed \in BOOLEAN, FirstLoop(opened, removed) PROVE Goal
  <2>1. UNCHANGED flash \/ (switched /\ MarksValid)
    BY <1>7 DEF FirstLoop
  <2>2. flash' \in [Slots -> SlotSides]
    BY <2>1, MarkedSlot DEF SlotInv, SlotTypes
  <2>3. /\ switched' = IF opened /\ removed THEN FALSE ELSE switched
        /\ stuck' = (switched /\ ~(opened /\ removed))
        /\ picked' = FALSE /\ UNCHANGED <<running, boot>>
    BY <1>7 DEF FirstLoop, NoteTaken
  <2>4. {switched', stuck', picked'} \subseteq BOOLEAN /\ NotedByUser'
    BY <2>3 DEF SlotInv, SlotTypes, NotedByUser
  <2>5. QED
    BY <2>1, <2>2, <2>3, <2>4 DEF SlotInv, SlotTypes, NotedByUser
<1>8. CASE Proven
  <2>1. /\ started = "looped" /\ MarksValid /\ UNCHANGED <<running, boot, switched, stuck, picked>>
    BY <1>8 DEF Proven
  <2>2. flash' \in [Slots -> SlotSides]
    BY <2>1, MarkedSlot DEF SlotInv
  <2>3. QED
    BY <2>1, <2>2 DEF SlotInv, SlotTypes, NotedByUser
<1>9. CASE UNCHANGED otaVars
  BY <1>9 DEF otaVars, slotVars, SlotInv, SlotTypes, NotedByUser
<1>10. QED
  BY <1>2, <1>3, <1>4, <1>5, <1>6, <1>7, <1>8, <1>9 DEF OtaNext

(* An image is spared its proving time only in the first start after the    *)
(* user picked a slot, or after a start at which NVS kept the note of that, *)
(* for any images, clients, tasks and power cuts.                           *)
THEOREM ProvingTimeSpared == OtaSpec => ValidEarned
<1>1. OtaInit => SlotInv
  <2> SUFFICES ASSUME OtaInit PROVE SlotInv
    OBVIOUS
  <2>1. \A s \in Slots : [image |-> IF s = 0 THEN Factory ELSE NoImage, state |-> "undefined"] \in SlotSides
    BY DEF SlotSides, States, Images
  <2>2. QED
    BY <2>1 DEF OtaInit, SlotInv, SlotTypes, NotedByUser, Slots
<1>2. SlotInv /\ [OtaNext]_otaVars
        => [\A s \in Slots : flash[s].state = "pending" /\ flash'[s].state = "valid"
              => started = "looped" \/ picked \/ stuck]_otaVars
  BY SlotStep
<1>3. SlotInv /\ [OtaNext]_otaVars => SlotInv'
  BY SlotStep
<1>4. QED
  BY <1>1, <1>2, <1>3, PTL DEF OtaSpec, ValidEarned
---------------------------------------------------------------------------
(* Who has Update to himself: what it holds are his chunks, and the digest  *)
(* it is held against is the one he announced.                              *)
SoFar(image, n) == [k \in 1..n |-> Chunk(image, k)]
OwnInstall ==
  \A i \in Installs :
    /\ installs[i].at = "begin" => installs[i].written = 0
    /\ i \in alone /\ update.on /\ installs[i].at = "write"
         => update.data = SoFar(installs[i].image, installs[i].written)
OwnUpload ==
  \A c \in Clients : c \in alone /\ update.on => clients[c].sha \in {NoImage, upload.sha}
OwnInv == Described /\ Sides /\ OwnInstall /\ OwnUpload

(* A task leaves the uploads alone, and the others' Update is theirs no     *)
(* more once it has touched it.                                             *)
LEMMA InstallKeeps ==
  ASSUME OwnInv, NEW i \in Installs, NEW task \in InstallSides,
         installs' = [installs EXCEPT ![i] = task], update' \in Updates,
         (UNCHANGED <<update, alone>>) \/ alone' \subseteq {i},
         task.at = "begin" => task.written = 0,
         i \in alone' /\ update'.on /\ task.at = "write"
           => update'.data = SoFar(task.image, task.written),
         UNCHANGED <<gUrl, gSha256, upload, clients>>
  PROVE  OwnInv'
<1> USE DEF OwnInv, Described, Sides, OwnInstall, OwnUpload
<1>1. Described' /\ Sides'
  OBVIOUS
<1>2. OwnInstall'
  <2> SUFFICES ASSUME NEW j \in Installs
               PROVE  /\ installs'[j].at = "begin" => installs'[j].written = 0
                      /\ j \in alone' /\ update'.on /\ installs'[j].at = "write"
                           => update'.data = SoFar(installs'[j].image, installs'[j].written)
    OBVIOUS
  <2>1. CASE j = i
    BY <2>1
  <2>2. CASE j # i
    BY <2>2
  <2>3. QED
    BY <2>1, <2>2
<1>3. OwnUpload'
  BY OtaAssumption
<1>4. QED
  BY <1>1, <1>2, <1>3

LEMMA UploadKeeps ==
  ASSUME OwnInv, NEW c \in Clients, NEW side \in UploadSides,
         clients' = [clients EXCEPT ![c] = side], update' \in Updates, upload' \in Uploads,
         (UNCHANGED <<update, upload, alone>>) \/ alone' \subseteq {c},
         c \in alone' /\ update'.on => side.sha \in {NoImage, upload'.sha},
         UNCHANGED <<gUrl, gSha256, installs>>
  PROVE  OwnInv'
<1> USE DEF OwnInv, Described, Sides, OwnInstall, OwnUpload
<1>1. Described' /\ Sides'
  OBVIOUS
<1>2. OwnInstall'
  BY OtaAssumption
<1>3. OwnUpload'
  <2> SUFFICES ASSUME NEW d \in Clients, d \in alone', update'.on
               PROVE  clients'[d].sha \in {NoImage, upload'.sha}
    OBVIOUS
  <2>1. CASE d = c
    BY <2>1
  <2>2. CASE d # c
    BY <2>2
  <2>3. QED
    BY <2>1, <2>2
<1>4. QED
  BY <1>1, <1>2, <1>3

LEMMA SoFarGrows ==
  ASSUME NEW image \in Images, NEW n \in Nat
  PROVE  /\ SoFar(image, 0) = <<>> /\ SoFar(image, n) \in Seq(Chunked)
         /\ Append(SoFar(image, n), Chunk(image, n + 1)) = SoFar(image, n + 1)
<1>1. \A k \in Nat : Chunk(image, k) \in Chunked
  BY ChunksTyped
<1>2. SoFar(image, n) \in Seq(Chunked)
  BY <1>1 DEF SoFar
<1>3. Len(SoFar(image, n)) = n
  BY <1>2 DEF SoFar
<1>4. Append(SoFar(image, n), Chunk(image, n + 1)) = SoFar(image, n + 1)
  BY <1>1, <1>2, <1>3 DEF SoFar
<1>5. SoFar(image, 0) = <<>>
  BY DEF SoFar
<1>6. QED
  BY <1>2, <1>4, <1>5

LEMMA InstallTyped ==
  ASSUME NEW task \in InstallSides, NEW at \in {"write", "restart"}, NEW n \in 0..Chunks
  PROVE  /\ NoTask \in InstallSides
         /\ [task EXCEPT !.at = at] = [at |-> at, image |-> task.image, written |-> task.written]
         /\ [task EXCEPT !.written = n] = [at |-> task.at, image |-> task.image, written |-> n]
<1>1. NoTask \in InstallSides
  BY OtaAssumption DEF NoTask, InstallSides, Images
<1>2. [task EXCEPT !.at = at] = [at |-> at, image |-> task.image, written |-> task.written]
  BY DEF InstallSides
<1>3. [task EXCEPT !.written = n] = [at |-> task.at, image |-> task.image, written |-> n]
  BY DEF InstallSides
<1>4. QED
  BY <1>1, <1>2, <1>3

LEMMA InstallOwn ==
  ASSUME OwnInv, NEW i \in Installs, InstallStep(i)
  PROVE  OwnInv'
<1>1. /\ installs \in [Installs -> InstallSides] /\ installs[i] \in InstallSides
      /\ update \in Updates /\ gUrl \in Images
  BY DEF OwnInv, Sides, Described
<1>2. UNCHANGED <<gUrl, gSha256, upload, clients>>
  BY DEF InstallStep, uploadVars
<1>3. NoTask \in InstallSides /\ NoTask.at = "none" /\ Aborted \in Updates /\ 0 \in 0..Chunks
  <2>1. 0 \in 0..Chunks /\ Chunks \in Nat
    BY OtaAssumption
  <2>2. NoTask \in InstallSides /\ Aborted \in Updates
    BY <1>1, <2>1, InstallTyped, FreshUpdates
  <2>3. QED
    BY <2>1, <2>2 DEF NoTask
<1>4. ASSUME installs' = [installs EXCEPT ![i] = NoTask], update' \in Updates,
             (UNCHANGED <<update, alone>>) \/ alone' \subseteq {i}
      PROVE  OwnInv'
  BY <1>2, <1>3, <1>4, InstallKeeps
<1>5. CASE InstallGet(i)
  <2>1. CASE InstallFails(i)
    BY <1>1, <1>4, <1>5, <2>1 DEF InstallGet, InstallFails
  <2>2. CASE ~InstallFails(i)
    <3> DEFINE task == [at |-> "begin", image |-> gUrl, written |-> 0]
    <3>1. task \in InstallSides /\ task.at = "begin" /\ task.written = 0
      BY <1>1, <1>3 DEF InstallSides
    <3>2. installs' = [installs EXCEPT ![i] = task] /\ UNCHANGED <<update, alone>>
      BY <1>5, <2>2 DEF InstallGet, InstallGoesOn
    <3> HIDE DEF task
    <3>3. QED
      BY <1>1, <1>2, <3>1, <3>2, InstallKeeps
  <2>3. QED
    BY <2>1, <2>2
<1>6. CASE InstallBegin(i)
  <2>1. CASE InstallFails(i)
    <3>1. /\ update' = update \/ update' = Aborted \/ update' = Begun(Chunks)
          /\ (UNCHANGED <<update, alone>>) \/ alone' \subseteq {i}
      BY <1>6 DEF InstallBegin, Touched
    <3>2. update' \in Updates
      BY <1>1, <3>1, FreshUpdates, OtaAssumption
    <3>3. QED
      BY <1>4, <2>1, <3>1, <3>2 DEF InstallFails
  <2>2. CASE ~InstallFails(i)
    <3> DEFINE task == [installs[i] EXCEPT !.at = "write"]
    <3>1. task = [at |-> "write", image |-> installs[i].image, written |-> installs[i].written]
      BY <1>1, <1>3, InstallTyped
    <3>2. /\ installs' = [installs EXCEPT ![i] = task] /\ update' = Begun(Chunks)
          /\ alone' = {i} /\ installs[i].at = "begin"
      BY <1>6, <2>2 DEF InstallBegin, InstallGoesOn
    <3> HIDE DEF task
    <3>3. task \in InstallSides /\ task.at = "write" /\ task.written = 0 /\ task.image \in Images
      BY <1>1, <3>1, <3>2 DEF InstallSides, OwnInv, OwnInstall
    <3>4. update' \in Updates /\ update'.data = <<>>
      BY <3>2, FreshUpdates, OtaAssumption
    <3>5. SoFar(task.image, task.written) = <<>>
      BY <3>3, SoFarGrows
    <3>6. QED
      BY <1>2, <3>2, <3>3, <3>4, <3>5, InstallKeeps
  <2>3. QED
    BY <2>1, <2>2
<1>7. CASE InstallWrite(i)
  <2>1. CASE InstallFails(i)
    <3>1. update' = Aborted \/ update' = Written(update, Chunk(installs[i].image, installs[i].written + 1))
      BY <1>7 DEF InstallWrite
    <3>2. installs[i].image \in Images /\ installs[i].written + 1 \in Nat
      BY <1>1 DEF InstallSides
    <3>3. update' \in Updates
      BY <1>1, <1>3, <3>1, <3>2, ChunksTyped, WrittenUpdate
    <3>4. QED
      BY <1>4, <1>7, <2>1, <3>3 DEF InstallWrite, InstallFails, Touched
  <2>2. CASE ~InstallFails(i)
    <3> DEFINE n == installs[i].written + 1
               task == [installs[i] EXCEPT !.written = n]
               chunk == Chunk(installs[i].image, n)
    <3>1. n \in 0..Chunks /\ n \in Nat /\ installs[i].written \in Nat /\ installs[i].image \in Images
      BY <1>1, <1>7, OtaAssumption DEF InstallWrite, InstallSides
    <3>2. task = [at |-> installs[i].at, image |-> installs[i].image, written |-> n]
      BY <1>1, <3>1, InstallTyped
    <3>3. /\ installs' = [installs EXCEPT ![i] = task] /\ update' = Written(update, chunk)
          /\ Accepts(update) /\ alone' = alone \cap {i} /\ installs[i].at = "write"
      BY <1>7, <2>2 DEF InstallWrite, InstallGoesOn, Touched
    <3>4. chunk \in Chunked
      BY <3>1, ChunksTyped
    <3> HIDE DEF task, chunk
    <3>5. task \in InstallSides /\ task.at = "write" /\ task.written = n /\ task.image = installs[i].image
      BY <1>1, <3>1, <3>2, <3>3 DEF InstallSides
    <3>6. update' \in Updates /\ update'.data = Append(update.data, chunk) /\ update.on
      BY <1>1, <3>3, <3>4, WrittenUpdate DEF Accepts
    <3>7. i \in alone' => update.data = SoFar(installs[i].image, installs[i].written)
      BY <3>3, <3>6 DEF OwnInv, OwnInstall
    <3>8. i \in alone' => update'.data = SoFar(task.image, task.written)
      BY <3>1, <3>5, <3>6, <3>7, SoFarGrows DEF chunk
    <3>9. alone' \subseteq {i}
      BY <3>3
    <3> HIDE DEF n
    <3>10. QED
      BY <1>2, <3>3, <3>5, <3>6, <3>8, <3>9, InstallKeeps
  <2>3. QED
    BY <2>1, <2>2
<1>8. CASE InstallEnd(i)
  <2>1. update' \in Updates /\ alone' \subseteq {i}
    BY <1>1, <1>3, <1>8, EndedUpdate DEF InstallEnd, Touched
  <2>2. CASE InstallFails(i)
    BY <1>4, <2>1, <2>2 DEF InstallFails
  <2>3. CASE ~InstallFails(i)
    <3> DEFINE task == [installs[i] EXCEPT !.at = "restart"]
    <3>1. task = [at |-> "restart", image |-> installs[i].image, written |-> installs[i].written]
      BY <1>1, <1>3, InstallTyped
    <3>2. installs' = [installs EXCEPT ![i] = task]
      BY <1>8, <2>3 DEF InstallEnd
    <3> HIDE DEF task
    <3>3. task \in InstallSides /\ task.at = "restart"
      BY <1>1, <3>1 DEF InstallSides
    <3>4. QED
      BY <1>2, <2>1, <3>2, <3>3, InstallKeeps
  <2>4. QED
    BY <2>2, <2>3
<1>9. QED
  BY <1>5, <1>6, <1>7, <1>8 DEF InstallStep

(* The globals of the upload handler, and what a client has sent.           *)
LEMMA UploadWith ==
  ASSUME NEW u \in Uploads, NEW n
  PROVE  /\ \A hashed \in Seq(Chunked) : n = [u EXCEPT !.hashed = hashed]
              => n = [error |-> u.error, hashFailed |-> u.hashFailed, sha |-> u.sha, hashed |-> hashed]
         /\ \A failed \in BOOLEAN : n = [u EXCEPT !.hashFailed = failed]
              => n = [error |-> u.error, hashFailed |-> failed, sha |-> u.sha, hashed |-> u.hashed]
         /\ \A error \in BOOLEAN : n = [u EXCEPT !.error = error]
              => n = [error |-> error, hashFailed |-> u.hashFailed, sha |-> u.sha, hashed |-> u.hashed]
         /\ \A sha \in Images : n = [u EXCEPT !.sha = sha]
              => n = [error |-> u.error, hashFailed |-> u.hashFailed, sha |-> sha, hashed |-> u.hashed]
<1>1. ASSUME NEW hashed \in Seq(Chunked), n = [u EXCEPT !.hashed = hashed]
      PROVE  n = [error |-> u.error, hashFailed |-> u.hashFailed, sha |-> u.sha, hashed |-> hashed]
  BY <1>1 DEF Uploads
<1>2. ASSUME NEW failed \in BOOLEAN, n = [u EXCEPT !.hashFailed = failed]
      PROVE  n = [error |-> u.error, hashFailed |-> failed, sha |-> u.sha, hashed |-> u.hashed]
  BY <1>2 DEF Uploads
<1>3. ASSUME NEW error \in BOOLEAN, n = [u EXCEPT !.error = error]
      PROVE  n = [error |-> error, hashFailed |-> u.hashFailed, sha |-> u.sha, hashed |-> u.hashed]
  BY <1>3 DEF Uploads
<1>4. ASSUME NEW sha \in Images, n = [u EXCEPT !.sha = sha]
      PROVE  n = [error |-> u.error, hashFailed |-> u.hashFailed, sha |-> sha, hashed |-> u.hashed]
  BY <1>4 DEF Uploads
<1>5. QED
  BY <1>1, <1>2, <1>3, <1>4

LEMMA UploadNamed ==
  ASSUME NEW u \in Uploads, NEW hashed \in Seq(Chunked), NEW sha \in Images
  PROVE  [u EXCEPT !.sha = sha, !.hashed = hashed]
           = [error |-> u.error, hashFailed |-> u.hashFailed, sha |-> sha, hashed |-> hashed]
<1> DEFINE named == [u EXCEPT !.sha = sha]
<1>1. named = [error |-> u.error, hashFailed |-> u.hashFailed, sha |-> sha, hashed |-> u.hashed]
  BY UploadWith
<1>2. [u EXCEPT !.sha = sha, !.hashed = hashed] = [named EXCEPT !.hashed = hashed]
  OBVIOUS
<1> HIDE DEF named
<1>3. named \in Uploads
  BY <1>1 DEF Uploads
<1>4. QED
  BY <1>1, <1>2, <1>3, UploadWith

LEMMA ClientWith ==
  ASSUME NEW side \in UploadSides, NEW n
  PROVE  /\ \A sent \in 0..Chunks : n = [side EXCEPT !.sent = sent]
              => n = [sent |-> sent, sha |-> side.sha, refused |-> side.refused]
         /\ \A sha \in Images : n = [side EXCEPT !.sha = sha]
              => n = [sent |-> side.sent, sha |-> sha, refused |-> side.refused]
         /\ n = [side EXCEPT !.refused = TRUE]
              => n = [sent |-> side.sent, sha |-> side.sha, refused |-> TRUE]
<1>1. ASSUME NEW sent \in 0..Chunks, n = [side EXCEPT !.sent = sent]
      PROVE  n = [sent |-> sent, sha |-> side.sha, refused |-> side.refused]
  BY <1>1 DEF UploadSides
<1>2. ASSUME NEW sha \in Images, n = [side EXCEPT !.sha = sha]
      PROVE  n = [sent |-> side.sent, sha |-> sha, refused |-> side.refused]
  BY <1>2 DEF UploadSides
<1>3. ASSUME n = [side EXCEPT !.refused = TRUE]
      PROVE  n = [sent |-> side.sent, sha |-> side.sha, refused |-> TRUE]
  BY <1>3 DEF UploadSides
<1>4. QED
  BY <1>1, <1>2, <1>3

LEMMA FreshUpload ==
  ASSUME NEW sha \in Images, NEW hashed \in Seq(Chunked)
  PROVE  /\ NoUpload \in Uploads /\ NoClient \in UploadSides
         /\ [NoUpload EXCEPT !.error = TRUE] \in Uploads
         /\ [NoUpload EXCEPT !.sha = sha, !.hashed = hashed] \in Uploads
         /\ [NoUpload EXCEPT !.sha = sha, !.hashed = hashed].sha = sha
         /\ [NoClient EXCEPT !.sent = 1, !.refused = TRUE] \in UploadSides
         /\ [NoClient EXCEPT !.sent = 1, !.refused = TRUE].sha = NoImage
         /\ [NoClient EXCEPT !.sent = 1, !.sha = sha] \in UploadSides
         /\ [NoClient EXCEPT !.sent = 1, !.sha = sha].sha = sha
<1>1. NoUpload \in Uploads
  BY DEF NoUpload, Uploads, Images
<1>2. NoClient \in UploadSides /\ 1 \in 0..Chunks
  BY OtaAssumption DEF NoClient, UploadSides, Images
<1>3. [NoUpload EXCEPT !.error = TRUE] \in Uploads
  BY <1>1 DEF Uploads
<1>4. [NoUpload EXCEPT !.sha = sha, !.hashed = hashed]
        = [error |-> FALSE, hashFailed |-> FALSE, sha |-> sha, hashed |-> hashed]
  <2>1. NoUpload.error = FALSE /\ NoUpload.hashFailed = FALSE
    BY DEF NoUpload
  <2>2. QED
    BY <1>1, <2>1, UploadNamed
<1>5. /\ [NoClient EXCEPT !.sent = 1, !.refused = TRUE]
           = [sent |-> 1, sha |-> NoImage, refused |-> TRUE]
      /\ [NoClient EXCEPT !.sent = 1, !.sha = sha] = [sent |-> 1, sha |-> sha, refused |-> FALSE]
  <2> DEFINE one == [NoClient EXCEPT !.sent = 1]
  <2>1. one = [sent |-> 1, sha |-> NoClient.sha, refused |-> NoClient.refused]
    BY <1>2, ClientWith
  <2>2. /\ [NoClient EXCEPT !.sent = 1, !.refused = TRUE] = [one EXCEPT !.refused = TRUE]
        /\ [NoClient EXCEPT !.sent = 1, !.sha = sha] = [one EXCEPT !.sha = sha]
    OBVIOUS
  <2> HIDE DEF one
  <2>3. NoClient.sha = NoImage /\ NoClient.refused = FALSE
    BY DEF NoClient
  <2>4. one \in UploadSides
    BY <1>2, <2>1, <2>3 DEF UploadSides, Images
  <2>5. /\ [one EXCEPT !.refused = TRUE] = [sent |-> one.sent, sha |-> one.sha, refused |-> TRUE]
        /\ [one EXCEPT !.sha = sha] = [sent |-> one.sent, sha |-> sha, refused |-> one.refused]
    BY <2>4, ClientWith
  <2>6. QED
    BY <2>1, <2>2, <2>3, <2>5
<1>6. QED
  BY <1>1, <1>2, <1>3, <1>4, <1>5 DEF Uploads, UploadSides, Images

(* The next chunk of an upload: Update is as it was, longer by the chunk,   *)
(* or off.                                                                  *)
NowHolds(c) ==
  LET sent == clients[c].sent + 1
  IN  IF update.on /\ ~update.error THEN Written(update, Chunk(c, sent)) ELSE update
NowHashed(c) ==
  IF Accepts(update) /\ upload.sha # NoImage
  THEN Append(upload.hashed, Chunk(c, clients[c].sent + 1)) ELSE upload.hashed

LEMMA NextChunk ==
  ASSUME OwnInv, NEW c \in Clients, UploadNext(c)
  PROVE  /\ NowHolds(c) \in Updates /\ NowHashed(c) \in Seq(Chunked)
         /\ NowHolds(c).on => /\ update.on /\ Accepts(update)
                              /\ NowHolds(c).data = Append(update.data, Chunk(c, clients[c].sent + 1))
         /\ Chunk(c, clients[c].sent + 1) \in Chunked /\ clients[c].sent + 1 \in 2..Chunks
<1> DEFINE sent == clients[c].sent + 1
<1>1. sent \in 2..Chunks /\ clients[c] \in UploadSides /\ update \in Updates /\ upload \in Uploads
  BY DEF UploadNext, OwnInv, Sides
<1>2. Chunk(c, sent) \in Chunked
  BY <1>1, ChunksTyped, OtaAssumption DEF Images
<1> HIDE DEF sent
<1>3. Written(update, Chunk(c, sent)) \in Updates
  BY <1>1, <1>2, WrittenUpdate
<1>4. NowHolds(c) \in Updates
  BY <1>1, <1>3 DEF NowHolds, sent
<1>5. NowHashed(c) \in Seq(Chunked)
  <2>1. upload.hashed \in Seq(Chunked)
    BY <1>1 DEF Uploads
  <2>2. QED
    BY <1>2, <2>1 DEF NowHashed, sent
<1>6. NowHolds(c).on => update.on /\ ~update.error
  BY <1>1 DEF NowHolds, Updates, AnyUpdate
<1>7. update.on /\ ~update.error => NowHolds(c) = Written(update, Chunk(c, sent))
  BY DEF NowHolds, sent
<1>8. NowHolds(c).on => Accepts(update) /\ NowHolds(c).data = Append(update.data, Chunk(c, sent))
  BY <1>1, <1>2, <1>6, <1>7, WrittenUpdate
<1>9. QED
  BY <1>1, <1>2, <1>4, <1>5, <1>6, <1>8 DEF sent

LEMMA UploadOwn ==
  ASSUME OwnInv, NEW c \in Clients, Upload(c)
  PROVE  OwnInv'
<1>1. /\ clients \in [Clients -> UploadSides] /\ clients[c] \in UploadSides
      /\ update \in Updates /\ upload \in Uploads /\ c \in Images
  BY DEF OwnInv, Sides, Images
<1>2. NoImage \in Images /\ Factory \in Images /\ <<>> \in Seq(Chunked)
  BY DEF Images
<1>3. CASE UploadRefused(c)
  <2> DEFINE side == [NoClient EXCEPT !.sent = 1, !.refused = TRUE]
  <2>1. side \in UploadSides /\ side.sha = NoImage /\ [NoUpload EXCEPT !.error = TRUE] \in Uploads
    BY <1>2, FreshUpload
  <2>2. /\ clients' = [clients EXCEPT ![c] = side] /\ upload' = [NoUpload EXCEPT !.error = TRUE]
        /\ alone' \subseteq {c} /\ UNCHANGED <<gUrl, gSha256, installs, update>>
    BY <1>3 DEF UploadRefused, Touched, onlineVars
  <2> HIDE DEF side
  <2>3. QED
    BY <1>1, <2>1, <2>2, UploadKeeps
<1>4. ASSUME NEW sha \in {NoImage, c, Factory}, UploadBegins(c, sha) PROVE OwnInv'
  <2> DEFINE side == [NoClient EXCEPT !.sent = 1, !.sha = sha]
             hashed == IF sha = NoImage THEN <<>> ELSE <<Chunk(c, 1)>>
  <2>1. Chunk(c, 1) \in Chunked /\ sha \in Images
    BY <1>1, <1>2, ChunksTyped
  <2>2. hashed \in Seq(Chunked)
    BY <1>2, <2>1
  <2> HIDE DEF hashed
  <2>3. side \in UploadSides /\ side.sha = sha
    BY <2>1, <2>2, FreshUpload
  <2>4. /\ clients' = [clients EXCEPT ![c] = side] /\ alone' \subseteq {c}
        /\ UNCHANGED <<gUrl, gSha256, installs>>
    BY <1>4 DEF UploadBegins, onlineVars
  <2> HIDE DEF side
  <2>5. \/ update' = Aborted /\ upload' = [NoUpload EXCEPT !.error = TRUE]
        \/ /\ update' = Written(Begun(Chunks + 1), Chunk(c, 1))
           /\ upload' = [NoUpload EXCEPT !.sha = sha, !.hashed = hashed]
    BY <1>4 DEF UploadBegins, hashed
  <2>6. CASE update' = Aborted /\ upload' = [NoUpload EXCEPT !.error = TRUE]
    <3>1. update' \in Updates /\ upload' \in Uploads /\ ~update'.on
      <4>1. [NoUpload EXCEPT !.error = TRUE] \in Uploads
        BY <2>1, <2>2, FreshUpload
      <4>2. Aborted \in Updates /\ ~Aborted.on
        BY FreshUpdates, OtaAssumption
      <4>3. QED
        BY <2>6, <4>1, <4>2
    <3>2. QED
      BY <2>3, <2>4, <3>1, UploadKeeps
  <2>7. CASE /\ update' = Written(Begun(Chunks + 1), Chunk(c, 1))
             /\ upload' = [NoUpload EXCEPT !.sha = sha, !.hashed = hashed]
    <3>1. upload' \in Uploads /\ upload'.sha = sha
      BY <2>1, <2>2, <2>7, FreshUpload
    <3>2. Begun(Chunks + 1) \in Updates
      BY FreshUpdates, OtaAssumption
    <3>3. update' \in Updates
      BY <2>1, <2>7, <3>2, WrittenUpdate
    <3>4. QED
      BY <2>3, <2>4, <3>1, <3>3, UploadKeeps
  <2>8. QED
    BY <2>5, <2>6, <2>7
<1>5. CASE UploadNext(c)
  <2> DEFINE sent == clients[c].sent + 1
             side == [clients[c] EXCEPT !.sent = sent]
  <2>1. /\ clients' = [clients EXCEPT ![c] = side] /\ alone' \subseteq alone \cap {c}
        /\ UNCHANGED <<gUrl, gSha256, installs>>
    BY <1>1, <1>5 DEF UploadNext, Touched, onlineVars
  <2>2. PICK held \in BOOLEAN, error \in BOOLEAN :
          upload' = [sha |-> upload.sha, hashed |-> NowHashed(c),
                     hashFailed |-> held, error |-> error]
    BY <1>5 DEF UploadNext, NowHashed, NowHolds
  <2>3. update' = Aborted \/ update' = Ended(NowHolds(c)) \/ update' = NowHolds(c)
    BY <1>5 DEF UploadNext, NowHolds
  <2>4. sent \in 0..Chunks
    BY <1>1, <1>5, NextChunk
  <2>5. side = [sent |-> sent, sha |-> clients[c].sha, refused |-> clients[c].refused]
    BY <1>1, <2>4, ClientWith
  <2> HIDE DEF side, sent
  <2>7. upload' \in Uploads /\ upload'.sha = upload.sha
    BY <1>1, <1>5, <2>2, NextChunk DEF Uploads
  <2>8. side \in UploadSides /\ side.sha = clients[c].sha
    BY <1>1, <2>4, <2>5 DEF UploadSides
  <2>9. update' \in Updates /\ (update'.on => update.on)
    BY <1>5, <2>3, NextChunk, EndedUpdate, FreshUpdates, OtaAssumption
  <2>10. c \in alone' /\ update'.on => side.sha \in {NoImage, upload'.sha}
    BY <2>1, <2>7, <2>8, <2>9 DEF OwnInv, OwnUpload
  <2>11. QED
    BY <2>1, <2>7, <2>8, <2>9, <2>10, UploadKeeps
<1>6. CASE Answer(c) \/ UploadLost(c)
  <2>1. NoClient \in UploadSides /\ NoClient.sha = NoImage
    BY <1>2, FreshUpload DEF NoClient
  <2>2. /\ clients' = [clients EXCEPT ![c] = NoClient]
        /\ UNCHANGED <<gUrl, gSha256, installs, upload, update, alone>>
    BY <1>6 DEF Answer, UploadLost, onlineVars
  <2>3. QED
    BY <1>1, <2>1, <2>2, UploadKeeps
<1>7. QED
  BY <1>3, <1>4, <1>5, <1>6 DEF Upload

LEMMA OwnInit == OtaInit => OwnInv
<1> SUFFICES ASSUME OtaInit PROVE OwnInv
  OBVIOUS
<1>1. NoImage \in Images /\ <<>> \in Seq(Chunked) /\ 0 \in 0..Chunks
  BY OtaAssumption DEF Images
<1>2. NoUpload \in Uploads /\ NoClient \in UploadSides /\ NoUpdate \in Updates
  BY <1>1, FreshUpload, FreshUpdates
<1>3. NoTask \in InstallSides /\ NoTask.at = "none"
  BY <1>1 DEF NoTask, InstallSides
<1>4. QED
  BY <1>1, <1>2, <1>3 DEF OtaInit, OwnInv, Described, Sides, OwnInstall, OwnUpload

LEMMA OwnStep == OwnInv /\ [OtaNext]_otaVars => OwnInv'
<1> SUFFICES ASSUME OwnInv, [OtaNext]_otaVars PROVE OwnInv'
  OBVIOUS
<1>1. ASSUME gUrl' \in Images, gSha256' \in Images,
             UNCHANGED <<installs, upload, clients, update, alone>>
      PROVE  OwnInv'
  BY <1>1 DEF OwnInv, Described, Sides, OwnInstall, OwnUpload
<1>2. gUrl \in Images /\ gSha256 \in Images /\ Online \subseteq Images
  BY DEF OwnInv, Described, Images
<1>3. CASE StartCheck \/ AnswerEmpty \/ SwitchPartition
  BY <1>1, <1>2, <1>3 DEF StartCheck, AnswerEmpty, SwitchPartition, onlineVars, uploadVars
<1>4. ASSUME NEW k \in Checks, CheckStep(k) PROVE OwnInv'
  <2>1. UNCHANGED <<installs, upload, clients, update, alone>>
    BY <1>4 DEF CheckStep, uploadVars
  <2>2. gUrl' \in Images /\ gSha256' \in Images
    BY <1>2, <1>4 DEF CheckStep
  <2>3. QED
    BY <1>1, <2>1, <2>2
<1>5. CASE StartInstall
  <2>1. UNCHANGED <<gUrl, gSha256, upload, clients, update, alone>>
    BY <1>5 DEF StartInstall, uploadVars
  <2>2. CASE UNCHANGED installs
    BY <1>1, <1>2, <2>1, <2>2
  <2>3. CASE \E i \in Installs : /\ installs[i].at = "none"
                               /\ installs' = [installs EXCEPT ![i].at = "get"]
    <3>1. PICK i \in Installs : installs' = [installs EXCEPT ![i].at = "get"]
      BY <2>3
    <3> DEFINE task == [installs[i] EXCEPT !.at = "get"]
    <3>2. task \in InstallSides /\ task.at = "get"
      BY DEF OwnInv, Sides, InstallSides
    <3>3. installs' = [installs EXCEPT ![i] = task]
      BY <3>1
    <3> HIDE DEF task
    <3>4. update' \in Updates
      BY <2>1 DEF OwnInv, Sides
    <3>5. QED
      BY <2>1, <3>2, <3>3, <3>4, InstallKeeps
  <2>4. QED
    BY <1>5, <2>2, <2>3 DEF StartInstall
<1>6. ASSUME NEW i \in Installs, InstallStep(i) PROVE OwnInv'
  BY <1>6, InstallOwn
<1>7. ASSUME NEW c \in Clients, Upload(c) PROVE OwnInv'
  BY <1>7, UploadOwn
<1>8. CASE OtaRestart \/ OtaPowerCut
  <2>1. Reboots
    BY <1>8 DEF OtaRestart, OtaPowerCut
  <2>2. NoImage \in Images /\ <<>> \in Seq(Chunked) /\ 0 \in 0..Chunks
    BY OtaAssumption DEF Images
  <2>3. NoUpload \in Uploads /\ NoClient \in UploadSides /\ NoUpdate \in Updates
    BY <2>2, FreshUpload, FreshUpdates
  <2>4. NoTask \in InstallSides /\ NoTask.at = "none"
    BY <2>2 DEF NoTask, InstallSides
  <2>5. QED
    BY <2>1, <2>2, <2>3, <2>4 DEF Reboots, OwnInv, Described, Sides, OwnInstall, OwnUpload
<1>9. CASE (\E opened, removed \in BOOLEAN : FirstLoop(opened, removed)) \/ Proven
  BY <1>1, <1>2, <1>9 DEF FirstLoop, Proven, onlineVars, uploadVars
<1>10. CASE UNCHANGED otaVars
  BY <1>1, <1>2, <1>10 DEF otaVars, onlineVars, uploadVars
<1>11. QED
  BY <1>3, <1>4, <1>5, <1>6, <1>7, <1>8, <1>9, <1>10 DEF OtaNext

LEMMA LastNamesImage ==
  ASSUME NEW s \in Seq(Chunked), NEW x \in Chunked, NEW image \in Images,
         Append(s, x) = Full(image)
  PROVE  x = <<image, Chunks>>
<1>1. Len(Append(s, x)) = Len(s) + 1 /\ Append(s, x)[Len(s) + 1] = x
  OBVIOUS
<1>2. QED
  BY <1>1, LastChunk

(* What the other slot holds after each of the ways to write it.            *)
LEMMA ImageWritten ==
  ASSUME SlotTypes, NEW image, NEW state, flash' = SlotIs(image, state)
  PROVE  flash'[Other(running)].image = image
<1>1. Other(running) \in Slots
  BY DEF SlotTypes, Other, Slots
<1>2. QED
  BY <1>1 DEF SlotTypes, SlotIs

LEMMA InstallActivates ==
  ASSUME OwnInv, SlotTypes, NEW i \in Installs, InstallStep(i), Activated,
         NEW who \in alone \cap alone'
  PROVE  who = i /\ flash'[Other(running)].image = gSha256
<1>1. Activated => ~UNCHANGED flash /\ ~Overwrites
  BY ImageWritten DEF Activated, Overwrites
<1>2. InstallEnd(i) /\ DigestMatches(i) /\ Whole(update)
  BY <1>1 DEF InstallStep, InstallGet, InstallBegin, InstallWrite, InstallEnd, InstallFails
<1>3. who = i /\ i \in alone
  BY <1>2 DEF InstallEnd, Touched
<1>4. update \in Updates /\ installs[i] \in InstallSides /\ installs[i].image \in Images
  BY DEF OwnInv, Sides, InstallSides
<1>5. update.data = SoFar(installs[i].image, Chunks)
  BY <1>2, <1>3 DEF InstallEnd, OwnInv, OwnInstall, Whole
<1>6. update.data = Full(installs[i].image)
  BY <1>5 DEF SoFar, Full
<1>7. ImageIn(update) \in Images /\ update.data = Full(ImageIn(update))
  BY <1>2, <1>4, WholeImage
<1>8. ImageIn(update) = installs[i].image
  <2>1. update.data[Chunks] = <<installs[i].image, Chunks>>
    BY <1>4, <1>6, LastChunk
  <2>2. update.data[Chunks] = <<ImageIn(update), Chunks>>
    BY <1>7, LastChunk
  <2>3. QED
    BY <2>1, <2>2
<1>9. flash'[Other(running)].image = ImageIn(update)
  BY <1>2, ImageWritten DEF InstallEnd, Activates
<1>10. QED
  BY <1>2, <1>3, <1>8, <1>9 DEF DigestMatches

LEMMA UploadActivates ==
  ASSUME OwnInv, SlotTypes, NEW c \in Clients, Upload(c), Activated,
         NEW who \in alone \cap alone'
  PROVE  who = c /\ flash'[Other(running)].image = c /\ clients[c].sha \in {NoImage, c}
<1>1. Activated => ~UNCHANGED flash /\ ~Overwrites
  BY ImageWritten DEF Activated, Overwrites
<1>2. UploadNext(c)
  BY <1>1 DEF Upload, UploadRefused, Answer, UploadLost, UploadBegins, slotVars
<1> DEFINE now == NowHolds(c)
           chunk == Chunk(c, clients[c].sent + 1)
<1>3. /\ now.on /\ ~HashFails(NowHashed(c)) /\ Whole(now) /\ Activates(ImageIn(now))
      /\ clients[c].sent + 1 = Chunks
  BY <1>1, <1>2 DEF UploadNext, NowHolds, NowHashed
<1>4. who = c /\ c \in alone
  BY <1>2 DEF UploadNext, Touched
<1>5. /\ update \in Updates /\ now \in Updates /\ NowHashed(c) \in Seq(Chunked) /\ chunk \in Chunked
      /\ update.on /\ Accepts(update) /\ now.data = Append(update.data, chunk)
      /\ upload \in Uploads
  BY <1>2, <1>3, NextChunk DEF OwnInv, Sides
<1>6. chunk = <<c, Chunks>>
  BY <1>3 DEF Chunk
<1>7. ImageIn(now) \in Images /\ now.data = Full(ImageIn(now))
  BY <1>3, <1>5, WholeImage
<1> HIDE DEF now, chunk
<1>8. ImageIn(now) = c
  <2>1. update.data \in Seq(Chunked)
    BY <1>5 DEF Updates, AnyUpdate
  <2>2. chunk = <<ImageIn(now), Chunks>>
    BY <1>5, <1>7, <2>1, LastNamesImage
  <2>3. QED
    BY <1>6, <2>2
<1>9. upload.sha \in {NoImage, c}
  <2> SUFFICES ASSUME upload.sha # NoImage PROVE upload.sha = c
    OBVIOUS
  <2>1. Append(upload.hashed, chunk) = Full(upload.sha)
    BY <1>3, <1>5 DEF HashFails, NowHashed, chunk
  <2>2. upload.hashed \in Seq(Chunked) /\ upload.sha \in Images
    BY <1>5 DEF Uploads
  <2>3. chunk = <<upload.sha, Chunks>>
    BY <1>5, <2>1, <2>2, LastNamesImage
  <2>4. QED
    BY <1>6, <2>3
<1>10. clients[c].sha \in {NoImage, upload.sha}
  BY <1>4, <1>5 DEF OwnInv, OwnUpload
<1>11. flash'[Other(running)].image = ImageIn(now)
  BY <1>3, ImageWritten DEF Activates
<1>12. QED
  BY <1>4, <1>8, <1>9, <1>10, <1>11

(* Who had Update to itself activates only what its digest stands for, for  *)
(* any images, clients, tasks and chunks.                                   *)
THEOREM DigestDecides == OtaSpec => ActivatesVerified
<1> DEFINE Verified ==
      Activated =>
        \A who \in alone \cap alone' :
          LET image == flash'[Other(running)].image IN
          IF who \in Installs THEN image = gSha256
          ELSE image = who /\ clients[who].sha \in {NoImage, who}
<1>1. OtaInit => OwnInv /\ SlotInv
  <2> SUFFICES ASSUME OtaInit PROVE OwnInv /\ SlotInv
    OBVIOUS
  <2>1. NoImage \in Images
    BY DEF Images
  <2>2. OwnInv
    BY OwnInit
  <2>3. \A s \in Slots : [image |-> IF s = 0 THEN Factory ELSE NoImage, state |-> "undefined"] \in SlotSides
    BY DEF SlotSides, States, Images
  <2>4. QED
    BY <2>1, <2>2, <2>3 DEF OtaInit, SlotInv, SlotTypes, NotedByUser, Slots
<1>2. OwnInv /\ SlotInv /\ [OtaNext]_otaVars => Verified
  <2> SUFFICES ASSUME OwnInv, SlotInv, [OtaNext]_otaVars, Activated, NEW who \in alone \cap alone'
               PROVE  LET image == flash'[Other(running)].image IN
                      IF who \in Installs THEN image = gSha256
                      ELSE image = who /\ clients[who].sha \in {NoImage, who}
    OBVIOUS
  <2>1. SlotTypes /\ Other(running) \in Slots
    BY DEF SlotInv, SlotTypes, Other, Slots
  <2>2. CASE \E i \in Installs : InstallStep(i)
    BY <2>1, <2>2, InstallActivates
  <2>3. CASE \E c \in Clients : Upload(c)
    BY <2>1, <2>3, UploadActivates, OtaAssumption
  <2>4. CASE SwitchPartition
    BY <2>1, <2>4, ImageWritten DEF SwitchPartition, Activated
  <2>5. CASE OtaRestart \/ OtaPowerCut
    BY <2>1, <2>5, StartedSlots DEF OtaRestart, OtaPowerCut, Activated
  <2>6. CASE (\E opened, removed \in BOOLEAN : FirstLoop(opened, removed)) \/ Proven
    <3>1. UNCHANGED flash \/ MarksValid
      BY <2>6 DEF FirstLoop, Proven
    <3>2. MarksValid => flash'[Other(running)].image = flash[Other(running)].image
      BY <2>1 DEF MarksValid, SlotTypes, SlotSides, Other, Slots
    <3>3. QED
      BY <3>1, <3>2 DEF Activated
  <2>7. CASE StartCheck \/ (\E k \in Checks : CheckStep(k)) \/ StartInstall \/ AnswerEmpty \/ UNCHANGED otaVars
    BY <2>7 DEF StartCheck, CheckStep, StartInstall, AnswerEmpty, otaVars, slotVars, Activated
  <2>8. QED
    BY <2>2, <2>3, <2>4, <2>5, <2>6, <2>7 DEF OtaNext
<1>3. OwnInv /\ SlotInv /\ [OtaNext]_otaVars => OwnInv' /\ SlotInv'
  BY OwnStep, SlotStep
<1>4. OwnInv /\ SlotInv /\ [OtaNext]_otaVars => [Verified]_otaVars
  BY <1>2
<1> HIDE DEF Verified
<1>5. OtaSpec => [][Verified]_otaVars
  BY <1>1, <1>3, <1>4, PTL DEF OtaSpec
<1>6. QED
  BY <1>5 DEF Verified, ActivatesVerified

(* The status: whoever wrote "checking" or "installing" last is still on    *)
(* its way.  A task that ends writes how it ended, over what any other      *)
(* task has written.                                                        *)
LEMMA InstallStatus ==
  ASSUME installs \in [Installs -> InstallSides], NEW i \in Installs, InstallStep(i), StatusOwned
  PROVE  StatusOwned'
<1>1. UNCHANGED checks
  BY DEF InstallStep
<1>2. CASE gState' \in {"error", "done"}
  BY <1>2 DEF StatusOwned
<1>3. CASE gState' \notin {"error", "done"}
  <2> DEFINE goes(task) == installs' = [installs EXCEPT ![i] = task] /\ task.at \in {"begin", "write"}
  <2>1. UNCHANGED gState /\ \E task : goes(task)
    <3>1. CASE InstallGet(i)
      <4>1. goes([at |-> "begin", image |-> gUrl, written |-> 0]) /\ UNCHANGED gState
        BY <1>3, <3>1 DEF InstallGet, InstallFails, InstallGoesOn
      <4>2. QED
        BY <4>1
    <3>2. CASE InstallBegin(i)
      <4>1. /\ installs' = [installs EXCEPT ![i] = [installs[i] EXCEPT !.at = "write"]]
            /\ UNCHANGED gState
        BY <1>3, <3>2 DEF InstallBegin, InstallFails, InstallGoesOn
      <4>2. [installs[i] EXCEPT !.at = "write"].at = "write"
        BY DEF InstallSides
      <4>3. QED
        BY <4>1, <4>2
    <3>3. CASE InstallWrite(i)
      <4> DEFINE task == [installs[i] EXCEPT !.written = installs[i].written + 1]
      <4>1. installs' = [installs EXCEPT ![i] = task] /\ UNCHANGED gState /\ installs[i].at = "write"
        BY <1>3, <3>3 DEF InstallWrite, InstallFails, InstallGoesOn
      <4>2. task.at = installs[i].at
        BY DEF InstallSides
      <4>3. QED
        BY <4>1, <4>2
    <3>4. ~InstallEnd(i)
      BY <1>3 DEF InstallEnd, InstallFails
    <3>5. QED
      BY <3>1, <3>2, <3>3, <3>4 DEF InstallStep
  <2>2. PICK task : goes(task)
    BY <2>1
  <2>3. installs'[i].at \in {"get", "begin", "write"}
    BY <2>2
  <2>4. QED
    BY <1>1, <2>1, <2>3 DEF StatusOwned
<1>4. QED
  BY <1>2, <1>3

CheckTypes == checks \in [Checks -> {"none", "get"} \cup Online]

LEMMA CheckTypesStep == CheckTypes /\ [OtaNext]_otaVars => CheckTypes'
<1> SUFFICES ASSUME CheckTypes, [OtaNext]_otaVars PROVE CheckTypes'
  OBVIOUS
<1> USE DEF CheckTypes
<1>1. CASE UNCHANGED checks
  BY <1>1
<1>2. CASE StartCheck
  BY <1>2 DEF StartCheck
<1>3. ASSUME NEW k \in Checks, CheckStep(k) PROVE CheckTypes'
  BY <1>3 DEF CheckStep
<1>4. CASE OtaRestart \/ OtaPowerCut
  BY <1>4 DEF OtaRestart, OtaPowerCut, Reboots
<1>5. ASSUME NEW i \in Installs, InstallStep(i) PROVE UNCHANGED checks
  BY <1>5 DEF InstallStep
<1>6. ASSUME NEW c \in Clients, Upload(c) PROVE UNCHANGED checks
  BY <1>6 DEF Upload, UploadRefused, UploadBegins, UploadNext, Answer, UploadLost, onlineVars
<1>7. ASSUME NEW opened \in BOOLEAN, NEW removed \in BOOLEAN, FirstLoop(opened, removed)
      PROVE  UNCHANGED checks
  BY <1>7 DEF FirstLoop, onlineVars
<1>8. StartInstall \/ SwitchPartition \/ AnswerEmpty \/ Proven \/ UNCHANGED otaVars => UNCHANGED checks
  BY DEF StartInstall, SwitchPartition, AnswerEmpty, Proven, otaVars, onlineVars
<1>9. QED
  BY <1>1, <1>2, <1>3, <1>4, <1>5, <1>6, <1>7, <1>8 DEF OtaNext

(* "Checking" and "installing" are never left standing by a task that is    *)
(* gone, for any number of checks and installations at once.                *)
THEOREM StatusIsOwned == OtaSpec => []StatusOwned
<1>1. OtaInit => OwnInv /\ CheckTypes /\ StatusOwned
  BY OwnInit DEF OtaInit, CheckTypes, StatusOwned
<1>2. OwnInv /\ CheckTypes /\ StatusOwned /\ [OtaNext]_otaVars => StatusOwned'
  <2> SUFFICES ASSUME OwnInv, CheckTypes, StatusOwned, [OtaNext]_otaVars PROVE StatusOwned'
    OBVIOUS
  <2>1. installs \in [Installs -> InstallSides]
    BY DEF OwnInv, Sides
  <2>2. CASE UNCHANGED <<gState, checks, installs>>
    BY <2>2 DEF StatusOwned
  <2>3. CASE StartCheck
    <3>1. CASE gState' = "error"
      BY <3>1 DEF StatusOwned
    <3>2. CASE gState' # "error"
      <4>1. PICK k \in Checks : checks' = [checks EXCEPT ![k] = "get"]
        BY <2>3, <3>2 DEF StartCheck
      <4>2. checks'[k] = "get" /\ gState' = "checking"
        BY <2>3, <3>2, <4>1 DEF StartCheck, CheckTypes
      <4>3. QED
        BY <4>2 DEF StatusOwned
    <3>3. QED
      BY <3>1, <3>2
  <2>4. ASSUME NEW k \in Checks, CheckStep(k) PROVE StatusOwned'
    <3>1. CASE gState' \in {"error", "available", "idle"}
      BY <3>1 DEF StatusOwned
    <3>2. CASE gState' \notin {"error", "available", "idle"}
      <4>1. UNCHANGED <<gState, installs>> /\ \E image \in Online : checks' = [checks EXCEPT ![k] = image]
        BY <2>4, <3>2 DEF CheckStep, CheckFails
      <4>2. PICK image \in Online : checks' = [checks EXCEPT ![k] = image]
        BY <4>1
      <4>3. checks'[k] # "none"
        BY <4>2, OtaAssumption DEF CheckTypes
      <4>4. QED
        BY <4>1, <4>3 DEF StatusOwned
    <3>3. QED
      BY <3>1, <3>2
  <2>5. CASE StartInstall
    <3>1. CASE gState' = "error"
      BY <3>1 DEF StatusOwned
    <3>2. CASE gState' # "error"
      <4>1. /\ gState' = "installing"
            /\ \E i \in Installs : installs' = [installs EXCEPT ![i].at = "get"]
        BY <2>5, <3>2 DEF StartInstall
      <4>2. PICK i \in Installs : installs' = [installs EXCEPT ![i].at = "get"]
        BY <4>1
      <4>3. installs'[i].at = "get"
        BY <2>1, <4>2 DEF InstallSides
      <4>4. QED
        BY <4>1, <4>3 DEF StatusOwned
    <3>3. QED
      BY <3>1, <3>2
  <2>6. ASSUME NEW i \in Installs, InstallStep(i) PROVE StatusOwned'
    BY <2>1, <2>6, InstallStatus
  <2>7. CASE OtaRestart \/ OtaPowerCut
    BY <2>7 DEF OtaRestart, OtaPowerCut, Reboots, StatusOwned
  <2>8. ASSUME NEW c \in Clients, Upload(c) PROVE UNCHANGED <<gState, checks, installs>>
    BY <2>8 DEF Upload, UploadRefused, UploadBegins, UploadNext, Answer, UploadLost, onlineVars
  <2>9. SwitchPartition \/ AnswerEmpty \/ Proven \/ UNCHANGED otaVars
          \/ (\E opened, removed \in BOOLEAN : FirstLoop(opened, removed))
          => UNCHANGED <<gState, checks, installs>>
    BY DEF SwitchPartition, AnswerEmpty, FirstLoop, Proven, otaVars, onlineVars
  <2>10. QED
    BY <2>2, <2>3, <2>4, <2>5, <2>6, <2>7, <2>8, <2>9 DEF OtaNext
<1>3. QED
  BY <1>1, <1>2, OwnStep, CheckTypesStep, PTL DEF OtaSpec

-------------------------------------------------------------------------------
(* The clock: a time the user sets, on its way from one task to the other.  *)

(* What loop() has read is what it is about to clear.                       *)
TakenIsPending == timeStep = "clear" /\ ~lost => taken = pendingSet

LEMMA TakenStep == TakenIsPending /\ [TimeNext]_timeVars => TakenIsPending'
<1> SUFFICES ASSUME TakenIsPending, [TimeNext]_timeVars PROVE TakenIsPending'
  OBVIOUS
<1> USE DEF TakenIsPending
<1>1. CASE timeStep' # "clear"
  BY <1>1
<1>2. CASE TakeRequest
  BY <1>2 DEF TakeRequest
<1>3. ASSUME NEW t \in Times, RequestSet(t) PROVE TakenIsPending'
  BY <1>3 DEF RequestSet
<1>4. CASE UNCHANGED <<timeStep, setVars>>
  BY <1>4 DEF setVars
<1>5. TimeBegin \/ ClearRequest \/ ApplyUtc \/ TrackNtp \/ WatchRtc \/ SendTime \/ TimeRestart
        => timeStep' # "clear"
  BY DEF TimeBegin, ClearRequest, ApplyUtc, TrackNtp, WatchRtc, SendTime, TimeRestart
<1>6. ASSUME NEW conf \in Configs, ApplyConfig(conf) PROVE UNCHANGED <<timeStep, setVars>>
  BY <1>6 DEF ApplyConfig
<1>7. RequestSend \/ SntpAnswers \/ RtcChanges \/ UNCHANGED timeVars
        => UNCHANGED <<timeStep, setVars>>
  BY DEF RequestSend, SntpAnswers, RtcChanges, timeVars, setVars
<1>8. QED
  BY <1>1, <1>2, <1>3, <1>4, <1>5, <1>6, <1>7 DEF TimeNext, TimeLoop

(* An accepted time is not lost between the two tasks, for any times and    *)
(* any number of requests, but where one comes between read and clear.      *)
THEOREM SetIsHandedOver == TimeSpec => HandedOver
<1> DEFINE Handed ==
      (pendingSet # NoTime /\ pendingSet' # pendingSet /\ ~lost /\ asked' = pendingSet)
        => timeStep' = "apply" /\ taken' = pendingSet
<1>1. TimeInit => TakenIsPending
  BY DEF TimeInit, TakenIsPending
<1>2. TakenIsPending /\ [TimeNext]_timeVars => Handed
  <2> SUFFICES ASSUME TakenIsPending, [TimeNext]_timeVars, pendingSet # NoTime,
                      pendingSet' # pendingSet, ~lost, asked' = pendingSet
               PROVE  timeStep' = "apply" /\ taken' = pendingSet
    OBVIOUS
  <2>1. CASE ClearRequest
    BY <2>1 DEF ClearRequest, TakenIsPending
  <2>2. ASSUME NEW t \in Times, RequestSet(t) PROVE FALSE
    BY <2>2 DEF RequestSet
  <2>3. ~TimeRestart
    BY DEF TimeRestart
  <2>4. ASSUME NEW conf \in Configs, ApplyConfig(conf) PROVE FALSE
    BY <2>4 DEF ApplyConfig, setVars
  <2>5. TimeBegin \/ TakeRequest \/ ApplyUtc \/ TrackNtp \/ WatchRtc \/ SendTime => FALSE
    BY DEF TimeBegin, TakeRequest, ApplyUtc, TrackNtp, WatchRtc, SendTime, setVars
  <2>6. RequestSend \/ SntpAnswers \/ RtcChanges \/ UNCHANGED timeVars => FALSE
    BY DEF RequestSend, SntpAnswers, RtcChanges, timeVars, setVars
  <2>7. QED
    BY <2>1, <2>2, <2>3, <2>4, <2>5, <2>6 DEF TimeNext, TimeLoop
<1>3. TakenIsPending /\ [TimeNext]_timeVars => [Handed]_timeVars
  BY <1>2
<1> HIDE DEF Handed
<1>4. TimeSpec => [][Handed]_timeVars
  BY <1>1, <1>3, TakenStep, PTL DEF TimeSpec
<1>5. QED
  BY <1>4 DEF Handed, HandedOver

-------------------------------------------------------------------------------
(* The log, for any tasks and sizes of the rings.                           *)

(* Places in a ring of a size, around its end. None is written out in the   *)
(* proofs below but in the lemma about it.                                  *)
After(head, size, m) == (head + m) % size
CellOf(head, size, k) == (head + size - k) % size
Back(head, size, i) == (head + size - 1 - i) % size

(* What a ring holds: the newest of a text, as much as it has filled, the   *)
(* k-th newest character k cells before the head.                           *)
Token == {<<Stamp>>, <<Mark>>} \cup {Count(n) : n \in Nat}
           \cup {<<line>> : line \in Lines \cup {NoText, "own"}}
Ring(size) == [cells : [0 .. size - 1 -> Token], head : 0 .. size - 1, filled : 0 .. size]
Holds(r, text, size) ==
    /\ r \in Ring(size) /\ text \in Seq(Token) /\ r.filled =< Len(text)
    /\ \A k \in 1 .. r.filled : r.cells[CellOf(r.head, size, k)] = text[Len(text) + 1 - k]

(* A text that is another one from a place on.                              *)
Aligned(text, all, upTo) ==
    /\ text \in Seq(Token) /\ all \in Seq(Token) /\ Len(text) = Len(all)
    /\ \A i \in 1 .. Len(all) : i > upTo => text[i] = all[i]

LEMMA AlignedSelf == ASSUME NEW text \in Seq(Token), NEW n PROVE Aligned(text, text, n)
BY DEF Aligned

LEMMA AlignedFurther ==
    ASSUME NEW text, NEW mid, NEW all, NEW m \in Nat, NEW n \in Int, m =< n,
           Aligned(text, mid, n), Aligned(mid, all, m)
    PROVE  Aligned(text, all, n)
<1>1. /\ text \in Seq(Token) /\ all \in Seq(Token) /\ mid \in Seq(Token)
      /\ Len(text) = Len(all) /\ Len(mid) = Len(all)
  BY DEF Aligned
<1>2. ASSUME NEW i \in 1 .. Len(all), i > n PROVE text[i] = all[i]
  <2>1. i > m /\ i \in 1 .. Len(mid)
    BY <1>1, <1>2
  <2>2. QED
    BY <1>2, <2>1 DEF Aligned
<1>3. QED
  BY <1>1, <1>2 DEF Aligned

LEMMA FrontOfBoth ==
    ASSUME NEW S, NEW a \in Seq(S), NEW b \in Seq(S), NEW j \in 1 .. Len(a)
    PROVE  (a \o b)[j] = a[j]
OBVIOUS

LEMMA AlignedOn ==
    ASSUME NEW text, NEW all, NEW n \in Int, Aligned(text, all, n), NEW more \in Seq(Token)
    PROVE  Aligned(text \o more, all \o more, n)
<1>1. /\ text \in Seq(Token) /\ all \in Seq(Token)
      /\ Len(text) = Len(all) /\ Len(all) \in Nat /\ Len(more) \in Nat
  BY DEF Aligned
<1>2. PICK a, b : a = text \o more /\ b = all \o more
  OBVIOUS
<1>5. /\ a \in Seq(Token) /\ Len(a) = Len(all) + Len(more)
      /\ b \in Seq(Token) /\ Len(b) = Len(all) + Len(more)
  <2>1. /\ text \o more \in Seq(Token) /\ Len(text \o more) = Len(text) + Len(more)
        /\ all \o more \in Seq(Token) /\ Len(all \o more) = Len(all) + Len(more)
    BY <1>1
  <2>2. QED
    BY <1>1, <1>2, <2>1
<1>3. ASSUME NEW i \in 1 .. Len(b), i > n PROVE a[i] = b[i]
  <2>1. CASE i =< Len(all)
    <3>1. i \in 1 .. Len(all) /\ i \in 1 .. Len(text)
      BY <1>1, <1>5, <2>1
    <3>2. a[i] = text[i] /\ b[i] = all[i]
      BY <1>1, <1>2, <3>1, FrontOfBoth
    <3>3. text[i] = all[i]
      BY <1>3, <3>1 DEF Aligned
    <3>4. QED
      BY <3>2, <3>3
  <2>2. CASE i > Len(all)
    <3>1. i \in Len(all) + 1 .. Len(all) + Len(more)
      BY <1>1, <1>5, <2>2
    <3>2. a[i] = more[i - Len(all)] /\ b[i] = more[i - Len(all)]
      BY <1>1, <1>2, <3>1
    <3>3. QED
      BY <3>2
  <2>3. QED
    BY <1>1, <2>1, <2>2
<1>4. QED
  BY <1>2, <1>3, <1>5 DEF Aligned

(* Remainders, where the argument is at most twice the divisor and a bit.   *)
LEMMA Straight ==
    ASSUME NEW n \in Nat \ {0}, NEW x \in 0 .. n - 1
    PROVE  x % n = x
OBVIOUS

LEMMA SumAround ==
    ASSUME NEW n \in Nat \ {0}, NEW h \in 0 .. n - 1, NEW m \in 0 .. n - 1
    PROVE  (h + m) % n = IF h + m < n THEN h + m ELSE h + m - n
OBVIOUS

LEMMA BackAround ==
    ASSUME NEW n \in Nat \ {0}, NEW h \in 0 .. n - 1, NEW k \in 1 .. n
    PROVE  (h + n - k) % n = IF h < k THEN h + n - k ELSE h - k
OBVIOUS

LEMMA OnAround ==
    ASSUME NEW n \in Nat \ {0}, NEW h \in 0 .. n - 1, NEW m \in 0 .. n - 1
    PROVE  (m + n + h) % n = IF m + h < n THEN m + h ELSE m + h - n
OBVIOUS

(* The least of two and of three numbers.                                   *)
LEMMA LeastOfTwo ==
    ASSUME NEW a \in Int, NEW b \in Int
    PROVE  Min({a, b}) = IF a =< b THEN a ELSE b
<1>1. CASE a =< b
  <2>1. \A x \in {a, b} : (\A y \in {a, b} : x =< y) => x = a
    BY <1>1
  <2>2. QED
    BY <1>1, <2>1 DEF Min
<1>2. CASE ~(a =< b)
  <2>1. \A x \in {a, b} : (\A y \in {a, b} : x =< y) => x = b
    BY <1>2
  <2>2. QED
    BY <1>2, <2>1 DEF Min
<1>3. QED
  BY <1>1, <1>2

LEMMA LeastOfThree ==
    ASSUME NEW a \in Int, NEW b \in Int, NEW c \in Int
    PROVE  /\ Min({a, b, c}) \in {a, b, c}
           /\ Min({a, b, c}) =< a /\ Min({a, b, c}) =< b /\ Min({a, b, c}) =< c
<1>1. \E x \in {a, b, c} : \A y \in {a, b, c} : x =< y
  OBVIOUS
<1>2. QED
  BY <1>1 DEF Min

LEMMA RingSize ==
    ASSUME NEW size \in Nat \ {0}, NEW r \in Ring(size)
    PROVE  SizeOf(r) = size
<1>1. DOMAIN r.cells = 0 .. size - 1
  BY DEF Ring
<1>2. QED
  BY <1>1, FS_Interval DEF SizeOf

LEMMA EmptyHolds ==
    ASSUME NEW size \in Nat \ {0}, NEW text \in Seq(Token)
    PROVE  Holds(EmptyRing(size), text, size)
<1>1. <<NoText>> \in Token
  BY DEF Token
<1>2. QED
  BY <1>1 DEF Holds, EmptyRing, Ring

(* The cell d before the new head is the one d - m before the old.          *)
LEMMA HeadMoves ==
    ASSUME NEW size \in Nat \ {0}, NEW h \in 0 .. size - 1, NEW m \in Nat,
           NEW q \in 0 .. size - 1, q = After(h, size, m), NEW k \in 1 .. size
    PROVE  /\ CellOf(q, size, k) \in 0 .. size - 1
           /\ Back(q, size, CellOf(q, size, k)) = k - 1
           /\ k > m => CellOf(q, size, k) = CellOf(h, size, k - m)
<1> DEFINE d == (q + size - k) % size
<1>1. d = IF q < k THEN q + size - k ELSE q - k
  BY BackAround, Zenon
<1> HIDE DEF d
<1>2. d \in 0 .. size - 1
  BY <1>1
<1>3. (q + size - 1 - d) % size = k - 1
  <2>1. CASE q < k
    <3>1. q + size - 1 - d = k - 1
      BY <1>1, <2>1
    <3>2. QED
      BY <3>1, Straight
  <2>2. CASE q >= k
    <3>1. q + size - 1 - d = (k - 1) + size
      BY <1>1, <2>2
    <3>2. ((k - 1) + size) % size = k - 1
      OBVIOUS
    <3>3. QED
      BY <3>1, <3>2
  <2>3. QED
    BY <2>1, <2>2
<1>4. ASSUME k > m
      PROVE  d = (h + size - (k - m)) % size
  <2>1. m \in 0 .. size - 1 /\ k - m \in 1 .. size
    BY <1>4
  <2>2. q = IF h + m < size THEN h + m ELSE h + m - size
    BY <2>1, SumAround, Zenon DEF After
  <2>3. (h + size - (k - m)) % size = IF h < k - m THEN h + size - (k - m) ELSE h - (k - m)
    BY <2>1, BackAround, Zenon
  <2>4. PICK e : e = (h + size - (k - m)) % size
    OBVIOUS
  <2>5. e = IF h < k - m THEN h + size - (k - m) ELSE h - (k - m)
    BY <2>3, <2>4, Zenon
  <2>6. d = e
    BY <1>1, <1>4, <2>1, <2>2, <2>5
  <2>7. QED
    BY <2>4, <2>6
<1>5. QED
  BY <1>2, <1>3, <1>4, Zenon DEF CellOf, Back, d

(* Putting a text down appends it, whatever the ring held and however long  *)
(* the text is.                                                             *)
LEMMA AppendHolds ==
    ASSUME NEW size \in Nat \ {0}, NEW r, NEW text, Holds(r, text, size),
           NEW more \in Seq(Token)
    PROVE  Holds(PutAll(r, more), text \o more, size)
<1>1. /\ r \in Ring(size) /\ text \in Seq(Token)
      /\ r.head \in 0 .. size - 1 /\ r.filled \in Nat /\ r.filled =< Len(text)
      /\ DOMAIN r.cells = 0 .. size - 1 /\ r.cells \in [0 .. size - 1 -> Token]
  BY DEF Holds, Ring
<1>2. PICK m \in Nat, t \in Nat, h \in 0 .. size - 1 :
          m = Len(more) /\ t = Len(text) /\ h = r.head
  BY <1>1
<1>3. PICK n \in 0 .. size - 1 : n = After(h, size, m)
  BY DEF After
<1>4. ASSUME NEW k \in 1 .. size
      PROVE  /\ CellOf(n, size, k) \in 0 .. size - 1
             /\ Back(n, size, CellOf(n, size, k)) = k - 1
             /\ k > m => CellOf(n, size, k) = CellOf(h, size, k - m)
  BY <1>3, HeadMoves
<1> DEFINE cells == [i \in 0 .. size - 1 |->
                       IF Back(n, size, i) < m THEN more[m - Back(n, size, i)] ELSE r.cells[i]]
           filled == Min({size, r.filled + m})
           all == text \o more
           p == [cells |-> cells, head |-> n, filled |-> filled]
<1>5. PutAll(r, more) = p
  <2>1. SizeOf(r) = size
    BY <1>1, RingSize
  <2>2. QED
    BY <1>1, <1>2, <1>3, <2>1 DEF PutAll, Back, After
<1>6. filled = IF size =< r.filled + m THEN size ELSE r.filled + m
  BY <1>1, <1>2, LeastOfTwo, SMTT(30)
<1>7. all \in Seq(Token) /\ Len(all) = t + m
  BY <1>1, <1>2
<1>8. cells \in [0 .. size - 1 -> Token]
  <2>1. ASSUME NEW i \in 0 .. size - 1 PROVE cells[i] \in Token
    <3>1. PICK b \in Nat : b = Back(n, size, i)
      BY DEF Back
    <3>2. b < m => more[m - b] \in Token
      <4>1. b < m => m - b \in 1 .. Len(more)
        BY <1>2
      <4>2. QED
        BY <4>1
    <3>3. r.cells[i] \in Token
      BY <1>1
    <3>4. QED
      BY <3>1, <3>2, <3>3
  <2>2. QED
    BY <2>1
<1>9. ASSUME NEW k \in 1 .. filled
      PROVE  cells[CellOf(n, size, k)] = all[Len(all) + 1 - k]
  <2>1. k \in 1 .. size /\ k =< r.filled + m /\ k \in Nat
    BY <1>1, <1>2, <1>6
  <2>2. PICK i \in 0 .. size - 1 : i = CellOf(n, size, k) /\ Back(n, size, i) = k - 1
    BY <1>4, <2>1
  <2>3. CASE k =< m
    <3>1. cells[i] = more[m - (k - 1)]
      BY <2>1, <2>2, <2>3
    <3>2. all[t + (m + 1 - k)] = more[m + 1 - k]
      BY <1>1, <1>2, <2>1, <2>3
    <3>3. m - (k - 1) = m + 1 - k /\ Len(all) + 1 - k = t + (m + 1 - k)
      BY <1>7, <2>1
    <3> HIDE DEF cells, all
    <3>4. QED
      BY <2>2, <3>1, <3>2, <3>3
  <2>4. CASE k > m
    <3>1. cells[i] = r.cells[i]
      BY <2>1, <2>2, <2>4
    <3>2. i = CellOf(h, size, k - m)
      BY <1>4, <2>1, <2>2, <2>4
    <3>3. k - m \in 1 .. r.filled
      BY <1>1, <2>1, <2>4, SMTT(30)
    <3>4. r.cells[i] = text[t + 1 - (k - m)]
      BY <1>2, <3>2, <3>3 DEF Holds
    <3>5. all[t + 1 - (k - m)] = text[t + 1 - (k - m)]
      <4>1. t + 1 - (k - m) \in 1 .. Len(text)
        BY <1>1, <1>2, <3>3
      <4>2. QED
        BY <1>1, <4>1, FrontOfBoth
    <3>6. Len(all) + 1 - k = t + 1 - (k - m)
      BY <1>7, <2>1
    <3> HIDE DEF cells, all
    <3>7. QED
      BY <2>2, <3>1, <3>4, <3>5, <3>6
  <2>5. k =< m \/ k > m
    BY <2>1
  <2>6. QED
    BY <2>3, <2>4, <2>5
<1>10. filled \in 0 .. size /\ filled =< Len(all)
  BY <1>1, <1>2, <1>6, <1>7
<1> HIDE DEF cells, filled, all
<1>11. p \in Ring(size)
  BY <1>8, <1>10 DEF Ring
<1>12. Holds(p, all, size)
  BY <1>7, <1>9, <1>10, <1>11 DEF Holds
<1>13. QED
  BY <1>5, <1>12 DEF all

(* Between the head and the count of the last character.                    *)
LEMMA TornHolds ==
    ASSUME NEW size \in Nat \ {0}, NEW r, NEW text, Holds(r, text, size), NEW c \in Token
    PROVE  Holds(TornPut(r, c), text \o <<c>>, size)
<1>1. /\ r \in Ring(size) /\ r.filled \in 0 .. size
  BY DEF Holds, Ring
<1>2. <<c>> \in Seq(Token)
  OBVIOUS
<1>3. Holds(Put(r, c), text \o <<c>>, size)
  BY <1>2, AppendHolds DEF Put
<1>4. PICK p \in Ring(size) : p = Put(r, c)
  BY <1>3 DEF Holds
<1>5. p.filled \in 0 .. size /\ r.filled =< p.filled
  <2>1. p.filled = Min({size, r.filled + Len(<<c>>)})
    BY <1>1, <1>4, RingSize DEF Put, PutAll
  <2>2. QED
    BY <1>1, <2>1, LeastOfTwo
<1>6. PICK q : q = TornPut(r, c)
  OBVIOUS
<1>7. /\ q \in Ring(size) /\ q.cells = p.cells /\ q.head = p.head /\ q.filled = r.filled
  BY <1>1, <1>4, <1>6 DEF TornPut, Ring
<1> DEFINE all == text \o <<c>>
<1>8. all \in Seq(Token) /\ Len(all) \in Nat /\ p.filled =< Len(all)
  BY <1>3, <1>4 DEF Holds
<1>9. \A k \in 1 .. p.filled : p.cells[CellOf(p.head, size, k)] = all[Len(all) + 1 - k]
  BY <1>3, <1>4, Zenon DEF Holds
<1> HIDE DEF all
<1>10. q.filled =< Len(all)
  BY <1>1, <1>5, <1>7, <1>8
<1>11. ASSUME NEW k \in 1 .. q.filled
       PROVE  q.cells[CellOf(q.head, size, k)] = all[Len(all) + 1 - k]
  <2>1. k \in 1 .. p.filled
    BY <1>1, <1>5, <1>7
  <2>2. QED
    BY <1>7, <1>9, <2>1, Zenon
<1>12. Holds(q, all, size)
  BY <1>7, <1>8, <1>10, <1>11, Zenon DEF Holds
<1>13. QED
  BY <1>6, <1>12 DEF all

(* Between the cell and the head of the last character: a full ring holds   *)
(* it where its oldest was, any other is as it was.                         *)
LEMMA CellHolds ==
    ASSUME NEW size \in Nat \ {0}, NEW r, NEW text, Holds(r, text, size), NEW c \in Token
    PROVE  LET q == CellPut(r, c) IN
           /\ q.filled = r.filled
           /\ r.filled # size => Holds(q, text, size)
           /\ r.filled = size =>
                  \E now \in Seq(Token) :
                      Holds(q, now, size) /\ Aligned(now, text, Len(text) + 1 - size)
<1>1. /\ r \in Ring(size) /\ text \in Seq(Token) /\ r.filled =< Len(text)
      /\ r.head \in 0 .. size - 1 /\ r.filled \in 0 .. size
      /\ r.cells \in [0 .. size - 1 -> Token] /\ Len(text) \in Nat
  BY DEF Holds, Ring
<1>2. PICK q : q = CellPut(r, c)
  OBVIOUS
<1>3. /\ q \in Ring(size) /\ q.head = r.head /\ q.filled = r.filled
      /\ \A i \in 0 .. size - 1 : q.cells[i] = IF i = r.head THEN c ELSE r.cells[i]
  BY <1>1, <1>2 DEF CellPut, Ring
<1>4. ASSUME NEW k \in 1 .. size
      PROVE  /\ CellOf(r.head, size, k) \in 0 .. size - 1
             /\ CellOf(r.head, size, k) = r.head <=> k = size
  <2>1. (r.head + size - k) % size = IF r.head < k THEN r.head + size - k ELSE r.head - k
    BY <1>1, BackAround, Zenon
  <2>2. PICK d : d = (r.head + size - k) % size
    OBVIOUS
  <2>3. d = IF r.head < k THEN r.head + size - k ELSE r.head - k
    BY <2>1, <2>2, Zenon
  <2>4. d \in 0 .. size - 1 /\ (d = r.head <=> k = size)
    BY <1>1, <2>3
  <2>5. QED
    BY <2>2, <2>4 DEF CellOf
<1>5. \A k \in 1 .. r.filled :
          k \in 1 .. size /\ r.cells[CellOf(r.head, size, k)] = text[Len(text) + 1 - k]
  BY <1>1 DEF Holds
<1>6. CASE r.filled # size
  <2>1. \A k \in 1 .. q.filled : k \in 1 .. size /\ k # size
    BY <1>1, <1>3, <1>6
  <2>2. \A k \in 1 .. q.filled : q.cells[CellOf(q.head, size, k)] = text[Len(text) + 1 - k]
    BY <1>3, <1>4, <1>5, <2>1
  <2>3. Holds(q, text, size)
    BY <1>1, <1>3, <2>2 DEF Holds
  <2>4. QED
    BY <1>2, <1>3, <1>6, <2>3
<1>7. CASE r.filled = size
  <2>1. PICK o \in 1 .. Len(text) : o = Len(text) + 1 - size
    BY <1>1, <1>7
  <2>2. PICK now : now = [text EXCEPT ![o] = c]
    OBVIOUS
  <2>3. /\ now \in Seq(Token) /\ Len(now) = Len(text)
        /\ \A i \in 1 .. Len(text) : now[i] = IF i = o THEN c ELSE text[i]
    BY <1>1, <2>2
  <2>4. ASSUME NEW k \in 1 .. q.filled
        PROVE  q.cells[CellOf(q.head, size, k)] = now[Len(now) + 1 - k]
    <3>1. k \in 1 .. size /\ k \in 1 .. r.filled
      BY <1>3, <1>7
    <3>2. Len(text) + 1 - k \in 1 .. Len(text) /\ (Len(text) + 1 - k = o <=> k = size)
      BY <1>1, <2>1, <3>1
    <3>3. now[Len(now) + 1 - k] = IF k = size THEN c ELSE text[Len(text) + 1 - k]
      BY <2>3, <3>2
    <3>4. q.cells[CellOf(q.head, size, k)] =
              IF k = size THEN c ELSE r.cells[CellOf(r.head, size, k)]
      BY <1>3, <1>4, <3>1
    <3>5. QED
      BY <1>5, <3>1, <3>3, <3>4
  <2>5. Holds(q, now, size)
    BY <1>1, <1>3, <2>3, <2>4 DEF Holds
  <2>6. Aligned(now, text, Len(text) + 1 - size)
    BY <1>1, <2>1, <2>3 DEF Aligned
  <2>7. QED
    BY <1>2, <1>3, <1>7, <2>3, <2>5, <2>6
<1>8. QED
  BY <1>6, <1>7

(* The newest n are the last n of the text.                                 *)
LEMMA NewestHeld ==
    ASSUME NEW size \in Nat \ {0}, NEW r, NEW text, Holds(r, text, size), NEW n \in 0 .. r.filled
    PROVE  /\ Newest(r, n) \in Seq(Token) /\ Len(Newest(r, n)) = n
           /\ \A i \in 1 .. n : Newest(r, n)[i] = text[Len(text) - n + i]
<1>1. /\ r \in Ring(size) /\ text \in Seq(Token) /\ Len(text) \in Nat
      /\ r.head \in 0 .. size - 1 /\ r.filled \in 0 .. size /\ r.filled =< Len(text)
      /\ n \in Nat /\ n =< size
  BY DEF Holds, Ring
<1> DEFINE cell(i) == r.cells[(r.head + size - n + i - 1) % size]
<1>2. Newest(r, n) = [i \in 1 .. n |-> cell(i)]
  BY <1>1, RingSize DEF Newest, CellsFrom
<1>3. ASSUME NEW i \in 1 .. n
      PROVE  cell(i) = text[Len(text) - n + i] /\ cell(i) \in Token
  <2>1. n + 1 - i \in 1 .. r.filled
    BY <1>1
  <2>2. r.head + size - n + i - 1 = r.head + size - (n + 1 - i)
    BY <1>1
  <2>3. cell(i) = r.cells[CellOf(r.head, size, n + 1 - i)]
    BY <2>2, Zenon DEF CellOf
  <2>4. cell(i) = text[Len(text) + 1 - (n + 1 - i)]
    BY <2>1, <2>3, Zenon DEF Holds
  <2>5. /\ Len(text) + 1 - (n + 1 - i) = Len(text) - n + i
        /\ Len(text) - n + i \in 1 .. Len(text)
    BY <1>1
  <2> HIDE DEF cell
  <2>6. QED
    BY <1>1, <2>4, <2>5
<1> HIDE DEF cell
<1>4. QED
  BY <1>1, <1>2, <1>3

---------------------------------------------------------------------------
(* The cells a reader goes through, from the oldest on.                     *)
Onward(head, size, m) == (m + size + head) % size

(* The i-th character a reader gets, a characters behind the oldest of f.   *)
LEMMA ReaderCell ==
    ASSUME NEW size \in Nat \ {0}, NEW h \in 0 .. size - 1, NEW f \in 1 .. size,
           NEW a \in 0 .. f - 1, NEW i \in 1 .. f - a,
           NEW s \in Nat, s = CellOf(h, size, f), NEW b \in Nat, b = Onward(s, size, a)
    PROVE  After(b, size, i - 1) = CellOf(h, size, f - a - i + 1)
<1>1. s = IF h < f THEN h + size - f ELSE h - f
  BY BackAround, Zenon DEF CellOf
<1>2. s \in 0 .. size - 1
  BY <1>1
<1>3. b = IF a + s < size THEN a + s ELSE a + s - size
  <2>1. a \in 0 .. size - 1
    OBVIOUS
  <2>2. (a + size + s) % size = IF a + s < size THEN a + s ELSE a + s - size
    BY <1>2, <2>1, OnAround, Zenon
  <2>3. QED
    BY <2>2, Zenon DEF Onward
<1>4. b \in 0 .. size - 1 /\ i - 1 \in 0 .. size - 1 /\ f - a - i + 1 \in 1 .. size
  BY <1>2, <1>3
<1>5. PICK l \in 0 .. size - 1, k \in 1 .. size : l = i - 1 /\ k = f - a - i + 1
  BY <1>4
<1>6. (b + l) % size = IF b + l < size THEN b + l ELSE b + l - size
  BY <1>4, SumAround, Zenon
<1>7. CellOf(h, size, k) = IF h < k THEN h + size - k ELSE h - k
  BY BackAround, Zenon DEF CellOf
<1>8. (b + l) % size = CellOf(h, size, k)
  <2>1. PICK u : u = (b + l) % size
    OBVIOUS
  <2>2. u = IF b + l < size THEN b + l ELSE b + l - size
    BY <1>6, <2>1, Zenon
  <2>3. u = IF h < k THEN h + size - k ELSE h - k
    BY <1>1, <1>2, <1>3, <1>4, <1>5, <2>2
  <2>4. QED
    BY <1>7, <2>1, <2>3, Zenon
<1>9. QED
  BY <1>5, <1>8 DEF After

\* The same for the reader that begins at the oldest character.
LEMMA OldestCell ==
    ASSUME NEW size \in Nat \ {0}, NEW h \in 0 .. size - 1, NEW f \in 1 .. size,
           NEW i \in 1 .. f, NEW s \in Nat, s = CellOf(h, size, f), s = Onward(s, size, 0)
    PROVE  After(s, size, i - 1) = CellOf(h, size, f - i + 1)
<1>1. PICK a \in 0 .. f - 1 : a = 0
  OBVIOUS
<1>2. i \in 1 .. f - a /\ s = Onward(s, size, a)
  BY <1>1
<1>3. After(s, size, i - 1) = CellOf(h, size, f - a - i + 1)
  BY <1>2, ReaderCell
<1>4. f - a - i + 1 = f - i + 1
  BY <1>1
<1>5. QED
  BY <1>3, <1>4

(* Both rings hold the newest of a text of the length of theirs, which is   *)
(* theirs behind what a swap or a reset put out of place. A reset leaves    *)
(* that only in the oldest cell of a full ring.                             *)
Copies == [at : {"before", "sized", "copying", "done"}, want : Nat, start : Nat,
           text : Seq(Token), since : Nat]
RingTypes ==
    /\ written = Len(logged) /\ gap \in Nat /\ bitten \in Nat
    /\ rtcLog \in [magic : {TRUE}, ring : Ring(RtcRing)]
    /\ carried \in Copies
MainHolds ==
    \E size \in {SmallRing, FullRing}, text \in Seq(Token) :
        Holds(main, text, size) /\ Aligned(text, logged, gap)
RtcHolds ==
    /\ \E text \in Seq(Token) :
           Holds(rtcLog.ring, text, RtcRing) /\ Aligned(text, mirrored, bitten)
    /\ bitten > 0 =>
           rtcLog.ring.filled = RtcRing /\ bitten =< Len(mirrored) + 1 - RtcRing

(* What resize() has in hand is as it was taken, and what was logged as long *)
(* as nobody has stored a line since.                                       *)
CopyHolds ==
    carried.at \in {"sized", "copying"} =>
        /\ carried.want =< carried.since /\ carried.since =< written
        /\ Len(carried.text) =< carried.want
        /\ carried.at = "sized" => carried.text = <<>>
        /\ written = carried.since =>
               /\ carried.want =< main.filled
               /\ carried.at = "copying" =>
                      carried.start = CellOf(main.head, SizeOf(main), carried.want)
               /\ \A i \in 1 .. Len(carried.text) :
                      written - carried.want + i > gap =>
                          carried.text[i] = logged[written - carried.want + i]
RingInv == RingTypes /\ MainHolds /\ RtcHolds /\ CopyHolds

(* What a task in the hook may be doing, and the lines and counts it has    *)
(* with it there.                                                           *)
At == {"idle", "flush", "count", "line", "own"}
Hooks == [at : At, line : Lines \cup {NoText, "own"}, report : Nat]
Shape(h) ==
    /\ h.at \in {"idle", "line", "own"} => h.report = 0
    /\ h.at = "idle" => h.line \notin Lines
    /\ h.at = "line" => h.line \in Lines
    /\ h.at \in {"flush", "own"} => h.line = "own"
HookInv == hook \in [Tasks -> Hooks] /\ \A t \in Tasks : Shape(hook[t])
CountsOK == suppressed \in Nat /\ seenLines \in Nat /\ keptLines \in Nat /\ counted \in Nat

LEMMA RingSizes ==
    /\ SmallRing \in Nat \ {0} /\ FullRing \in Nat \ {0} /\ RtcRing \in Nat \ {0}
    /\ Piece \in Nat \ {0} /\ CarryMax \in Nat
BY LogAssumption

LEMMA CopyEnds == NotResized \in Copies /\ Resized \in Copies /\ NotResized.at = "before"
                      /\ Resized.at = "done"
<1>1. <<>> \in Seq(Token)
  OBVIOUS
<1>2. QED
  BY <1>1 DEF NotResized, Resized, Copies

LEMMA InitRings == LogInit => RingInv
<1> SUFFICES ASSUME LogInit PROVE RingInv
  OBVIOUS
<1>1. <<>> \in Seq(Token) /\ Len(<<>>) = 0
  OBVIOUS
<1>2. Holds(main, <<>>, SmallRing)
  BY <1>1, RingSizes, EmptyHolds DEF LogInit
<1>3. Holds(EmptyRing(RtcRing), <<>>, RtcRing)
  BY <1>1, RingSizes, EmptyHolds DEF LogInit
<1>4. EmptyRing(RtcRing) \in Ring(RtcRing)
  BY <1>3 DEF Holds
<1>5. rtcLog = [magic |-> TRUE, ring |-> EmptyRing(RtcRing)]
  BY DEF LogInit
<1>6. rtcLog \in [magic : {TRUE}, ring : Ring(RtcRing)] /\ rtcLog.ring = EmptyRing(RtcRing)
  BY <1>4, <1>5
<1>7. written = Len(logged) /\ gap = 0 /\ bitten = 0 /\ carried = NotResized
  BY <1>1 DEF LogInit
<1>8. RingTypes
  BY <1>6, <1>7, CopyEnds DEF RingTypes
<1>9. MainHolds
  BY <1>1, <1>2, AlignedSelf DEF MainHolds, LogInit
<1>10. RtcHolds
  <2>3. PICK none \in Seq(Token) : none = <<>>
    BY <1>1
  <2>4. Aligned(none, none, bitten)
    BY AlignedSelf
  <2>1. mirrored = <<>> /\ Aligned(<<>>, mirrored, bitten) /\ ~(bitten > 0)
    BY <1>7, <2>3, <2>4 DEF LogInit
  <2>2. QED
    BY <1>1, <1>3, <1>6, <2>1 DEF RtcHolds
<1>11. QED
  BY <1>7, <1>8, <1>9, <1>10, CopyEnds DEF RingInv, CopyHolds

LEMMA StoreRings ==
    ASSUME RingInv, NEW text \in Seq(Token), Len(text) > 0, StoreText(text), UNCHANGED carried
    PROVE  RingInv'
<1>1. PICK size \in {SmallRing, FullRing}, held \in Seq(Token) :
          Holds(main, held, size) /\ Aligned(held, logged, gap)
  BY DEF RingInv, MainHolds
<1>2. /\ logged \in Seq(Token) /\ Len(logged) \in Nat /\ written = Len(logged) /\ written \in Nat
      /\ gap \in Nat /\ bitten \in Nat /\ gap' = gap /\ bitten' = bitten
  BY <1>1 DEF Aligned, RingInv, RingTypes, StoreText
<1>3. MainHolds'
  <2>1. Holds(main', held \o text, size)
    BY <1>1, AppendHolds, RingSizes DEF StoreText
  <2>2. Aligned(held \o text, logged \o text, gap)
    BY <1>1, <1>2, AlignedOn
  <2>3. held \o text \in Seq(Token) /\ logged' = logged \o text
    BY DEF StoreText
  <2>4. PICK more : more = held \o text
    OBVIOUS
  <2>5. QED
    BY <1>2, <2>1, <2>2, <2>3, <2>4 DEF MainHolds
<1>4. written' = Len(logged') /\ written < written'
  BY <1>2 DEF StoreText
<1>5. rtcLog' \in [magic : {TRUE}, ring : Ring(RtcRing)] /\ RtcHolds'
  <2>1. CASE toRtc
    <3>1. PICK kept \in Seq(Token) :
              Holds(rtcLog.ring, kept, RtcRing) /\ Aligned(kept, mirrored, bitten)
      BY DEF RingInv, RtcHolds
    <3>2. /\ Holds(PutAll(rtcLog.ring, text), kept \o text, RtcRing)
          /\ Aligned(kept \o text, mirrored \o text, bitten)
          /\ kept \o text \in Seq(Token)
      BY <1>2, <3>1, AppendHolds, AlignedOn, RingSizes
    <3>3. PICK ring \in Ring(RtcRing) : ring = PutAll(rtcLog.ring, text)
      BY <3>2 DEF Holds
    <3>4. rtcLog' = [rtcLog EXCEPT !.ring = ring] /\ mirrored' = mirrored \o text
      BY <2>1, <3>3 DEF StoreText
    <3>5. rtcLog' \in [magic : {TRUE}, ring : Ring(RtcRing)] /\ rtcLog'.ring = ring
      BY <3>4 DEF RingInv, RingTypes
    <3>6. PICK more : more = kept \o text
      OBVIOUS
    <3>7. Holds(rtcLog'.ring, more, RtcRing) /\ Aligned(more, mirrored', bitten') /\ more \in Seq(Token)
      BY <1>2, <3>2, <3>3, <3>4, <3>5, <3>6
    <3>8. bitten > 0 => ring.filled = RtcRing /\ bitten =< Len(mirrored') + 1 - RtcRing
      <4>1. mirrored \in Seq(Token) /\ Len(mirrored) \in Nat /\ Len(mirrored') = Len(mirrored) + Len(text)
        BY <3>1, <3>4 DEF Aligned
      <4>2. ring.filled = Min({RtcRing, rtcLog.ring.filled + Len(text)})
        <5>1. SizeOf(rtcLog.ring) = RtcRing
          BY RingSizes, RingSize DEF RingInv, RingTypes
        <5>2. QED
          BY <3>3, <5>1 DEF PutAll
      <4>3. rtcLog.ring.filled \in Nat
        BY RingSizes DEF RingInv, RingTypes, Ring
      <4>4. Min({RtcRing, rtcLog.ring.filled + Len(text)}) =
                IF RtcRing =< rtcLog.ring.filled + Len(text) THEN RtcRing
                ELSE rtcLog.ring.filled + Len(text)
        <5>1. RtcRing \in Int /\ rtcLog.ring.filled + Len(text) \in Int
          BY <4>3, RingSizes
        <5>2. QED
          BY <5>1, LeastOfTwo, Zenon
      <4>5. bitten > 0 => rtcLog.ring.filled = RtcRing /\ bitten =< Len(mirrored) + 1 - RtcRing
        BY DEF RingInv, RtcHolds
      <4>6. QED
        BY <1>2, <4>1, <4>2, <4>3, <4>4, <4>5, RingSizes
    <3>9. QED
      BY <1>2, <3>5, <3>7, <3>8 DEF RtcHolds
  <2>2. CASE ~toRtc
    BY <1>2, <2>2 DEF RingInv, RingTypes, RtcHolds, StoreText
  <2>3. QED
    BY <2>1, <2>2
<1>6. CopyHolds'
  <2>1. carried.at \in {"sized", "copying"} => carried.since < written'
    BY <1>2, <1>4 DEF RingInv, RingTypes, CopyHolds, Copies
  <2>2. carried \in Copies
    BY DEF RingInv, RingTypes
  <2>3. QED
    BY <1>2, <1>4, <2>1, <2>2 DEF RingInv, CopyHolds, Copies
<1>7. QED
  BY <1>2, <1>3, <1>4, <1>5, <1>6 DEF RingInv, RingTypes

LEMMA ResizeRings ==
    ASSUME RingInv, Resize
    PROVE  RingInv'
<1>1. PICK size \in {SmallRing, FullRing}, held \in Seq(Token) :
          Holds(main, held, size) /\ Aligned(held, logged, gap)
  BY DEF RingInv, MainHolds
<1>2. /\ logged \in Seq(Token) /\ Len(logged) \in Nat /\ written = Len(logged)
      /\ Len(held) = Len(logged) /\ gap \in Nat /\ carried \in Copies
      /\ main.filled \in 0 .. size /\ main.filled =< Len(logged) /\ main.head \in 0 .. size - 1
      /\ size \in Nat \ {0}
  BY <1>1, RingSizes DEF RingInv, RingTypes, Holds, Ring, Aligned
<1>3. SizeOf(main) = size
  BY <1>1, <1>2, RingSize DEF Holds
<1>4. ASSUME UNCHANGED ringVars, carried' \in Copies, CopyHolds'
      PROVE  RingInv'
  BY <1>4 DEF RingInv, RingTypes, MainHolds, RtcHolds, ringVars
<1>5. CASE ResizeSizes
  <2>1. UNCHANGED ringVars
    BY <1>5 DEF ResizeSizes
  <2>2. CASE carried' = Resized
    BY <1>4, <2>1, <2>2, CopyEnds DEF CopyHolds
  <2>3. CASE carried' = [at |-> "sized", want |-> Min({main.filled, FullRing, CarryMax}),
                         start |-> 0, text |-> <<>>, since |-> written]
    <3>1. PICK n : n = Min({main.filled, FullRing, CarryMax})
      OBVIOUS
    <3>2. n \in {main.filled, FullRing, CarryMax} /\ n =< main.filled
      <4>1. main.filled \in Int /\ FullRing \in Int /\ CarryMax \in Int
        BY <1>2, RingSizes
      <4>2. QED
        BY <3>1, <4>1, LeastOfThree, Zenon
    <3>3. n \in Nat /\ n =< written
      BY <1>2, <3>2, RingSizes
    <3>4. <<>> \in Seq(Token) /\ Len(<<>>) = 0
      OBVIOUS
    <3>5. /\ carried' \in Copies /\ carried'.want = n /\ carried'.since = written
          /\ carried'.text = <<>> /\ carried'.at = "sized"
      BY <1>2, <2>3, <3>1, <3>3, <3>4 DEF Copies
    <3>6. CopyHolds'
      BY <1>2, <2>1, <3>2, <3>3, <3>4, <3>5 DEF CopyHolds, ringVars
    <3>7. QED
      BY <1>4, <2>1, <3>5, <3>6
  <2>4. QED
    BY <1>5, <2>2, <2>3 DEF ResizeSizes
<1>6. CASE ResizeStarts
  <2>1. UNCHANGED ringVars /\ carried.at = "sized"
    BY <1>6 DEF ResizeStarts
  <2>2. PICK start : start = (main.head + size - carried.want) % size
    OBVIOUS
  <2>3. start \in Nat
    BY <1>2, <2>2 DEF Copies
  <2>4. carried' = [carried EXCEPT !.at = "copying", !.start = start]
    BY <1>3, <1>6, <2>2 DEF ResizeStarts
  <2>5. /\ carried' \in Copies /\ carried'.at = "copying" /\ carried'.start = start
        /\ carried'.want = carried.want /\ carried'.text = carried.text
        /\ carried'.since = carried.since
    BY <1>2, <2>3, <2>4 DEF Copies
  <2>6. start = CellOf(main.head, SizeOf(main), carried.want)
    BY <1>3, <2>2 DEF CellOf
  <2>7. CopyHolds'
    <3>1. UNCHANGED <<main, written, logged, gap>>
      BY <2>1 DEF ringVars
    <3>2. CopyHolds
      BY DEF RingInv
    <3>3. (SizeOf(main))' = SizeOf(main) /\ (CellOf(main.head, SizeOf(main), carried.want))' = start
      BY <2>5, <2>6, <3>1 DEF SizeOf, CellOf
    <3>4. QED
      BY <2>1, <2>5, <3>1, <3>2, <3>3 DEF CopyHolds
  <2>8. QED
    BY <1>4, <2>1, <2>5, <2>7
<1>7. CASE CopyCell
  <2>1. UNCHANGED ringVars /\ carried.at = "copying" /\ Len(carried.text) < carried.want
    BY <1>7 DEF CopyCell
  <2>2. PICK l \in Nat, want \in Nat, start \in Nat :
            l = Len(carried.text) /\ want = carried.want /\ start = carried.start /\ l < want
    BY <1>2, <2>1 DEF Copies
  <2>3. PICK i \in 0 .. size - 1 : i = (start + l) % size
    BY <1>2, <2>2
  <2>4. PICK c \in Token : c = main.cells[i]
    BY <1>1, <2>3 DEF Holds, Ring
  <2>5. carried' = [carried EXCEPT !.text = Append(carried.text, c)]
    BY <1>3, <1>7, <2>2, <2>3, <2>4 DEF CopyCell
  <2>13. carried.text \in Seq(Token)
    BY <1>2 DEF Copies
  <2>14. PICK text : text = Append(carried.text, c)
    OBVIOUS
  <2>6. /\ text \in Seq(Token) /\ Len(text) = l + 1 /\ text[l + 1] = c
        /\ \A k \in 1 .. l : text[k] = carried.text[k]
    BY <2>2, <2>13, <2>14
  <2>7. /\ carried' \in Copies /\ carried'.at = "copying" /\ carried'.start = start
        /\ carried'.want = want /\ carried'.text = text /\ carried'.since = carried.since
    BY <1>2, <2>1, <2>2, <2>5, <2>6, <2>14 DEF Copies
  <2>8. UNCHANGED <<main, written, logged, gap>>
    BY <2>1 DEF ringVars
  <2>9. /\ want =< carried.since /\ carried.since =< written
        /\ written = carried.since =>
               /\ want =< main.filled
               /\ start = CellOf(main.head, size, want)
               /\ \A k \in 1 .. l :
                      written - want + k > gap => carried.text[k] = logged[written - want + k]
    BY <1>3, <2>1, <2>2 DEF RingInv, CopyHolds
  <2>10. ASSUME written = carried.since, written - want + (l + 1) > gap
         PROVE  c = logged[written - want + (l + 1)]
    <3>1. want \in 1 .. size /\ l + 1 \in 1 .. want /\ want =< main.filled
      <4>1. want =< main.filled /\ main.filled =< size
        BY <1>2, <2>9, <2>10
      <4>2. QED
        BY <1>2, <2>2, <4>1
    <3>13. start = CellOf(main.head, size, want)
      BY <2>9, <2>10
    <3>2. start \in 0 .. size - 1
      BY <1>2, <3>13 DEF CellOf
    <3>3. start = Onward(start, size, 0)
      <4>1. (0 + size + start) % size = IF 0 + start < size THEN 0 + start ELSE 0 + start - size
        BY <1>2, <3>2, 0 \in 0 .. size - 1, OnAround, Zenon
      <4>2. PICK d : d = (0 + size + start) % size
        OBVIOUS
      <4>3. d = IF 0 + start < size THEN 0 + start ELSE 0 + start - size
        BY <4>1, <4>2, Zenon
      <4>4. d = start
        BY <1>2, <3>2, <4>3
      <4>5. QED
        BY <4>2, <4>4, Zenon DEF Onward
    <3>4. 0 \in 0 .. want - 1 /\ l + 1 \in 1 .. want - 0
      BY <3>1
    <3>5. After(start, size, (l + 1) - 1) = CellOf(main.head, size, want - 0 - (l + 1) + 1)
      <4>1. PICK h \in 0 .. size - 1 : h = main.head
        BY <1>2
      <4>2. start = CellOf(h, size, want) /\ start = Onward(start, size, 0)
        BY <3>3, <3>13, <4>1
      <4>3. PICK f \in 1 .. size : f = want
        BY <3>1, <3>4
      <4>4. PICK m \in 1 .. f : m = l + 1
        BY <3>1, <3>4, <4>3
      <4>5. start = CellOf(h, size, f)
        BY <4>2, <4>3
      <4>6. After(start, size, m - 1) = CellOf(h, size, f - m + 1)
        BY <1>2, <4>2, <4>5, OldestCell
      <4>7. f - m + 1 = want - 0 - (l + 1) + 1
        BY <4>3, <4>4
      <4>8. QED
        BY <4>1, <4>4, <4>6, <4>7
    <3>6. PICK k \in 1 .. main.filled : k = want - l
      <4>1. want - l \in 1 .. main.filled
        BY <1>2, <2>2, <3>1, SMTT(20)
      <4>2. QED
        BY <4>1
    <3>7. (l + 1) - 1 = l /\ want - 0 - (l + 1) + 1 = k
      BY <3>6
    <3>8. i = CellOf(main.head, size, k)
      BY <2>3, <3>5, <3>7 DEF After
    <3>9. c = held[Len(held) + 1 - k]
      BY <1>1, <2>4, <3>8 DEF Holds
    <3>10. Len(held) + 1 - k = written - want + (l + 1)
      BY <1>2, <3>6
    <3>11. written - want + (l + 1) \in 1 .. Len(logged)
      <4>1. want =< written
        BY <2>9, <2>10
      <4>2. QED
        BY <1>2, <2>2, <4>1, SMTT(20)
    <3>12. QED
      BY <1>1, <2>10, <3>9, <3>10, <3>11 DEF Aligned
  <2>11. CopyHolds'
    <3>1. \A k \in 1 .. Len(text) : k \in 1 .. l \/ k = l + 1
      BY <2>6
    <3>2. written = carried.since =>
              \A k \in 1 .. Len(text) :
                  written - want + k > gap => text[k] = logged[written - want + k]
      BY <2>6, <2>9, <2>10, <3>1
    <3>3. (SizeOf(main))' = size
      BY <1>3, <2>8 DEF SizeOf
    <3>4. (CellOf(main.head, SizeOf(main), carried.want))' = CellOf(main.head, size, want)
      BY <2>7, <2>8, <3>3 DEF CellOf
    <3>5. Len(text) =< want
      BY <2>2, <2>6
    <3>6. QED
      BY <2>7, <2>8, <2>9, <3>2, <3>4, <3>5 DEF CopyHolds
  <2>12. QED
    BY <1>4, <2>1, <2>7, <2>11
<1>8. CASE ResizeSwap
  <2>1. /\ carried.at = "copying" /\ Len(carried.text) = carried.want
        /\ carried' = Resized /\ main' = PutAll(EmptyRing(FullRing), carried.text)
        /\ gap' = IF written = carried.since THEN gap ELSE written
        /\ UNCHANGED <<written, rtcLog, mirrored, logged, bitten>>
    BY <1>8 DEF ResizeSwap
  <2>2. PICK text \in Seq(Token) : text = carried.text
    BY <1>2 DEF Copies
  <2>3. PICK n \in Nat : n = Len(text) /\ n = carried.want /\ n =< written
    BY <1>2, <2>1, <2>2 DEF RingInv, CopyHolds, Copies
  <2>4. PICK before : before = SubSeq(logged, 1, written - n)
    OBVIOUS
  <2>5. /\ before \in Seq(Token) /\ Len(before) = written - n
        /\ \A i \in 1 .. written - n : before[i] = logged[i]
    <3>1. PICK m \in 0 .. Len(logged) : m = written - n
      BY <1>2, <2>3
    <3>2. logged \in Seq(Token)
      BY <1>1 DEF Aligned
    <3>3. \A i \in 1 .. m : logged[i] \in Token
      BY <3>1, <3>2
    <3>4. PICK part : part = SubSeq(logged, 1, m)
      OBVIOUS
    <3>5. /\ part \in Seq(Token) /\ Len(part) = IF 1 =< m THEN m - 1 + 1 ELSE 0
          /\ \A i \in 1 .. m - 1 + 1 : part[i] = logged[1 + i - 1]
      BY <3>3, <3>4, SubSeqProperties
    <3>6. Len(part) = m /\ \A i \in 1 .. m : part[i] = logged[i]
      BY <3>5
    <3>7. QED
      BY <2>4, <3>1, <3>4, <3>5, <3>6
  <2>15. PICK now : now = before \o text
    OBVIOUS
  <2>6. /\ now \in Seq(Token) /\ Len(now) = Len(before) + n
        /\ \A i \in 1 .. Len(before) : now[i] = before[i]
        /\ \A i \in Len(before) + 1 .. Len(before) + n : now[i] = text[i - Len(before)]
    <3>1. /\ before \o text \in Seq(Token) /\ Len(before \o text) = Len(before) + Len(text)
          /\ \A i \in Len(before) + 1 .. Len(before) + Len(text) :
                 (before \o text)[i] = text[i - Len(before)]
      BY <2>5, SMTT(20)
    <3>2. \A i \in 1 .. Len(before) : (before \o text)[i] = before[i]
      BY <2>5, FrontOfBoth
    <3>3. QED
      BY <2>3, <2>15, <3>1, <3>2
  <2>7. Holds(EmptyRing(FullRing), before, FullRing)
    BY <2>5, RingSizes, EmptyHolds
  <2>8. Holds(main', now, FullRing)
    BY <2>1, <2>2, <2>5, <2>7, <2>15, RingSizes, AppendHolds
  <2>9. Len(now) = Len(logged)
    BY <1>2, <2>3, <2>5, <2>6
  <2>10. ASSUME NEW i \in 1 .. Len(logged), i > gap' PROVE now[i] = logged[i]
    <3>1. CASE i =< written - n
      <4>1. now[i] = before[i]
        BY <1>2, <2>5, <2>6, <3>1
      <4>2. QED
        BY <2>5, <3>1, <4>1
    <3>2. CASE i > written - n
      <4>1. written = carried.since /\ i > gap
        BY <1>2, <2>1, <2>10
      <4>2. i - (written - n) \in 1 .. n /\ written \in Nat
        BY <1>2, <2>3, <3>2
      <4>7. PICK k \in 1 .. n : k = i - (written - n)
        BY <4>2
      <4>3. now[i] = text[k]
        <5>1. i \in Len(before) + 1 .. Len(before) + n /\ i - Len(before) = k
          BY <2>3, <2>5, <4>2, <4>7
        <5>2. QED
          BY <2>6, <5>1
      <4>4. written - n + k = i
        BY <2>3, <4>2, <4>7
      <4>5. text[k] = logged[i]
        BY <2>1, <2>2, <2>3, <4>1, <4>2, <4>4 DEF RingInv, CopyHolds
      <4>6. QED
        BY <4>3, <4>5
    <3>3. QED
      BY <1>2, <2>3, <3>1, <3>2
  <2>11. MainHolds'
    <3>1. Aligned(now, logged, gap')
      BY <1>2, <2>6, <2>9, <2>10 DEF Aligned
    <3>2. QED
      BY <2>1, <2>6, <2>8, <3>1 DEF MainHolds
  <2>12. RingTypes' /\ RtcHolds'
    BY <1>2, <2>1, CopyEnds DEF RingInv, RingTypes, RtcHolds
  <2>13. CopyHolds'
    BY <2>1, CopyEnds DEF CopyHolds
  <2>14. QED
    BY <2>11, <2>12, <2>13 DEF RingInv
<1>9. QED
  BY <1>5, <1>6, <1>7, <1>8 DEF Resize

(* A start puts what survived ahead of the new log.                         *)
LEMMA BeginsRings ==
    ASSUME NEW ring, NEW text, Holds(ring, text, RtcRing), NEW keep,
           Begins([magic |-> TRUE, ring |-> ring], keep), Aligned(text, mirrored', bitten'),
           bitten' \in Nat, carried' = NotResized,
           bitten' > 0 => ring.filled = RtcRing /\ bitten' =< Len(mirrored') + 1 - RtcRing
    PROVE  RingInv'
<1> DEFINE now == [magic |-> TRUE, ring |-> ring]
<1>1. ring \in Ring(RtcRing) /\ ring.filled \in 0 .. ring.filled
  BY DEF Holds, Ring
<1>2. Newest(ring, ring.filled) \in Seq(Token)
  BY <1>1, RingSizes, NewestHeld
<1>3. PICK tail \in Seq(Token) : tail = RtcTail(now)
  BY <1>2 DEF RtcTail, Survived
<1>4. PICK kept \in Seq(Token) : kept = IF tail = <<>> THEN <<>> ELSE tail \o <<<<Mark>>>>
  <2>1. <<<<Mark>>>> \in Seq(Token) /\ <<>> \in Seq(Token)
    BY DEF Token
  <2>2. tail \o <<<<Mark>>>> \in Seq(Token)
    BY <2>1
  <2>3. QED
    BY <2>1, <2>2
<1>5. /\ main' = PutAll(EmptyRing(SmallRing), kept) /\ written' = Len(kept) /\ logged' = kept
      /\ rtcLog' = now /\ gap' = 0
  BY <1>3, <1>4 DEF Begins, Survived
<1>6. Holds(main', logged', SmallRing)
  <2>1. Holds(EmptyRing(SmallRing), <<>>, SmallRing)
    <3>1. <<>> \in Seq(Token)
      OBVIOUS
    <3>2. QED
      BY <3>1, RingSizes, EmptyHolds
  <2>2. Holds(PutAll(EmptyRing(SmallRing), kept), <<>> \o kept, SmallRing)
    BY <2>1, RingSizes, AppendHolds
  <2>3. <<>> \o kept = kept
    OBVIOUS
  <2>4. QED
    BY <1>5, <2>2, <2>3
<1>7. rtcLog' \in [magic : {TRUE}, ring : Ring(RtcRing)] /\ rtcLog'.ring = ring
  BY <1>1, <1>5
<1>8. RingTypes'
  BY <1>5, <1>7, CopyEnds DEF RingTypes
<1>9. MainHolds'
  BY <1>4, <1>5, <1>6, AlignedSelf DEF MainHolds
<1>10. RtcHolds'
  BY <1>7 DEF RtcHolds, Aligned
<1>11. QED
  BY <1>8, <1>9, <1>10, CopyEnds DEF RingInv, CopyHolds

(* A start after the power was off.                                         *)
LEMMA ColdRings ==
    ASSUME NEW keep, Begins([magic |-> FALSE, ring |-> Noise], keep), mirrored' = <<>>,
           bitten' = 0, carried' = NotResized
    PROVE  RingInv'
<1>1. /\ main' = PutAll(EmptyRing(SmallRing), <<>>) /\ written' = 0 /\ logged' = <<>>
      /\ rtcLog' = [magic |-> TRUE, ring |-> EmptyRing(RtcRing)] /\ gap' = 0
  BY DEF Begins, Survived, RtcTail
<1>2. <<>> \in Seq(Token) /\ <<>> \o <<>> = <<>> /\ Len(<<>>) = 0
  OBVIOUS
<1>3. Holds(main', <<>>, SmallRing)
  <2>1. Holds(EmptyRing(SmallRing), <<>>, SmallRing)
    BY <1>2, RingSizes, EmptyHolds
  <2>2. Holds(PutAll(EmptyRing(SmallRing), <<>>), <<>> \o <<>>, SmallRing)
    BY <1>2, <2>1, RingSizes, AppendHolds
  <2>3. QED
    BY <1>1, <1>2, <2>2
<1>4. Holds(EmptyRing(RtcRing), <<>>, RtcRing)
  BY <1>2, RingSizes, EmptyHolds
<1>5. EmptyRing(RtcRing) \in Ring(RtcRing)
  BY <1>4 DEF Holds
<1>6. /\ rtcLog' \in [magic : {TRUE}, ring : Ring(RtcRing)]
      /\ rtcLog'.ring = EmptyRing(RtcRing)
  BY <1>1, <1>5
<1>7. RtcHolds'
  <2>3. PICK none \in Seq(Token) : none = <<>>
    BY <1>2
  <2>4. Aligned(none, none, bitten')
    BY AlignedSelf
  <2>1. Aligned(<<>>, mirrored', bitten') /\ ~(bitten' > 0)
    BY <2>3, <2>4
  <2>2. QED
    BY <1>2, <1>4, <1>6, <2>1 DEF RtcHolds
<1>8. MainHolds'
  BY <1>1, <1>2, <1>3, AlignedSelf DEF MainHolds
<1>9. RingTypes'
  BY <1>1, <1>2, <1>6, CopyEnds DEF RingTypes
<1>10. QED
  BY <1>7, <1>8, <1>9, CopyEnds DEF RingInv, CopyHolds

LEMMA FirstOfTwo ==
    ASSUME NEW s \in Token, NEW c \in Token
    PROVE  SubSeq(<<s, c>>, 1, 1) = <<s>> /\ SubSeq(<<s, c>>, 1, 2) = <<s, c>>
<1>1. <<s, c>> \in Seq(Token) /\ Len(<<s, c>>) = 2 /\ <<s, c>>[1] = s
  OBVIOUS
<1>2. SubSeq(<<s, c>>, 1, 1) = <<<<s, c>>[1]>> \o SubSeq(<<s, c>>, 2, 1)
  BY <1>1, SubSeqRecursiveFirst
<1>3. SubSeq(<<s, c>>, 2, 1) = <<>> /\ <<s>> \o <<>> = <<s>>
  BY SubSeqEmpty
<1>4. SubSeq(<<s, c>>, 1, 2) = <<s, c>>
  BY <1>1, SubSeqFull
<1>5. QED
  BY <1>1, <1>2, <1>3, <1>4

(* What a task may have been storing when the reset came.                   *)
LEMMA CaughtIsText ==
    ASSUME HookInv, NEW t \in Tasks, NEW n \in 1 .. 2
    PROVE  LET text == SubSeq(CaughtText(t), 1, n)
               first == SubSeq(text, 1, n - 1)
           IN /\ text \in Seq(Token) /\ first \in Seq(Token)
              /\ text[n] \in Token /\ text = first \o <<text[n]>>
<1>1. PICK c \in Token : CaughtText(t) = <<<<Stamp>>, c>>
  <2>1. hook[t] \in Hooks
    BY DEF HookInv
  <2>2. hook[t].line \in Lines \cup {NoText, "own"} /\ hook[t].report \in Nat
    BY <2>1 DEF Hooks
  <2>3. Count(hook[t].report) \in Token /\ <<hook[t].line>> \in Token
    BY <2>2 DEF Token
  <2>4. CASE hook[t].at = "count"
    BY <2>3, <2>4 DEF CaughtText, Stored
  <2>5. CASE hook[t].at # "count"
    BY <2>3, <2>5 DEF CaughtText, Stored
  <2>6. QED
    BY <2>4, <2>5
<1>2. PICK s \in Token : s = <<Stamp>>
  BY DEF Token
<1>3. CaughtText(t) = <<s, c>>
  BY <1>1, <1>2
<1>4. CASE n = 1
  <2>1. SubSeq(<<s, c>>, 1, 1) = <<s>> /\ SubSeq(<<s>>, 1, 0) = <<>>
    BY FirstOfTwo, SubSeqEmpty
  <2>2. <<s>> \in Seq(Token) /\ <<>> \in Seq(Token) /\ <<s>>[1] = s /\ <<s>> = <<>> \o <<s>>
    OBVIOUS
  <2>3. QED
    BY <1>3, <1>4, <2>1, <2>2
<1>5. CASE n = 2
  <2>1. SubSeq(<<s, c>>, 1, 2) = <<s, c>> /\ SubSeq(<<s, c>>, 1, 1) = <<s>>
    BY FirstOfTwo
  <2>2. /\ <<s, c>> \in Seq(Token) /\ <<s>> \in Seq(Token) /\ <<s, c>>[2] = c
        /\ <<s, c>> = <<s>> \o <<c>>
    OBVIOUS
  <2>3. QED
    BY <1>3, <1>5, <2>1, <2>2
<1>6. QED
  BY <1>4, <1>5

LEMMA ResetRings ==
    ASSUME RingInv, HookInv, LogReset
    PROVE  RingInv'
<1>1. PICK kept \in Seq(Token) :
          Holds(rtcLog.ring, kept, RtcRing) /\ Aligned(kept, mirrored, bitten)
  BY DEF RingInv, RtcHolds
<1>2. /\ carried' = NotResized /\ bitten \in Nat
      /\ rtcLog \in [magic : {TRUE}, ring : Ring(RtcRing)]
      /\ bitten > 0 =>
             rtcLog.ring.filled = RtcRing /\ bitten =< Len(mirrored) + 1 - RtcRing
      /\ mirrored \in Seq(Token) /\ kept \in Seq(Token) /\ Len(kept) = Len(mirrored)
  BY <1>1 DEF LogReset, RingInv, RingTypes, RtcHolds, Aligned
<1>3. /\ rtcLog.ring.filled \in 0 .. RtcRing /\ SizeOf(rtcLog.ring) = RtcRing
      /\ RtcRing \in Nat \ {0} /\ Len(mirrored) \in Nat
  BY <1>2, RingSizes, RingSize DEF Ring
<1>4. ASSUME NEW ring, NEW text \in Seq(Token), RebootFrom(ring, text), NEW now,
             Holds(ring, now, RtcRing), Aligned(now, mirrored \o text, bitten'),
             bitten' \in Nat,
             bitten' > 0 =>
                 ring.filled = RtcRing /\ bitten' =< Len(mirrored \o text) + 1 - RtcRing
      PROVE  RingInv'
  <2>1. [rtcLog EXCEPT !.ring = ring] = [magic |-> TRUE, ring |-> ring]
    <3>1. rtcLog.magic = TRUE /\ DOMAIN rtcLog = {"magic", "ring"}
      BY <1>2
    <3>2. PICK changed : changed = [rtcLog EXCEPT !.ring = ring]
      OBVIOUS
    <3>3. DOMAIN changed = {"magic", "ring"} /\ changed.magic = TRUE /\ changed.ring = ring
      BY <1>2, <3>1, <3>2
    <3>4. changed = [x \in {"magic", "ring"} |-> IF x = "magic" THEN TRUE ELSE ring]
      BY <3>2, <3>3
    <3>5. QED
      BY <3>2, <3>4
  <2>2. /\ Begins([magic |-> TRUE, ring |-> ring], storedToRtc)
        /\ mirrored' = mirrored \o text
    BY <1>4, <2>1 DEF RebootFrom
  <2>3. QED
    BY <1>2, <1>4, <2>2, BeginsRings
<1>5. CASE RebootFrom(rtcLog.ring, <<>>) /\ bitten' = bitten
  <2>1. mirrored \o <<>> = mirrored /\ <<>> \in Seq(Token)
    BY <1>2
  <2>2. QED
    BY <1>1, <1>2, <1>4, <1>5, <2>1
<1>6. ASSUME NEW t \in Caught, NEW n \in 1 .. 2
      PROVE  LET text == SubSeq(CaughtText(t), 1, n)
                 first == SubSeq(text, 1, n - 1)
                 before == PutAll(rtcLog.ring, first)
             IN /\ RebootFrom(CellPut(before, text[n]), first)
                /\ bitten' = IF before.filled = RtcRing
                             THEN Len(mirrored \o first) + 1 - RtcRing ELSE bitten
                => RingInv'
  <2>1. t \in Tasks
    BY DEF Caught
  <2>2. PICK text \in Seq(Token), first \in Seq(Token), c \in Token :
             /\ text = SubSeq(CaughtText(t), 1, n) /\ first = SubSeq(text, 1, n - 1)
             /\ c = text[n] /\ text = first \o <<c>>
    BY <2>1, CaughtIsText
  <2>3. PICK before : before = PutAll(rtcLog.ring, first)
    OBVIOUS
  <2>4. SUFFICES ASSUME RebootFrom(CellPut(before, c), first),
                        bitten' = IF before.filled = RtcRing
                                  THEN Len(mirrored \o first) + 1 - RtcRing ELSE bitten
                 PROVE  RingInv'
    BY <2>2, <2>3
  <2>20. kept \o first \in Seq(Token)
    BY <1>2
  <2>5. PICK so \in Seq(Token) : so = kept \o first
    BY <2>20
  <2>6. Holds(before, so, RtcRing) /\ Aligned(so, mirrored \o first, bitten)
    BY <1>1, <1>2, <2>3, <2>5, RingSizes, AppendHolds, AlignedOn
  <2>21. mirrored \o first \in Seq(Token)
    BY <1>2
  <2>7. PICK all \in Seq(Token) : all = mirrored \o first
    BY <2>21
  <2>8. /\ Len(all) = Len(mirrored) + Len(first) /\ Len(first) \in Nat /\ Len(so) = Len(all)
        /\ before.filled =< Len(so) /\ before.filled \in 0 .. RtcRing
    BY <1>2, <2>5, <2>6, <2>7 DEF Holds, Ring
  <2>9. bitten > 0 => before.filled = RtcRing /\ bitten =< Len(all) + 1 - RtcRing
    <3>1. before.filled = Min({RtcRing, rtcLog.ring.filled + Len(first)})
      BY <1>3, <2>3 DEF PutAll
    <3>2. RtcRing \in Int /\ rtcLog.ring.filled + Len(first) \in Int
      BY <1>3, <2>8
    <3>3. before.filled = IF RtcRing =< rtcLog.ring.filled + Len(first) THEN RtcRing
                          ELSE rtcLog.ring.filled + Len(first)
      BY <3>1, <3>2, LeastOfTwo, Zenon
    <3>4. QED
      BY <1>2, <1>3, <2>8, <3>3
  <2>10. PICK q : q = CellPut(before, c)
    OBVIOUS
  <2>11. /\ q.filled = before.filled
         /\ before.filled # RtcRing => Holds(q, so, RtcRing)
         /\ before.filled = RtcRing =>
                \E now \in Seq(Token) :
                    Holds(q, now, RtcRing) /\ Aligned(now, so, Len(so) + 1 - RtcRing)
    BY <2>6, <2>10, RingSizes, CellHolds
  <2>12. CASE before.filled # RtcRing
    <3>1. bitten' = bitten
      BY <2>4, <2>12
    <3>2. QED
      BY <1>2, <1>4, <2>4, <2>6, <2>7, <2>9, <2>10, <2>11, <2>12, <3>1
  <2>13. CASE before.filled = RtcRing
    <3>1. PICK now \in Seq(Token) :
              Holds(q, now, RtcRing) /\ Aligned(now, so, Len(so) + 1 - RtcRing)
      BY <2>11, <2>13
    <3>7. Len(all) + 1 - RtcRing \in Nat /\ bitten =< Len(all) + 1 - RtcRing
      <4>1. RtcRing =< Len(all)
        BY <2>8, <2>13
      <4>2. QED
        BY <1>2, <1>3, <2>8, <2>9, <4>1
    <3>2. PICK bite \in Nat : bite = Len(all) + 1 - RtcRing /\ bitten =< bite
      BY <3>7
    <3>3. Aligned(now, mirrored \o first, bite)
      BY <1>2, <2>6, <2>8, <3>1, <3>2, AlignedFurther
    <3>4. bitten' = bite
      BY <2>4, <2>7, <2>13, <3>2
    <3>5. bite =< Len(mirrored \o first) + 1 - RtcRing
      BY <1>3, <2>7, <2>8, <3>2
    <3>6. QED
      BY <1>4, <2>4, <2>10, <2>11, <2>13, <3>1, <3>3, <3>4, <3>5
  <2>14. QED
    BY <2>12, <2>13
<1>7. ASSUME NEW t \in Caught, NEW n \in 1 .. 2
      PROVE  LET text == SubSeq(CaughtText(t), 1, n)
                 first == SubSeq(text, 1, n - 1)
                 before == PutAll(rtcLog.ring, first)
             IN /\ \/ RebootFrom(TornPut(before, text[n]), text)
                   \/ RebootFrom(Put(before, text[n]), text)
                /\ bitten' = bitten
                => RingInv'
  <2>1. t \in Tasks
    BY DEF Caught
  <2>2. PICK text \in Seq(Token), first \in Seq(Token), c \in Token :
             /\ text = SubSeq(CaughtText(t), 1, n) /\ first = SubSeq(text, 1, n - 1)
             /\ c = text[n] /\ text = first \o <<c>>
    BY <2>1, CaughtIsText
  <2>3. PICK before : before = PutAll(rtcLog.ring, first)
    OBVIOUS
  <2>4. SUFFICES ASSUME RebootFrom(TornPut(before, c), text) \/ RebootFrom(Put(before, c), text),
                        bitten' = bitten
                 PROVE  RingInv'
    BY <2>2, <2>3
  <2>20. kept \o first \in Seq(Token)
    BY <1>2
  <2>5. PICK so \in Seq(Token) : so = kept \o first
    BY <2>20
  <2>6. Holds(before, so, RtcRing) /\ Aligned(kept \o text, mirrored \o text, bitten)
    BY <1>1, <1>2, <2>3, <2>5, RingSizes, AppendHolds, AlignedOn
  <2>7. so \o <<c>> = kept \o text /\ <<c>> \in Seq(Token)
    <3>1. <<c>> \in Seq(Token)
      OBVIOUS
    <3>2. (kept \o first) \o <<c>> = kept \o (first \o <<c>>)
      BY <1>2, <3>1, ConcatAssociative, SMTT(20)
    <3>3. QED
      BY <2>2, <2>5, <3>1, <3>2
  <2>8. /\ Holds(Put(before, c), kept \o text, RtcRing)
        /\ Holds(TornPut(before, c), kept \o text, RtcRing)
    <3>1. Holds(Put(before, c), so \o <<c>>, RtcRing)
      BY <2>6, <2>7, RingSizes, AppendHolds DEF Put
    <3>2. Holds(TornPut(before, c), so \o <<c>>, RtcRing)
      BY <2>6, RingSizes, TornHolds
    <3>3. QED
      BY <2>7, <3>1, <3>2
  <2>9. bitten > 0 => /\ Put(before, c).filled = RtcRing /\ TornPut(before, c).filled = RtcRing
                      /\ bitten =< Len(mirrored \o text) + 1 - RtcRing
    <3>1. /\ before.filled = Min({RtcRing, rtcLog.ring.filled + Len(first)})
          /\ Len(first) \in Nat /\ Len(text) \in Nat
          /\ Len(mirrored \o text) = Len(mirrored) + Len(text)
      BY <1>2, <1>3, <2>3 DEF PutAll
    <3>2. RtcRing \in Int /\ rtcLog.ring.filled + Len(first) \in Int
      BY <1>3, <3>1
    <3>3. before.filled = IF RtcRing =< rtcLog.ring.filled + Len(first) THEN RtcRing
                          ELSE rtcLog.ring.filled + Len(first)
      BY <3>1, <3>2, LeastOfTwo, Zenon
    <3>4. bitten > 0 => before.filled = RtcRing
      BY <1>2, <1>3, <3>1, <3>3
    <3>5. Put(before, c).filled = Min({RtcRing, before.filled + 1})
      <4>1. before \in Ring(RtcRing)
        BY <2>6 DEF Holds
      <4>2. SizeOf(before) = RtcRing /\ Len(<<c>>) = 1
        BY <4>1, RingSizes, RingSize
      <4>3. QED
        BY <4>2 DEF Put, PutAll
    <3>6. before.filled = RtcRing => Put(before, c).filled = RtcRing
      <4> SUFFICES ASSUME before.filled = RtcRing PROVE Put(before, c).filled = RtcRing
        OBVIOUS
      <4>1. RtcRing \in Int /\ RtcRing + 1 \in Int
        BY <1>3
      <4>2. Min({RtcRing, RtcRing + 1}) = IF RtcRing =< RtcRing + 1 THEN RtcRing ELSE RtcRing + 1
        BY <4>1, LeastOfTwo, Zenon
      <4>3. QED
        BY <1>3, <3>5, <4>2
    <3>7. TornPut(before, c).filled = before.filled
      <4>1. Put(before, c) \in Ring(RtcRing)
        BY <2>8 DEF Holds
      <4>2. QED
        BY <4>1 DEF TornPut, Ring
    <3>8. QED
      BY <1>2, <1>3, <3>1, <3>4, <3>6, <3>7
  <2>10. QED
    BY <1>2, <1>4, <2>4, <2>6, <2>8, <2>9
<1>8. CASE /\ Begins([magic |-> FALSE, ring |-> Noise], storedToRtc)
           /\ mirrored' = <<>> /\ bitten' = 0
  BY <1>2, <1>8, ColdRings
<1>9. QED
  BY <1>5, <1>6, <1>7, <1>8 DEF LogReset

(* clear() empties the ring of the dashboard only.                          *)
LEMMA ClearRings ==
    ASSUME RingInv, LogClear
    PROVE  RingInv'
<1>1. PICK size \in {SmallRing, FullRing}, held \in Seq(Token) : Holds(main, held, size)
  BY DEF RingInv, MainHolds
<1>2. size \in Nat \ {0}
  BY RingSizes
<1>3. main \in Ring(size)
  BY <1>1 DEF Holds
<1>4. PICK r : r = [cells |-> main.cells, head |-> 0, filled |-> 0]
  OBVIOUS
<1>5. r \in Ring(size) /\ r.filled = 0
  BY <1>2, <1>3, <1>4 DEF Ring
<1>6. /\ main' = r /\ logged' = <<>> /\ written' = 0 /\ gap' = 0
      /\ UNCHANGED <<rtcLog, mirrored, bitten>> /\ carried' = Resized
  BY <1>4 DEF LogClear
<1>7. <<>> \in Seq(Token) /\ Len(<<>>) = 0
  OBVIOUS
<1>8. Holds(r, <<>>, size)
  BY <1>5, <1>7 DEF Holds
<1>9. MainHolds'
  BY <1>6, <1>7, <1>8, AlignedSelf DEF MainHolds
<1>10. RingTypes' /\ RtcHolds'
  BY <1>6, <1>7, CopyEnds DEF RingInv, RingTypes, RtcHolds
<1>11. QED
  BY <1>6, <1>9, <1>10, CopyEnds DEF RingInv, CopyHolds

---------------------------------------------------------------------------
(* What a step of one task does to the lines all of them have in hand.      *)
Columns(f) == UNION {{t} \X (1..f[t]) : t \in Tasks}
ReportingOf(h) ==
    IF h.at = "flush" THEN 0
    ELSE h.report + IF h.at \in {"count", "line"} /\ h.line \in Lines THEN 1 ELSE 0
InHandOf == [t \in Tasks |-> ReportingOf(hook[t])]

LEMMA Column ==
    ASSUME NEW t, NEW n \in Nat
    PROVE  IsFiniteSet({t} \X (1..n)) /\ Cardinality({t} \X (1..n)) = n
<1>1. IsFiniteSet({t}) /\ Cardinality({t}) = 1
  BY FS_Singleton
<1>2. IsFiniteSet(1..n) /\ Cardinality(1..n) = n
  BY FS_Interval
<1>3. /\ IsFiniteSet({t} \X (1..n))
      /\ Cardinality({t} \X (1..n)) = Cardinality({t}) * Cardinality(1..n)
  BY <1>1, <1>2, FS_Product
<1>4. 1 * n = n
  OBVIOUS
<1>5. QED
  BY <1>1, <1>2, <1>3, <1>4

LEMMA ColumnsMove ==
    ASSUME NEW f \in [Tasks -> Nat], NEW g \in [Tasks -> Nat], NEW t \in Tasks,
           \A u \in Tasks \ {t} : f[u] = g[u], IsFiniteSet(Columns(f))
    PROVE  /\ IsFiniteSet(Columns(g)) /\ Cardinality(Columns(f)) \in Nat
           /\ Cardinality(Columns(g)) = Cardinality(Columns(f)) - f[t] + g[t]
<1> DEFINE column(n) == {t} \X (1..n)
           rest == UNION {{u} \X (1..f[u]) : u \in Tasks \ {t}}
<1>1. /\ Columns(f) = rest \cup column(f[t]) /\ rest \subseteq Columns(f)
      /\ rest \cap column(f[t]) = {}
  BY DEF Columns
<1>2. Columns(g) = rest \cup column(g[t]) /\ rest \cap column(g[t]) = {}
  BY DEF Columns
<1>3. f[t] \in Nat /\ g[t] \in Nat
  OBVIOUS
<1>4. /\ IsFiniteSet(column(f[t])) /\ Cardinality(column(f[t])) = f[t]
      /\ IsFiniteSet(column(g[t])) /\ Cardinality(column(g[t])) = g[t]
  BY <1>3, Column
<1>5. IsFiniteSet(rest)
  BY <1>1, FS_Subset
<1> HIDE DEF column, rest
<1>6. Cardinality({}) = 0 /\ Cardinality(rest) \in Nat
  BY <1>5, FS_EmptySet, FS_CardinalityType
<1>7. Cardinality(Columns(f)) = Cardinality(rest) + f[t]
  <2>1. Cardinality(rest \cup column(f[t])) =
           Cardinality(rest) + Cardinality(column(f[t])) - Cardinality(rest \cap column(f[t]))
    BY <1>4, <1>5, FS_Union
  <2>2. Cardinality(rest \cap column(f[t])) = 0
    BY <1>1, <1>6, Zenon
  <2>3. Cardinality(Columns(f)) = Cardinality(rest \cup column(f[t]))
    BY <1>1, Zenon
  <2>4. QED
    BY <1>1, <1>3, <1>4, <1>6, <2>1, <2>2, <2>3
<1>8. IsFiniteSet(Columns(g)) /\ Cardinality(Columns(g)) = Cardinality(rest) + g[t]
  <2>1. /\ IsFiniteSet(rest \cup column(g[t]))
        /\ Cardinality(rest \cup column(g[t])) =
           Cardinality(rest) + Cardinality(column(g[t])) - Cardinality(rest \cap column(g[t]))
    BY <1>4, <1>5, FS_Union
  <2>2. Cardinality(rest \cap column(g[t])) = 0
    BY <1>2, <1>6, Zenon
  <2>3. Cardinality(Columns(g)) = Cardinality(rest \cup column(g[t]))
    BY <1>2, Zenon
  <2>4. QED
    BY <1>2, <1>3, <1>4, <1>6, <2>1, <2>2, <2>3
<1>9. QED
  BY <1>3, <1>6, <1>7, <1>8

LEMMA NoColumns ==
    ASSUME NEW f \in [Tasks -> Nat], \A t \in Tasks : f[t] = 0
    PROVE  IsFiniteSet(Columns(f)) /\ Cardinality(Columns(f)) = 0
<1>1. Columns(f) = {}
  BY DEF Columns
<1>2. QED
  BY <1>1, FS_EmptySet

LEMMA ReportingIs ==
    ASSUME NEW h \in Hooks, Shape(h)
    PROVE  /\ ReportingOf(h) \in Nat /\ h.report \in Nat
           /\ h.at \in {"idle", "flush", "own"} => ReportingOf(h) = 0
           /\ h.at = "line" => ReportingOf(h) = 1
           /\ h.at = "count" => ReportingOf(h) = h.report + IF h.line \in Lines THEN 1 ELSE 0
<1>1. h.report \in Nat /\ h.at \in At
  BY DEF Hooks
<1>2. PICK n \in Nat : n = h.report
  BY <1>1
<1>3. "own" \notin Lines
  BY LogAssumption
<1>4. CASE h.at = "idle"
  <2>1. n = 0 /\ h.line \notin Lines
    BY <1>2, <1>4 DEF Shape
  <2>2. ReportingOf(h) = n + 0
    BY <1>2, <1>4, <2>1 DEF ReportingOf
  <2>3. QED
    BY <1>2, <1>4, <2>1, <2>2
<1>5. CASE h.at = "flush"
  <2>1. ReportingOf(h) = 0
    BY <1>5 DEF ReportingOf
  <2>2. QED
    BY <1>1, <1>5, <2>1
<1>6. CASE h.at = "own"
  <2>1. n = 0 /\ h.line \notin Lines
    BY <1>2, <1>3, <1>6 DEF Shape
  <2>2. ReportingOf(h) = n + 0
    BY <1>2, <1>6, <2>1 DEF ReportingOf
  <2>3. QED
    BY <1>2, <1>6, <2>1, <2>2
<1>7. CASE h.at = "line"
  <2>1. n = 0 /\ h.line \in Lines
    BY <1>2, <1>7 DEF Shape
  <2>2. ReportingOf(h) = n + 1
    BY <1>2, <1>7, <2>1 DEF ReportingOf
  <2>3. QED
    BY <1>2, <1>7, <2>1, <2>2
<1>8. CASE h.at = "count"
  <2>1. ReportingOf(h) = n + IF h.line \in Lines THEN 1 ELSE 0
    BY <1>2, <1>8 DEF ReportingOf
  <2>2. (n + IF h.line \in Lines THEN 1 ELSE 0) \in Nat
    OBVIOUS
  <2>3. QED
    BY <1>2, <1>8, <2>1, <2>2
<1>9. QED
  BY <1>1, <1>4, <1>5, <1>6, <1>7, <1>8 DEF At

LEMMA IdleHolds == Idle \in Hooks /\ Shape(Idle) /\ ReportingOf(Idle) = 0
<1>1. /\ Idle \in Hooks /\ Idle.at = "idle" /\ Idle.line = NoText /\ Idle.report = 0
  BY DEF Idle, Hooks, At
<1>2. Shape(Idle)
  BY <1>1, LogAssumption DEF Shape
<1>3. QED
  BY <1>1, <1>2, ReportingIs

LEMMA HandsAreColumns ==
    /\ HookInv => InHandOf \in [Tasks -> Nat]
    /\ InHands = Columns(InHandOf)
<1>1. ASSUME HookInv PROVE InHandOf \in [Tasks -> Nat]
  <2>1. ASSUME NEW t \in Tasks PROVE ReportingOf(hook[t]) \in Nat
    BY <1>1, ReportingIs DEF HookInv
  <2>2. QED
    BY <2>1 DEF InHandOf
<1>2. \A t \in Tasks : Reporting(t) = InHandOf[t]
  BY DEF Reporting, InHand, ReportingOf, InHandOf
<1>3. InHands = Columns(InHandOf)
  BY <1>2 DEF InHands, Columns
<1>4. QED
  BY <1>1, <1>3

(* One task goes on to hold h.                                              *)
LEMMA HandMoves ==
    ASSUME HookInv, IsFiniteSet(InHands), NEW t \in Tasks, NEW h \in Hooks, Shape(h),
           hook' = [hook EXCEPT ![t] = h]
    PROVE  /\ HookInv' /\ IsFiniteSet(InHands)' /\ Cardinality(InHands) \in Nat
           /\ Cardinality(InHands)' =
                 Cardinality(InHands) - ReportingOf(hook[t]) + ReportingOf(h)
<1>1. hook' \in [Tasks -> Hooks] /\ \A u \in Tasks : Shape(hook'[u])
  BY DEF HookInv
<1>2. HookInv'
  BY <1>1 DEF HookInv
<1>3. InHandOf \in [Tasks -> Nat] /\ InHandOf' \in [Tasks -> Nat]
  <2>1. (HookInv => InHandOf \in [Tasks -> Nat])'
    BY HandsAreColumns, PTL
  <2>2. QED
    BY <1>2, <2>1, HandsAreColumns
<1>4. InHands = Columns(InHandOf) /\ InHands' = Columns(InHandOf')
  <2>1. (InHands = Columns(InHandOf))'
    BY HandsAreColumns, PTL
  <2>2. QED
    BY <2>1, HandsAreColumns
<1>5. /\ InHandOf[t] = ReportingOf(hook[t]) /\ InHandOf'[t] = ReportingOf(h)
      /\ \A u \in Tasks \ {t} : InHandOf[u] = InHandOf'[u]
  BY DEF HookInv, InHandOf
<1>6. QED
  BY <1>2, <1>3, <1>4, <1>5, ColumnsMove

HandInv == HookInv /\ CountsOK /\ IsFiniteSet(InHands) /\ LinesConserved

LEMMA HookHands ==
    ASSUME HandInv, NEW t \in Tasks, NEW line \in Lines, Hook(t, line)
    PROVE  HandInv'
<1>1. /\ hook \in [Tasks -> Hooks] /\ hook[t] \in Hooks /\ Shape(hook[t])
      /\ suppressed \in Nat /\ seenLines \in Nat /\ keptLines \in Nat /\ counted \in Nat
  BY DEF HandInv, HookInv, CountsOK
<1>2. /\ hook[t].at = "idle" /\ seenLines' = seenLines + 1
      /\ keptLines' = keptLines /\ counted' = counted
  BY DEF Hook
<1>3. ReportingOf(hook[t]) = 0
  BY <1>1, <1>2, ReportingIs
<1>4. seenLines = keptLines + counted + suppressed + Cardinality(InHands)
  BY DEF HandInv, LinesConserved
<1>5. NoText \notin Lines
  BY LogAssumption
<1>6. CASE UNCHANGED hook /\ suppressed' = suppressed + 1
  <2>1. HookInv' /\ InHands' = InHands
    BY <1>6 DEF HandInv, HookInv, InHands, Reporting, InHand
  <2>2. Cardinality(InHands)' = Cardinality(InHands) /\ Cardinality(InHands) \in Nat
    BY <2>1, FS_CardinalityType DEF HandInv
  <2>3. CountsOK' /\ seenLines' = keptLines' + counted' + suppressed' + Cardinality(InHands)'
    BY <1>1, <1>2, <1>4, <1>6, <2>2 DEF CountsOK
  <2>4. QED
    BY <2>1, <2>3 DEF HandInv, LinesConserved
<1>7. ASSUME NEW h \in Hooks, Shape(h), hook' = [hook EXCEPT ![t] = h], suppressed' = 0,
             ReportingOf(h) = suppressed + 1
      PROVE  HandInv'
  <2>1. /\ HookInv' /\ IsFiniteSet(InHands)' /\ Cardinality(InHands) \in Nat
        /\ Cardinality(InHands)' = Cardinality(InHands) - ReportingOf(hook[t]) + ReportingOf(h)
    BY <1>7, HandMoves DEF HandInv
  <2>2. Cardinality(InHands)' = Cardinality(InHands) + suppressed + 1
    BY <1>1, <1>3, <1>7, <2>1
  <2>3. CountsOK' /\ seenLines' = keptLines' + counted' + suppressed' + Cardinality(InHands)'
    BY <1>1, <1>2, <1>4, <1>7, <2>1, <2>2 DEF CountsOK
  <2>4. QED
    BY <2>1, <2>3 DEF HandInv, LinesConserved
<1>8. CASE HookRepeat(t, line) /\ ~(UNCHANGED hook /\ suppressed' = suppressed + 1)
  <2>1. PICK n \in Nat : n = suppressed + 1
    BY <1>1
  <2>2. PICK h : h = [at |-> "count", line |-> NoText, report |-> n]
    OBVIOUS
  <2>3. /\ h \in Hooks /\ h.at = "count" /\ h.line = NoText /\ h.report = n
    BY <2>2 DEF Hooks, At
  <2>4. Shape(h)
    BY <2>3 DEF Shape
  <2>5. ReportingOf(h) = n + IF h.line \in Lines THEN 1 ELSE 0
    BY <2>3, <2>4, ReportingIs
  <2>6. ReportingOf(h) = n
    BY <1>5, <2>3, <2>5
  <2>7. hook' = [hook EXCEPT ![t] = h] /\ suppressed' = 0
    BY <1>8, <2>1, <2>2 DEF HookRepeat
  <2>8. QED
    BY <1>7, <2>1, <2>3, <2>4, <2>6, <2>7
<1>9. CASE HookNew(t, line)
  <2>1. PICK n \in Nat : n = suppressed
    BY <1>1
  <2>2. PICK at \in {"count", "line"} : at = IF n > 0 THEN "count" ELSE "line"
    OBVIOUS
  <2>3. PICK h : h = [at |-> at, line |-> line, report |-> n]
    OBVIOUS
  <2>4. /\ h \in Hooks /\ h.at = at /\ h.line = line /\ h.report = n
    BY <2>3 DEF Hooks, At
  <2>5. at = "line" => n = 0
    BY <2>2
  <2>6. Shape(h)
    BY <2>4, <2>5 DEF Shape
  <2>7. ReportingOf(h) = n + 1
    <3>1. /\ h.at = "line" => ReportingOf(h) = 1
          /\ h.at = "count" => ReportingOf(h) = h.report + IF h.line \in Lines THEN 1 ELSE 0
      BY <2>4, <2>6, ReportingIs
    <3>2. CASE at = "line"
      BY <2>4, <2>5, <3>1, <3>2
    <3>3. CASE at = "count"
      <4>1. ReportingOf(h) = n + IF line \in Lines THEN 1 ELSE 0
        BY <2>4, <3>1, <3>3
      <4>2. QED
        BY <4>1
    <3>4. QED
      BY <3>2, <3>3
  <2>8. hook' = [hook EXCEPT ![t] = h] /\ suppressed' = 0
    BY <1>9, <2>1, <2>2, <2>3 DEF HookNew
  <2>9. QED
    BY <1>7, <2>1, <2>4, <2>6, <2>7, <2>8
<1>10. QED
  BY <1>6, <1>8, <1>9 DEF Hook

(* The sums after one task moved on, in the order the conjuncts have above. *)
LEMMA SumAfter ==
    ASSUME HandInv, NEW t \in Tasks, NEW h \in Hooks, Shape(h), hook' = [hook EXCEPT ![t] = h],
           CountsOK', seenLines' = seenLines,
           keptLines' + counted' + suppressed' + ReportingOf(h)
               = keptLines + counted + suppressed + ReportingOf(hook[t])
    PROVE  HandInv'
<1>1. /\ suppressed \in Nat /\ seenLines \in Nat /\ keptLines \in Nat /\ counted \in Nat
      /\ suppressed' \in Nat /\ keptLines' \in Nat /\ counted' \in Nat
      /\ ReportingOf(h) \in Nat /\ ReportingOf(hook[t]) \in Nat
  BY ReportingIs DEF HandInv, HookInv, CountsOK
<1>2. /\ HookInv' /\ IsFiniteSet(InHands)' /\ Cardinality(InHands) \in Nat
      /\ Cardinality(InHands)' = Cardinality(InHands) - ReportingOf(hook[t]) + ReportingOf(h)
  BY HandMoves DEF HandInv
<1>3. seenLines = keptLines + counted + suppressed + Cardinality(InHands)
  BY DEF HandInv, LinesConserved
<1>4. seenLines' = keptLines' + counted' + suppressed' + Cardinality(InHands)'
  BY <1>1, <1>2, <1>3
<1>5. QED
  BY <1>2, <1>4 DEF HandInv, LinesConserved

LEMMA OwnHands ==
    ASSUME HandInv, NEW t \in Tasks,
           WritePeek(t) \/ FlushRepeats(t) \/ StoreRepeatCount(t) \/ StoreLine(t)
    PROVE  HandInv'
<1>1. /\ hook[t] \in Hooks /\ Shape(hook[t]) /\ hook[t].report \in Nat
      /\ hook[t].line \in Lines \cup {NoText, "own"}
      /\ suppressed \in Nat /\ seenLines \in Nat /\ keptLines \in Nat /\ counted \in Nat
  BY DEF HandInv, HookInv, CountsOK, Hooks
<1>2. NoText \notin Lines /\ "own" \notin Lines
  BY LogAssumption
<1>3. PICK n \in Nat, m \in Nat : n = hook[t].report /\ m = suppressed
  BY <1>1
<1>4. CASE WritePeek(t)
  <2>1. PICK h : h = [at |-> IF m = 0 THEN "own" ELSE "flush", line |-> "own", report |-> m]
    OBVIOUS
  <2>2. /\ h \in Hooks /\ h.at = (IF m = 0 THEN "own" ELSE "flush") /\ h.line = "own"
        /\ h.report = m
    BY <2>1 DEF Hooks, At
  <2>3. Shape(h)
    BY <2>2 DEF Shape
  <2>4. ReportingOf(h) = 0 /\ ReportingOf(hook[t]) = 0
    <3>1. h.at \in {"idle", "flush", "own"} /\ hook[t].at \in {"idle", "flush", "own"}
      BY <1>4, <2>2 DEF WritePeek
    <3>2. QED
      BY <1>1, <2>2, <2>3, <3>1, ReportingIs
  <2>5. hook' = [hook EXCEPT ![t] = h]
    BY <1>3, <1>4, <2>1 DEF WritePeek
  <2>6. UNCHANGED <<suppressed, seenLines, keptLines, counted>>
    BY <1>4 DEF WritePeek
  <2>7. QED
    BY <1>1, <2>2, <2>3, <2>4, <2>5, <2>6, SumAfter DEF CountsOK
<1>5. CASE FlushRepeats(t)
  <2>1. PICK h : h = [at |-> IF m > 0 THEN "count" ELSE "own", line |-> hook[t].line, report |-> m]
    OBVIOUS
  <2>2. hook[t].at = "flush" /\ hook[t].line = "own"
    BY <1>1, <1>5 DEF FlushRepeats, Shape
  <2>3. /\ h \in Hooks /\ h.at = (IF m > 0 THEN "count" ELSE "own") /\ h.line = "own"
        /\ h.report = m
    BY <2>1, <2>2 DEF Hooks, At
  <2>4. h.at = "own" => m = 0
    BY <2>3
  <2>5. Shape(h)
    BY <2>3, <2>4 DEF Shape
  <2>6. ReportingOf(hook[t]) = 0
    BY <1>1, <2>2, ReportingIs
  <2>7. ReportingOf(h) = m
    <3>1. /\ h.at = "own" => ReportingOf(h) = 0
          /\ h.at = "count" => ReportingOf(h) = h.report + IF h.line \in Lines THEN 1 ELSE 0
      BY <2>3, <2>5, ReportingIs
    <3>2. CASE h.at = "own"
      BY <2>4, <3>1, <3>2
    <3>3. CASE h.at = "count"
      <4>1. ReportingOf(h) = m + IF "own" \in Lines THEN 1 ELSE 0
        BY <2>3, <3>1, <3>3
      <4>2. QED
        BY <1>2, <4>1
    <3>4. h.at = "own" \/ h.at = "count"
      BY <2>3
    <3>5. QED
      BY <3>2, <3>3, <3>4
  <2>8. hook' = [hook EXCEPT ![t] = h]
    BY <1>3, <1>5, <2>1 DEF FlushRepeats, Flushed
  <2>9. suppressed' = 0 /\ UNCHANGED <<seenLines, keptLines, counted>>
    BY <1>5 DEF FlushRepeats
  <2>10. CountsOK'
    BY <1>1, <2>9 DEF CountsOK
  <2>11. keptLines' + counted' + suppressed' + ReportingOf(h)
                = keptLines + counted + suppressed + ReportingOf(hook[t])
    BY <1>1, <1>3, <2>6, <2>7, <2>9
  <2>12. QED
    BY <2>3, <2>5, <2>8, <2>9, <2>10, <2>11, SumAfter
<1>6. CASE StoreRepeatCount(t)
  <2>1. PICK at : at = CASE hook[t].line = NoText -> "idle"
                         [] hook[t].line = "own" -> "own" [] OTHER -> "line"
    OBVIOUS
  <2>2. /\ hook[t].line = NoText => at = "idle"
        /\ hook[t].line = "own" => at = "own"
        /\ hook[t].line \in Lines => at = "line"
    BY <1>2, <2>1 DEF NoText
  <2>3. PICK h : h = [at |-> at, line |-> hook[t].line, report |-> 0]
    OBVIOUS
  <2>4. at \in {"idle", "own", "line"}
    BY <1>1, <2>2
  <2>5. h \in Hooks /\ h.at = at /\ h.line = hook[t].line /\ h.report = 0
    BY <1>1, <2>3, <2>4 DEF Hooks, At
  <2>6. /\ at = "idle" => hook[t].line = NoText
        /\ at = "line" => hook[t].line \in Lines
        /\ at = "own" => hook[t].line = "own"
    BY <1>1, <2>2
  <2>7. Shape(h)
    BY <1>2, <2>4, <2>5, <2>6 DEF Shape
  <2>8. ReportingOf(hook[t]) = n + IF hook[t].line \in Lines THEN 1 ELSE 0
    BY <1>1, <1>3, <1>6, ReportingIs DEF StoreRepeatCount
  <2>9. /\ hook[t].line \in Lines => ReportingOf(h) = 1
        /\ hook[t].line \notin Lines => ReportingOf(h) = 0
    <3>1. h.at = "line" => ReportingOf(h) = 1
      BY <2>5, <2>7, ReportingIs
    <3>2. h.at \in {"idle", "flush", "own"} => ReportingOf(h) = 0
      BY <2>5, <2>7, ReportingIs
    <3>3. hook[t].line \in Lines => h.at = "line"
      BY <2>2, <2>5
    <3>4. hook[t].line \notin Lines => h.at \in {"idle", "flush", "own"}
      BY <1>1, <2>2, <2>5
    <3>5. QED
      BY <3>1, <3>2, <3>3, <3>4
  <2>10. ReportingOf(hook[t]) = n + ReportingOf(h) /\ ReportingOf(h) \in Nat
    BY <2>8, <2>9
  <2>11. hook' = [hook EXCEPT ![t] = h]
    BY <1>6, <2>1, <2>3 DEF StoreRepeatCount
  <2>12. counted' = counted + n /\ UNCHANGED <<suppressed, seenLines, keptLines>>
    BY <1>3, <1>6 DEF StoreRepeatCount
  <2>13. CountsOK'
    BY <1>1, <2>12 DEF CountsOK
  <2>14. keptLines' + counted' + suppressed' + ReportingOf(h)
                = keptLines + counted + suppressed + ReportingOf(hook[t])
    BY <1>1, <2>10, <2>12
  <2>15. QED
    BY <2>5, <2>7, <2>11, <2>12, <2>13, <2>14, SumAfter
<1>7. CASE StoreLine(t)
  <2>1. Idle \in Hooks /\ Shape(Idle) /\ ReportingOf(Idle) = 0
    BY IdleHolds
  <2>2. /\ hook' = [hook EXCEPT ![t] = Idle]
        /\ UNCHANGED <<suppressed, seenLines, counted>>
    BY <1>7 DEF StoreLine
  <2>3. keptLines' \in Nat /\ keptLines' = keptLines + ReportingOf(hook[t])
    <3>1. CASE hook[t].at = "line"
      <4>1. keptLines' = keptLines + 1
        BY <1>7, <3>1 DEF StoreLine
      <4>2. ReportingOf(hook[t]) = 1
        BY <1>1, <3>1, ReportingIs
      <4>3. QED
        BY <1>1, <4>1, <4>2
    <3>2. CASE hook[t].at = "own"
      <4>1. keptLines' = keptLines
        BY <1>7, <3>2 DEF StoreLine
      <4>2. ReportingOf(hook[t]) = 0
        BY <1>1, <3>2, ReportingIs
      <4>3. QED
        BY <1>1, <4>1, <4>2
    <3>3. QED
      BY <1>7, <3>1, <3>2 DEF StoreLine
  <2>4. CountsOK'
    BY <1>1, <2>2, <2>3 DEF CountsOK
  <2>5. PICK k \in Nat : k = ReportingOf(hook[t])
    BY <1>1, ReportingIs
  <2>6. keptLines' + counted' + suppressed' + ReportingOf(Idle)
                = keptLines + counted + suppressed + ReportingOf(hook[t])
    BY <1>1, <2>1, <2>2, <2>3, <2>5
  <2>7. QED
    BY <2>1, <2>2, <2>4, <2>6, SumAfter
<1>8. QED
  BY <1>4, <1>5, <1>6, <1>7

LEMMA ResetHands ==
    ASSUME LogReset
    PROVE  HandInv'
<1>1. /\ hook' = [t \in Tasks |-> Idle] /\ suppressed' = 0
      /\ seenLines' = 0 /\ keptLines' = 0 /\ counted' = 0
  BY DEF LogReset
<1>2. Idle \in Hooks /\ Shape(Idle) /\ ReportingOf(Idle) = 0
  BY IdleHolds
<1>3. HookInv' /\ CountsOK'
  BY <1>1, <1>2 DEF HookInv, CountsOK
<1>4. (InHands = Columns(InHandOf))'
  BY HandsAreColumns, PTL
<1>5. InHandOf' \in [Tasks -> Nat] /\ \A t \in Tasks : InHandOf'[t] = 0
  BY <1>1, <1>2 DEF InHandOf
<1>6. IsFiniteSet(InHands)' /\ Cardinality(InHands)' = 0
  BY <1>4, <1>5, NoColumns
<1>7. seenLines' = keptLines' + counted' + suppressed' + Cardinality(InHands)'
  BY <1>1, <1>6
<1>8. QED
  BY <1>3, <1>6, <1>7 DEF HandInv, LinesConserved

LEMMA InitHands == LogInit => HandInv
<1> SUFFICES ASSUME LogInit PROVE HandInv
  OBVIOUS
<1>1. /\ hook = [t \in Tasks |-> Idle] /\ suppressed = 0
      /\ seenLines = 0 /\ keptLines = 0 /\ counted = 0
  BY DEF LogInit
<1>2. Idle \in Hooks /\ Shape(Idle) /\ ReportingOf(Idle) = 0
  BY IdleHolds
<1>3. HookInv /\ CountsOK
  BY <1>1, <1>2 DEF HookInv, CountsOK
<1>4. InHands = Columns(InHandOf)
  BY HandsAreColumns
<1>5. InHandOf \in [Tasks -> Nat] /\ \A t \in Tasks : InHandOf[t] = 0
  BY <1>1, <1>2 DEF InHandOf
<1>6. IsFiniteSet(InHands) /\ Cardinality(InHands) = 0
  BY <1>4, <1>5, NoColumns
<1>7. QED
  BY <1>1, <1>3, <1>6 DEF HandInv, LinesConserved

(* Nothing else touches what the hook keeps.                                *)
LEMMA QuietHands ==
    ASSUME HandInv, UNCHANGED repeatVars
    PROVE  HandInv'
BY DEF HandInv, HookInv, CountsOK, LinesConserved, InHands, Reporting, InHand, repeatVars

LEMMA HandsKeep == HandInv /\ [LogNext]_logVars => HandInv'
<1> SUFFICES ASSUME HandInv, [LogNext]_logVars PROVE HandInv'
  OBVIOUS
<1>1. CASE \E t \in Tasks, line \in Lines : Hook(t, line)
  BY <1>1, HookHands
<1>2. CASE \E t \in Tasks :
             WritePeek(t) \/ FlushRepeats(t) \/ StoreRepeatCount(t) \/ StoreLine(t)
  BY <1>2, OwnHands
<1>3. CASE LogReset
  BY <1>3, ResetHands
<1>4. CASE Resize \/ LogClear \/ \E keep \in BOOLEAN : KeepAcrossReset(keep)
  <2>1. UNCHANGED repeatVars
    BY <1>4
    DEF Resize, ResizeSizes, ResizeStarts, CopyCell, ResizeSwap, LogClear, KeepAcrossReset
  <2>2. QED
    BY <2>1, QuietHands
<1>5. CASE UNCHANGED logVars
  BY <1>5, QuietHands DEF logVars
<1>6. QED
  BY <1>1, <1>2, <1>3, <1>4, <1>5 DEF LogNext

(* Only the text a step stores, resize(), clear() and a reset touch a ring. *)
LEMMA RingsKeep == RingInv /\ HandInv /\ [LogNext]_logVars => RingInv'
<1> SUFFICES ASSUME RingInv, HandInv, [LogNext]_logVars PROVE RingInv'
  OBVIOUS
<1>1. ASSUME NEW t \in Tasks, StoreRepeatCount(t) \/ StoreLine(t)
      PROVE  RingInv'
  <2>1. hook[t].line \in Lines \cup {NoText, "own"} /\ hook[t].report \in Nat
    BY DEF HandInv, HookInv, Hooks
  <2>2. Count(hook[t].report) \in Token /\ <<hook[t].line>> \in Token /\ <<Stamp>> \in Token
    BY <2>1 DEF Token
  <2>3. PICK c \in Token : StoreText(Stored(c)) /\ UNCHANGED carried
    BY <1>1, <2>2 DEF StoreRepeatCount, StoreLine
  <2>4. PICK text \in Seq(Token) : text = Stored(c) /\ Len(text) > 0
    <3>1. PICK s \in Token : s = <<Stamp>>
      BY <2>2
    <3>2. <<s, c>> \in Seq(Token) /\ Len(<<s, c>>) > 0
      OBVIOUS
    <3>3. QED
      BY <3>1, <3>2 DEF Stored
  <2>5. QED
    BY <2>3, <2>4, StoreRings
<1>2. ASSUME UNCHANGED <<ringVars, carried>>
      PROVE  RingInv'
  BY <1>2 DEF RingInv, RingTypes, MainHolds, RtcHolds, CopyHolds, SizeOf, ringVars
<1>3. CASE \E t \in Tasks : (\E line \in Lines : Hook(t, line)) \/ WritePeek(t) \/ FlushRepeats(t)
  BY <1>2, <1>3 DEF Hook, WritePeek, FlushRepeats
<1>4. CASE \E keep \in BOOLEAN : KeepAcrossReset(keep)
  BY <1>2, <1>4 DEF KeepAcrossReset
<1>5. CASE UNCHANGED logVars
  BY <1>2, <1>5 DEF logVars
<1>6. CASE LogReset
  BY <1>6, ResetRings DEF HandInv
<1>7. QED
  BY <1>1, <1>3, <1>4, <1>5, <1>6, ResizeRings, ClearRings DEF LogNext

---------------------------------------------------------------------------
(* Any piece a reader gets is the text from its position on.                *)
LEMMA ReaderGets ==
    ASSUME RingInv, NEW at \in Nat
    PROVE  LET piece == CopyFrom(at) IN
           /\ piece.from = IF at < Oldest THEN Oldest ELSE at
           /\ \A i \in 1 .. Len(piece.text) :
                  piece.from + i > gap => piece.text[i] = logged[piece.from + i]
           /\ at < written /\ main.filled > 0 => piece.text # <<>>
<1>1. PICK size \in {SmallRing, FullRing}, held \in Seq(Token) :
          Holds(main, held, size) /\ Aligned(held, logged, gap)
  BY DEF RingInv, MainHolds
<1>2. size \in Nat \ {0} /\ Piece \in Nat \ {0}
  BY RingSizes
<1>3. /\ main \in Ring(size) /\ SizeOf(main) = size /\ Len(held) = Len(logged)
      /\ \A k \in 1 .. main.filled :
            main.cells[CellOf(main.head, size, k)] = held[Len(logged) + 1 - k]
  BY <1>1, <1>2, RingSize DEF Holds, Aligned
<1>4. PICK h \in 0 .. size - 1, f \in 0 .. size, w \in Nat :
          h = main.head /\ f = main.filled /\ w = written /\ w = Len(logged) /\ f =< w
  BY <1>1, <1>3 DEF Holds, Ring, RingInv, RingTypes
<1>5. PICK from \in Nat : from = AtClamped(at) /\ from = IF at < w - f THEN w - f ELSE at
  BY <1>4 DEF AtClamped, Oldest
<1>6. PICK n \in Nat : /\ n = IF from < w THEN Min({w - from, Piece}) ELSE 0
                       /\ from < w => n =< w - from /\ n > 0
                       /\ from >= w => n = 0
  <2>1. Min({w - from, Piece}) = IF w - from =< Piece THEN w - from ELSE Piece
    <3>1. w - from \in Int /\ Piece \in Int
      BY <1>2, <1>4, <1>5
    <3>2. QED
      BY <3>1, LeastOfTwo, Zenon
  <2>2. QED
    <3>1. PICK m : m = IF from < w THEN Min({w - from, Piece}) ELSE 0
      OBVIOUS
    <3>2. m = IF from < w THEN (IF w - from =< Piece THEN w - from ELSE Piece) ELSE 0
      BY <2>1, <3>1, Zenon
    <3>3. m \in Nat /\ (from < w => m =< w - from /\ m > 0) /\ (from >= w => m = 0)
      BY <1>2, <3>2
    <3>4. QED
      BY <3>1, <3>3
<1>7. /\ from >= w - f
      /\ \E a \in Nat : a = from - (w - f)
      /\ \E s \in Nat : s = CellOf(h, size, f)
  <2>1. from >= w - f
    BY <1>4, <1>5
  <2>2. from - (w - f) \in Nat
    BY <1>4, <1>5, <2>1
  <2>3. CellOf(h, size, f) \in Nat
    BY <1>2, <1>4 DEF CellOf
  <2>4. QED
    BY <2>1, <2>2, <2>3, Zenon
<1>8. PICK a \in Nat : a = from - (w - f)
  BY <1>7
<1>9. PICK s \in Nat : s = CellOf(h, size, f)
  BY <1>7
<1>10. PICK b \in Nat : b = Onward(s, size, a)
  BY <1>2 DEF Onward
<1>11. CopyFrom(at) = [from |-> from, text |-> [i \in 1 .. n |-> main.cells[(b + i - 1) % size]]]
  <2>1. Start(main) = s /\ s \in Nat
    BY <1>3, <1>4, <1>9 DEF Start, CellOf
  <2>2. from + size + s - (w - f) = a + size + s
    BY <1>2, <1>8, <2>1
  <2>3. (from + SizeOf(main) + Start(main) - Oldest) % SizeOf(main) = b
    <3>1. written - main.filled = w - f
      BY <1>4
    <3>2. (from + size + s - (w - f)) % size = b
      BY <1>10, <2>2, Zenon DEF Onward
    <3>3. QED
      BY <1>3, <2>1, <3>1, <3>2, Zenon DEF Oldest
  <2>4. (IF from < written THEN Min({written - from, Piece}) ELSE 0) = n
    BY <1>4, <1>6
  <2>5. CopyFrom(at) = [from |-> from, text |-> CellsFrom(main, b, n)]
    BY <1>5, <2>3, <2>4, Zenon DEF CopyFrom
  <2>6. CellsFrom(main, b, n) = [i \in 1 .. n |-> main.cells[(b + i - 1) % size]]
    BY <1>3 DEF CellsFrom
  <2>7. QED
    BY <2>5, <2>6
<1> DEFINE text == [i \in 1 .. n |-> main.cells[(b + i - 1) % size]]
<1>12. ASSUME NEW i \in 1 .. n
      PROVE  text[i] = held[from + i] /\ from + i \in 1 .. Len(logged)
  <2>1. from < w /\ n =< w - from /\ a \in 0 .. f - 1 /\ i \in 1 .. f - a /\ f \in 1 .. size
    <3>1. from < w /\ n =< w - from
      BY <1>6
    <3>2. QED
      BY <1>2, <1>4, <1>8, <3>1, SMTT(30)
  <2>2. (b + (i - 1)) % size = CellOf(h, size, f - a - i + 1)
    <3>1. After(b, size, i - 1) = CellOf(h, size, f - a - i + 1)
      BY <1>2, <1>9, <1>10, <2>1, ReaderCell
    <3>2. QED
      BY <3>1, Zenon DEF After
  <2>3. b \in Int
    BY <1>2, <1>4, <1>8, <1>9, <1>10
  <2>4. b + (i - 1) = b + i - 1
    BY <2>3
  <2>5. text[i] = main.cells[CellOf(h, size, f - a - i + 1)]
    BY <2>2, <2>4
  <2>6. f - a - i + 1 \in 1 .. f /\ w + 1 - (f - a - i + 1) = from + i
    <3>1. f - a - i + 1 \in 1 .. f
      BY <2>1
    <3>2. a + w = from + f
      BY <1>8
    <3>3. QED
      BY <2>1, <3>1, <3>2
  <2>7. from + i \in 1 .. Len(logged)
    BY <1>4, <2>1
  <2> HIDE DEF text
  <2>8. QED
    BY <1>3, <1>4, <2>5, <2>6, <2>7
<1>13. text \in Seq(Token) /\ Len(text) = n
  <2>1. \A i \in 1 .. n : text[i] \in Token
    <3>1. \A i \in 1 .. n : text[i] = held[from + i] /\ from + i \in 1 .. Len(held)
      <4>1. Len(held) = Len(logged)
        BY <1>3
      <4> HIDE DEF text
      <4>2. QED
        BY <1>12, <4>1
    <3> HIDE DEF text
    <3>2. QED
      BY <3>1
  <2>2. QED
    BY <2>1
<1> HIDE DEF text
<1>14. \A i \in 1 .. Len(text) : from + i > gap => text[i] = logged[from + i]
  BY <1>1, <1>12, <1>13 DEF Aligned
<1>15. at < w /\ f > 0 => text # <<>>
  <2>1. at < w /\ f > 0 => n > 0
    BY <1>4, <1>5, <1>6
  <2>2. Len(<<>>) = 0
    OBVIOUS
  <2>3. QED
    BY <1>13, <2>1, <2>2
<1>16. CopyFrom(at) = [from |-> from, text |-> text]
  BY <1>11 DEF text
<1>17. (IF at < Oldest THEN Oldest ELSE at) = from
  BY <1>4, <1>5 DEF Oldest
<1>18. QED
  BY <1>4, <1>13, <1>14, <1>15, <1>16, <1>17

(* A text that is the other one's last characters is its suffix.            *)
LEMMA SuffixByCell ==
    ASSUME NEW tail \in Seq(Token), NEW all \in Seq(Token), NEW f \in Nat, NEW l \in Nat,
           f = Len(tail), l = Len(all), f =< l, \A i \in 1 .. f : tail[i] = all[l - f + i]
    PROVE  IsSuffix(tail, all)
<1> DEFINE s == Reverse(tail)
           t == Reverse(all)
<1>5. s \in Seq(Token) /\ Len(s) = f /\ \A i \in 1 .. f : s[i] = tail[f - i + 1]
  <2>1. s = [i \in 1 .. f |-> tail[f - i + 1]]
    BY DEF Reverse
  <2>2. \A i \in 1 .. f : f - i + 1 \in 1 .. f
    OBVIOUS
  <2>3. \A i \in 1 .. f : tail[f - i + 1] \in Token
    BY <2>2
  <2> HIDE DEF s
  <2>4. QED
    BY <2>1, <2>3
<1>6. t \in Seq(Token) /\ Len(t) = l /\ \A i \in 1 .. l : t[i] = all[l - i + 1]
  <2>1. t = [i \in 1 .. l |-> all[l - i + 1]]
    BY DEF Reverse
  <2>2. \A i \in 1 .. l : l - i + 1 \in 1 .. l
    OBVIOUS
  <2>3. \A i \in 1 .. l : all[l - i + 1] \in Token
    BY <2>2
  <2> HIDE DEF t
  <2>4. QED
    BY <2>1, <2>3
<1> HIDE DEF s, t
<1>7. ASSUME NEW i \in 1 .. f PROVE s[i] = t[i]
  <2>1. s[i] = tail[f - i + 1] /\ t[i] = all[l - i + 1]
    BY <1>5, <1>6
  <2>2. f - i + 1 \in 1 .. f /\ l - f + (f - i + 1) = l - i + 1
    OBVIOUS
  <2>3. QED
    BY <2>1, <2>2
<1>8. SubSeq(s, 1, f) = s
  BY <1>5, SubSeqFull
<1>9. SubSeq(t, 1, f) = s
  <2>1. \A i \in 1 .. f : t[i] \in Token
    BY <1>6
  <2>2. PICK part : part = SubSeq(t, 1, f)
    OBVIOUS
  <2>3. /\ part \in Seq(Token) /\ Len(part) = IF 1 =< f THEN f - 1 + 1 ELSE 0
        /\ \A i \in 1 .. f - 1 + 1 : part[i] = t[1 + i - 1]
    BY <2>1, <2>2, SubSeqProperties
  <2>4. Len(part) = f /\ \A i \in 1 .. f : part[i] = t[i]
    BY <2>3
  <2>5. QED
    BY <1>5, <1>7, <2>2, <2>3, <2>4
<1>10. IsPrefix(s, t)
  BY <1>5, <1>6, <1>8, <1>9 DEF IsPrefix
<1>11. QED
  BY <1>10 DEF IsSuffix, s, t

(* What is left in RTC memory is the end of what was mirrored.              *)
LEMMA TailIsSuffix == RingInv => TailSuffix
<1> SUFFICES ASSUME RingInv PROVE TailSuffix
  OBVIOUS
<1>1. PICK kept \in Seq(Token) :
          Holds(rtcLog.ring, kept, RtcRing) /\ Aligned(kept, mirrored, bitten)
  BY DEF RingInv, RtcHolds
<1>2. PICK f \in Nat, l \in Nat :
          /\ f = rtcLog.ring.filled /\ l = Len(mirrored) /\ l = Len(kept) /\ f =< l
          /\ mirrored \in Seq(Token)
  BY <1>1 DEF Holds, Ring, Aligned
<1>3. PICK tail \in Seq(Token) : /\ tail = Newest(rtcLog.ring, rtcLog.ring.filled)
                                 /\ Len(tail) = f
                                 /\ \A i \in 1 .. f : tail[i] = kept[l - f + i]
  <2>1. rtcLog.ring.filled \in 0 .. rtcLog.ring.filled
    BY <1>2
  <2>2. PICK n \in 0 .. rtcLog.ring.filled : n = f
    BY <1>2, <2>1
  <2>3. /\ Newest(rtcLog.ring, n) \in Seq(Token) /\ Len(Newest(rtcLog.ring, n)) = n
        /\ \A i \in 1 .. n : Newest(rtcLog.ring, n)[i] = kept[Len(kept) - n + i]
    BY <1>1, NewestHeld, RingSizes
  <2>4. Newest(rtcLog.ring, n) = Newest(rtcLog.ring, rtcLog.ring.filled)
    BY <1>2, <2>2
  <2>5. PICK tail \in Seq(Token) : tail = Newest(rtcLog.ring, n)
    BY <2>3
  <2>6. tail = Newest(rtcLog.ring, rtcLog.ring.filled)
    BY <2>4, <2>5
  <2>7. Len(tail) = n /\ \A i \in 1 .. n : tail[i] = kept[Len(kept) - n + i]
    BY <2>3, <2>5
  <2>8. n = f /\ Len(kept) = l
    BY <1>2, <2>2
  <2>9. Len(tail) = f /\ \A i \in 1 .. f : tail[i] = kept[l - f + i]
    BY <2>7, <2>8
  <2>10. QED
    BY <2>6, <2>9
<1>4. bitten \in Nat /\ (bitten > 0 => f = RtcRing /\ bitten =< l + 1 - f)
  BY <1>2 DEF RingInv, RingTypes, RtcHolds
<1>5. ASSUME NEW i \in 1 .. f, l - f + i > bitten PROVE tail[i] = mirrored[l - f + i]
  <2>1. l - f + i \in 1 .. l
    BY <1>2
  <2>2. QED
    BY <1>1, <1>2, <1>3, <1>5, <2>1 DEF Aligned
<1>6. CASE ~(bitten > l - f)
  <2>1. \A i \in 1 .. f : l - f + i > bitten
    BY <1>2, <1>4, <1>6
  <2>2. IsSuffix(tail, mirrored)
    BY <1>2, <1>3, <1>5, <2>1, SuffixByCell
  <2>3. QED
    BY <1>2, <1>3, <1>6, <2>2 DEF TailSuffix
<1>7. CASE bitten > l - f
  <2>1. bitten = l - f + 1 /\ f > 0
    <3>1. bitten > 0
      BY <1>2, <1>4, <1>7
    <3>2. PICK b \in Nat : b = bitten
      BY <1>4
    <3>3. f = RtcRing /\ RtcRing \in Nat \ {0} /\ b =< l + 1 - f /\ b > l - f
      BY <1>4, <1>7, <3>1, <3>2, RingSizes
    <3>4. f > 0 /\ b = l - f + 1
      BY <3>3
    <3>5. QED
      BY <3>2, <3>4
  <2>8. tail # <<>>
    BY <1>3, <2>1
  <2>9. Tail(tail) \in Seq(Token) /\ Len(Tail(tail)) = f - 1
    BY <1>3, <2>8
  <2>2. PICK rest \in Seq(Token) : rest = Tail(tail) /\ Len(rest) = f - 1
    BY <2>9
  <2>3. PICK g \in Nat : g = f - 1 /\ Len(rest) = g
    BY <2>1, <2>2
  <2>4. ASSUME NEW i \in 1 .. g PROVE rest[i] = mirrored[l - g + i]
    <3>1. rest[i] = tail[i + 1]
      BY <1>3, <2>2, <2>3
    <3>2. i + 1 \in 1 .. f /\ l - f + (i + 1) > bitten /\ l - f + (i + 1) = l - g + i
      BY <2>1, <2>3
    <3>3. QED
      BY <1>5, <3>1, <3>2
  <2>5. g =< l
    BY <1>2, <2>3
  <2>6. IsSuffix(rest, mirrored)
    BY <1>2, <2>3, <2>4, <2>5, SuffixByCell
  <2>7. QED
    BY <1>2, <1>3, <1>7, <2>2, <2>6 DEF TailSuffix
<1>8. QED
  BY <1>6, <1>7

(* The two rings and the hook, from the start on.                           *)
LogInv == RingInv /\ HandInv

LEMMA LogSafe == LogSpec => []LogInv
<1>1. LogInit => LogInv
  BY InitRings, InitHands DEF LogInv
<1>2. LogInv /\ [LogNext]_logVars => LogInv'
  BY RingsKeep, HandsKeep DEF LogInv
<1>3. QED
  BY <1>1, <1>2, PTL DEF LogSpec

(* Wherever a reader stands and wherever a reset struck, what is read is    *)
(* what was logged, in its order and without a gap, but for what a swap of  *)
(* resize() puts out of place and the one character a reset may cut         *)
(* (log_buffer.cpp:98-308, 442-593).                                        *)
THEOREM LogReadsBack == LogSpec => []LogExact
<1>1. LogInv => LogExact
  <2>1. ASSUME LogInv PROVE \A at \in 0 .. written + 2 : at \in Nat
    OBVIOUS
  <2>2. LogInv => ReadsWhatWasLogged
    BY <2>1, ReaderGets, Zenon DEF LogInv, ReadsWhatWasLogged
  <2>3. QED
    BY <2>2, TailIsSuffix DEF LogInv, LogExact
<1>2. QED
  BY <1>1, LogSafe, PTL

(* No line of the ESP-IDF log is lost from the ring and from the counts,    *)
(* and none is reported twice (log_buffer.cpp:48-60, 314-416).              *)
THEOREM NoLineLost == LogSpec => []LinesConserved
<1>1. LogInv => LinesConserved
  BY DEF LogInv, HandInv
<1>2. QED
  BY <1>1, LogSafe, PTL

-------------------------------------------------------------------------------
(* Dates, for every day from 1970 on.                                       *)

(* The quotients of civilFromDays(): each is the number whose multiple lies  *)
(* just below.                                                              *)
LEMMA ByLeapYears ==
    ASSUME NEW x \in Int
    PROVE  \E a \in Int : a = x \div 1460 /\ 1460 * a =< x /\ x < 1460 * a + 1460
BY SMT
LEMMA ByCenturies ==
    ASSUME NEW x \in Int
    PROVE  \E a \in Int : a = x \div 36524 /\ 36524 * a =< x /\ x < 36524 * a + 36524
BY SMT
LEMMA ByEraEnd ==
    ASSUME NEW x \in Int
    PROVE  \E a \in Int : a = x \div 146096 /\ 146096 * a =< x /\ x < 146096 * a + 146096
BY SMT
LEMMA ByEras ==
    ASSUME NEW x \in Int, 0 =< x
    PROVE  \E a \in Int : a = x \div 146097 /\ 0 =< x - a * 146097 /\ x - a * 146097 =< 146096
BY SMT
LEMMA ByYears ==
    ASSUME NEW x \in Int, 0 =< x, x =< 145999
    PROVE  \E a \in Int : /\ a = x \div 365 /\ 0 =< a /\ a =< 399
                          /\ 365 * a =< x /\ x < 365 * a + 365
BY SMT
LEMMA ByFour ==
    ASSUME NEW x \in Int
    PROVE  \E a \in Int : a = x \div 4 /\ 4 * a =< x /\ x < 4 * a + 4
BY SMT
LEMMA ByHundred ==
    ASSUME NEW x \in Int
    PROVE  \E a \in Int : a = x \div 100 /\ 100 * a =< x /\ x < 100 * a + 100
BY SMT
LEMMA ByMonths ==
    ASSUME NEW x \in Int, 0 =< x, x =< 365
    PROVE  \E a \in Int : /\ a = ((5 * x) + 2) \div 153 /\ 0 =< a /\ a =< 11
                          /\ 153 * a =< 5 * x + 2 /\ 5 * x + 2 < 153 * a + 153
BY SMT
LEMMA ByFive ==
    ASSUME NEW m \in Int
    PROVE  \E a \in Int : /\ a = ((153 * m) + 2) \div 5
                          /\ 5 * a =< 153 * m + 2 /\ 153 * m + 2 < 5 * a + 5
BY SMT
LEMMA EraOfYear ==
    ASSUME NEW e \in Int, NEW y \in Int, 0 =< y, y =< 399
    PROVE  (y + (e * 400)) \div 400 = e
BY SMT

(* The year of an era is one of its 400, and the day in it one of its 366.  *)
LEMMA YearInEra ==
    ASSUME NEW doe \in Int, NEW a \in Int, NEW b \in Int, NEW c \in Int,
           0 =< doe, doe =< 146096,
           1460 * a =< doe, doe < 1460 * a + 1460,
           36524 * b =< doe, doe < 36524 * b + 36524,
           146096 * c =< doe, doe < 146096 * c + 146096
    PROVE  0 =< doe - a + b - c /\ doe - a + b - c =< 145999
BY SMTT(30)
LEMMA DayInYear ==
    ASSUME NEW doe \in Int, NEW a \in Int, NEW b \in Int, NEW c \in Int,
           0 =< doe, doe =< 146096,
           1460 * a =< doe, doe < 1460 * a + 1460,
           36524 * b =< doe, doe < 36524 * b + 36524,
           146096 * c =< doe, doe < 146096 * c + 146096,
           NEW y \in Int, 0 =< y, y =< 399,
           365 * y =< doe - a + b - c, doe - a + b - c < 365 * y + 365,
           NEW q \in Int, 4 * q =< y, y < 4 * q + 4,
           NEW e \in Int, 100 * e =< y, y < 100 * e + 100
    PROVE  0 =< doe - (365 * y + q - e) /\ doe - (365 * y + q - e) =< 365
BY SMTT(30)

(* The last day of a year that ends with a leap February is in it.           *)
LEMMA LongYearsOnly ==
    ASSUME NEW y \in Int, 0 =< y, y =< 399,
           NEW q \in Int, 4 * q =< y, y < 4 * q + 4,
           NEW e \in Int, 100 * e =< y, y < 100 * e + 100,
           NEW doe \in Int, 0 =< doe, doe =< 146096, doe = 365 * y + q - e + 365,
           NEW a \in Int, 1460 * a =< doe, doe < 1460 * a + 1460,
           NEW b \in Int, 36524 * b =< doe, doe < 36524 * b + 36524,
           NEW c \in Int, 146096 * c =< doe, doe < 146096 * c + 146096,
           365 * y =< doe - a + b - c, doe - a + b - c < 365 * y + 365
    PROVE  y = 4 * q + 3 /\ (y # 100 * e + 99 \/ y = 399)
BY SMTT(30)

(* The other way: the days of a year are found to be that year's.           *)
LEMMA EraHolds ==
    ASSUME NEW y \in Int, 0 =< y, y =< 399,
           NEW q \in Int, 4 * q =< y, y < 4 * q + 4,
           NEW e \in Int, 100 * e =< y, y < 100 * e + 100,
           NEW d \in Int, 0 =< d, d =< 365,
           d = 365 => y = 4 * q + 3 /\ (y # 100 * e + 99 \/ y = 399)
    PROVE  0 =< 365 * y + q - e + d /\ 365 * y + q - e + d =< 146096
BY SMTT(30)
LEMMA YearFound ==
    ASSUME NEW y \in Int, 0 =< y, y =< 399,
           NEW q \in Int, 4 * q =< y, y < 4 * q + 4,
           NEW e \in Int, 100 * e =< y, y < 100 * e + 100,
           NEW d \in Int, 0 =< d, d =< 365,
           d = 365 => y = 4 * q + 3 /\ (y # 100 * e + 99 \/ y = 399),
           NEW doe \in Int, doe = 365 * y + q - e + d,
           NEW a \in Int, 1460 * a =< doe, doe < 1460 * a + 1460,
           NEW b \in Int, 36524 * b =< doe, doe < 36524 * b + 36524,
           NEW c \in Int, 146096 * c =< doe, doe < 146096 * c + 146096
    PROVE  365 * y =< doe - a + b - c /\ doe - a + b - c < 365 * y + 365
BY SMTT(30)
LEMMA EraIs ==
    ASSUME NEW e \in Int, NEW d \in Int, 0 =< d, d =< 146096
    PROVE  (e * 146097 + d) \div 146097 = e
BY SMT
LEMMA YearIs ==
    ASSUME NEW y \in Int, NEW x \in Int, 365 * y =< x, x < 365 * y + 365
    PROVE  x \div 365 = y
BY SMT
LEMMA MonthIs ==
    ASSUME NEW m \in Int, NEW x \in Int, 153 * m =< x, x < 153 * m + 153
    PROVE  x \div 153 = m
BY SMT

(* Years of an era are counted from March, so that the leap day is the last  *)
(* of a long one, and months likewise.                                      *)
YearDay(yoe) == (365 * yoe) + (yoe \div 4) - (yoe \div 100)
LongYear(yoe) == yoe = 4 * (yoe \div 4) + 3 /\ (yoe # 100 * (yoe \div 100) + 99 \/ yoe = 399)
MonthDay(mp) == ((153 * mp) + 2) \div 5
ShiftedMonth(mp) == IF mp < 10 THEN mp + 3 ELSE mp - 9

(* The parts a date is put together from: what remains of n is a day of a    *)
(* month of a year of an era.                                               *)
DayParts(n, era, yoe, doy, mp) ==
  /\ 0 =< yoe /\ yoe =< 399
  /\ 0 =< doy /\ doy =< 365 /\ (doy = 365 => LongYear(yoe))
  /\ 0 =< mp /\ mp =< 11 /\ 153 * mp =< 5 * doy + 2 /\ 5 * doy + 2 < 153 * mp + 153
  /\ n + 719468 = era * 146097 + YearDay(yoe) + doy
DateOf(era, yoe, doy, mp) ==
  [year |-> yoe + (era * 400) + (IF ShiftedMonth(mp) =< 2 THEN 1 ELSE 0),
   month |-> ShiftedMonth(mp), day |-> doy - MonthDay(mp) + 1]

(* The steps of civilFromDays(), one after another.                         *)
EraOf(shifted) == shifted \div 146097
DayOfEra(shifted, era) == shifted - era * 146097
YearOf(doe) == (doe - (doe \div 1460) + (doe \div 36524) - (doe \div 146096)) \div 365
DayOfYear(doe, yoe) == doe - YearDay(yoe)
MonthIn(doy) == ((5 * doy) + 2) \div 153

LEMMA CivilSteps ==
    ASSUME NEW n
    PROVE  CivilFromDays(n)
             = LET shifted == n + 719468
                   era == EraOf(shifted)
                   doe == DayOfEra(shifted, era)
                   yoe == YearOf(doe)
                   doy == DayOfYear(doe, yoe)
               IN DateOf(era, yoe, doy, MonthIn(doy))
BY SMT DEF CivilFromDays, DateOf, EraOf, DayOfEra, YearOf, DayOfYear, MonthIn, YearDay,
           ShiftedMonth, MonthDay

InYear(yoe, q, e) ==
  /\ q = yoe \div 4 /\ 4 * q =< yoe /\ yoe < 4 * q + 4
  /\ e = yoe \div 100 /\ 100 * e =< yoe /\ yoe < 100 * e + 100
  /\ YearDay(yoe) = 365 * yoe + q - e /\ YearDay(yoe) \in Int
  /\ LongYear(yoe) <=> yoe = 4 * q + 3 /\ (yoe # 100 * e + 99 \/ yoe = 399)

LEMMA YearDayType ==
    ASSUME NEW yoe \in Int
    PROVE  \E q \in Int, e \in Int : InYear(yoe, q, e)
<1>1. PICK q \in Int : q = yoe \div 4 /\ 4 * q =< yoe /\ yoe < 4 * q + 4
  BY ByFour, SMT
<1>2. PICK e \in Int : e = yoe \div 100 /\ 100 * e =< yoe /\ yoe < 100 * e + 100
  BY ByHundred, SMT
<1> QED BY <1>1, <1>2, SMT DEF InYear, YearDay, LongYear

(* Every day has its parts, and its date is made of them.                   *)
LEMMA CivilParts ==
    ASSUME NEW n \in Nat
    PROVE  \E era \in Int, yoe \in Int, doy \in Int, mp \in Int :
             DayParts(n, era, yoe, doy, mp) /\ CivilFromDays(n) = DateOf(era, yoe, doy, mp)
<1>1. PICK shifted \in Int : shifted = n + 719468 /\ 0 =< shifted
  BY SMT
<1>2. PICK era \in Int : /\ era = shifted \div 146097 /\ 0 =< shifted - era * 146097
                         /\ shifted - era * 146097 =< 146096
  BY <1>1, ByEras, SMT
<1>3. PICK doe \in Int : doe = shifted - era * 146097 /\ 0 =< doe /\ doe =< 146096
  BY <1>1, <1>2, SMT
<1>4. PICK a \in Int : a = doe \div 1460 /\ 1460 * a =< doe /\ doe < 1460 * a + 1460
  BY ByLeapYears, SMT
<1>5. PICK b \in Int : b = doe \div 36524 /\ 36524 * b =< doe /\ doe < 36524 * b + 36524
  BY ByCenturies, SMT
<1>6. PICK c \in Int : c = doe \div 146096 /\ 146096 * c =< doe /\ doe < 146096 * c + 146096
  BY ByEraEnd, SMT
<1>7. PICK years \in Int : years = doe - a + b - c /\ 0 =< years /\ years =< 145999
  BY <1>3, <1>4, <1>5, <1>6, YearInEra, SMT
<1>8. PICK yoe \in Int : /\ yoe = years \div 365 /\ 0 =< yoe /\ yoe =< 399
                         /\ 365 * yoe =< years /\ years < 365 * yoe + 365
  BY <1>7, ByYears, SMT
<1>9. PICK q \in Int, e \in Int : InYear(yoe, q, e)
  BY YearDayType
<1>10. 365 * yoe =< doe - a + b - c /\ doe - a + b - c < 365 * yoe + 365
  BY <1>7, <1>8, SMT
<1>11. 0 =< doe - (365 * yoe + q - e) /\ doe - (365 * yoe + q - e) =< 365
  BY <1>3, <1>4, <1>5, <1>6, <1>8, <1>9, <1>10, DayInYear, SMT DEF InYear
<1>12. PICK doy \in Int : doy = doe - YearDay(yoe) /\ 0 =< doy /\ doy =< 365
  BY <1>9, <1>11, SMT DEF InYear
<1>13. ASSUME doy = 365 PROVE LongYear(yoe)
  <2>1. /\ doe = 365 * yoe + q - e + 365 /\ 0 =< doe /\ doe =< 146096
        /\ 0 =< yoe /\ yoe =< 399 /\ 4 * q =< yoe /\ yoe < 4 * q + 4
        /\ 100 * e =< yoe /\ yoe < 100 * e + 100
    BY <1>3, <1>8, <1>9, <1>12, <1>13, SMT DEF InYear
  <2>2. /\ 1460 * a =< doe /\ doe < 1460 * a + 1460
        /\ 36524 * b =< doe /\ doe < 36524 * b + 36524
        /\ 146096 * c =< doe /\ doe < 146096 * c + 146096
    BY <1>4, <1>5, <1>6, SMT
  <2>3. yoe = 4 * q + 3 /\ (yoe # 100 * e + 99 \/ yoe = 399)
    BY ONLY <2>1, <2>2, <1>10, LongYearsOnly, SMTT(30)
  <2> QED BY <2>3, <1>9, SMT DEF InYear
<1>14. PICK mp \in Int : /\ mp = ((5 * doy) + 2) \div 153 /\ 0 =< mp /\ mp =< 11
                         /\ 153 * mp =< 5 * doy + 2 /\ 5 * doy + 2 < 153 * mp + 153
  BY <1>12, ByMonths, SMT
<1>15. n + 719468 = era * 146097 + YearDay(yoe) + doy
  BY <1>1, <1>3, <1>9, <1>12, SMT DEF InYear
<1>16. DayParts(n, era, yoe, doy, mp)
  BY <1>8, <1>12, <1>13, <1>14, <1>15, SMT DEF DayParts
<1>17. era = EraOf(shifted) /\ doe = DayOfEra(shifted, era)
  BY <1>2, <1>3, SMT DEF EraOf, DayOfEra
<1>18. yoe = YearOf(doe)
  BY <1>4, <1>5, <1>6, <1>7, <1>8, SMT DEF YearOf
<1>19. doy = DayOfYear(doe, yoe) /\ mp = MonthIn(doy)
  BY <1>12, <1>14, SMT DEF DayOfYear, MonthIn
<1>20. CivilFromDays(n) = DateOf(era, yoe, doy, mp)
  BY <1>1, <1>17, <1>18, <1>19, CivilSteps
<1> QED BY <1>16, <1>20

(* No other parts make that day.                                            *)
LEMMA PartsAreTheDate ==
    ASSUME NEW n \in Nat, NEW era \in Int, NEW yoe \in Int, NEW doy \in Int, NEW mp \in Int,
           DayParts(n, era, yoe, doy, mp)
    PROVE  CivilFromDays(n) = DateOf(era, yoe, doy, mp)
<1>1. PICK q \in Int, e \in Int : InYear(yoe, q, e)
  BY YearDayType
<1>2. PICK shifted \in Int : shifted = n + 719468
  BY SMT
<1>3. PICK doe \in Int : doe = 365 * yoe + q - e + doy
  BY SMT
<1>4. 0 =< yoe /\ yoe =< 399 /\ 0 =< doy /\ doy =< 365 /\ (doy = 365 => LongYear(yoe))
  BY DEF DayParts
<1>5. doy = 365 => yoe = 4 * q + 3 /\ (yoe # 100 * e + 99 \/ yoe = 399)
  BY <1>1, <1>4, SMT DEF InYear
<1>6. 0 =< doe /\ doe =< 146096
  BY <1>1, <1>3, <1>4, <1>5, EraHolds, SMT DEF InYear
<1>7. shifted = era * 146097 + doe
  BY <1>1, <1>2, <1>3, SMT DEF DayParts, InYear
<1>8. era = EraOf(shifted)
  BY <1>6, <1>7, EraIs, SMT DEF EraOf
<1>9. doe = DayOfEra(shifted, era)
  BY <1>7, SMT DEF DayOfEra
<1>10. PICK a \in Int : a = doe \div 1460 /\ 1460 * a =< doe /\ doe < 1460 * a + 1460
  BY ByLeapYears, SMT
<1>11. PICK b \in Int : b = doe \div 36524 /\ 36524 * b =< doe /\ doe < 36524 * b + 36524
  BY ByCenturies, SMT
<1>12. PICK c \in Int : c = doe \div 146096 /\ 146096 * c =< doe /\ doe < 146096 * c + 146096
  BY ByEraEnd, SMT
<1>13. 365 * yoe =< doe - a + b - c /\ doe - a + b - c < 365 * yoe + 365
  BY <1>1, <1>3, <1>4, <1>5, <1>10, <1>11, <1>12, YearFound, SMT DEF InYear
<1>14. (doe - a + b - c) \div 365 = yoe
  <2>1. PICK years \in Int : years = doe - a + b - c
    BY SMT
  <2> QED BY <1>13, <2>1, YearIs, SMT
<1>15. yoe = YearOf(doe)
  BY <1>10, <1>11, <1>12, <1>14, SMT DEF YearOf
<1>16. doy = DayOfYear(doe, yoe)
  BY <1>1, <1>3, SMT DEF DayOfYear, InYear
<1>17. mp = MonthIn(doy)
  <2>1. PICK x \in Int : x = (5 * doy) + 2
    BY SMT
  <2>2. 153 * mp =< x /\ x < 153 * mp + 153
    BY <2>1, SMT DEF DayParts
  <2> QED BY <2>1, <2>2, MonthIs, SMT DEF MonthIn
<1> QED BY <1>2, <1>8, <1>9, <1>15, <1>16, <1>17, CivilSteps

(* The day is one of the month.                                             *)
LEMMA DayInMonth ==
    ASSUME NEW doy \in Int, NEW mp \in Int,
           153 * mp =< 5 * doy + 2, 5 * doy + 2 < 153 * mp + 153
    PROVE  0 =< doy - MonthDay(mp) /\ doy - MonthDay(mp) =< 30 /\ MonthDay(mp) \in Int
<1>1. PICK d \in Int : /\ d = ((153 * mp) + 2) \div 5
                        /\ 5 * d =< 153 * mp + 2 /\ 153 * mp + 2 < 5 * d + 5
  BY ByFive, SMT
<1>2. MonthDay(mp) = d
  BY <1>1, SMT DEF MonthDay
<1> QED BY <1>1, <1>2, SMT

(* From 1970 on, for ever, civilFromDays() names a day of a month of a year, *)
(* no two days alike: daysFromCivil() takes it back (rv3028.cpp:28-51). The  *)
(* runs ask it of the days about the leap years and of the chip's last.     *)
THEOREM DateRoundTrip ==
    ASSUME NEW n \in Nat
    PROVE  LET d == CivilFromDays(n) IN
           /\ d.year \in Int /\ d.month \in Month /\ d.day \in 1..31
           /\ DaysFromCivil(d.year, d.month, d.day) = n
<1>1. PICK era \in Int, yoe \in Int, doy \in Int, mp \in Int :
             DayParts(n, era, yoe, doy, mp) /\ CivilFromDays(n) = DateOf(era, yoe, doy, mp)
  BY CivilParts
<1> DEFINE d == CivilFromDays(n)
<1>2. /\ 0 =< yoe /\ yoe =< 399 /\ 0 =< mp /\ mp =< 11
      /\ n + 719468 = era * 146097 + YearDay(yoe) + doy
      /\ 0 =< doy - MonthDay(mp) /\ doy - MonthDay(mp) =< 30 /\ MonthDay(mp) \in Int
  BY <1>1, DayInMonth, SMT DEF DayParts
<1>3. PICK year \in Int : /\ year = yoe + (era * 400) + (IF ShiftedMonth(mp) =< 2 THEN 1 ELSE 0)
                          /\ d.year = year
  BY <1>1, <1>2, SMT DEF DateOf, ShiftedMonth
<1>4. PICK month \in Int : month = ShiftedMonth(mp) /\ d.month = month /\ 1 =< month /\ month =< 12
  BY <1>1, <1>2, SMT DEF DateOf, ShiftedMonth
<1>5. PICK day \in Int : day = doy - MonthDay(mp) + 1 /\ d.day = day /\ 1 =< day /\ day =< 31
  BY <1>1, <1>2, SMT DEF DateOf
<1>6. (IF month =< 2 THEN year - 1 ELSE year) = yoe + (era * 400)
  BY <1>3, <1>4, SMT
<1>7. (yoe + (era * 400)) \div 400 = era
  BY <1>2, EraOfYear, SMT
<1>8. yoe + (era * 400) - era * 400 = yoe
  BY SMT
<1>9. month + (IF month > 2 THEN -3 ELSE 9) = mp
  BY <1>2, <1>4, SMT DEF ShiftedMonth
<1>10. DaysFromCivil(year, month, day)
        = (era * 146097) + (yoe * 365) + (yoe \div 4) - (yoe \div 100)
          + (MonthDay(mp) + day - 1) - 719468
  BY <1>6, <1>7, <1>8, <1>9, SMTT(30) DEF DaysFromCivil, MonthDay
<1>11. DaysFromCivil(year, month, day) = n
  <2>1. PICK q \in Int, e \in Int : InYear(yoe, q, e)
    BY YearDayType
  <2>2. DaysFromCivil(year, month, day)
        = (era * 146097) + (yoe * 365) + q - e + (MonthDay(mp) + day - 1) - 719468
    BY <1>10, <2>1, SMT DEF InYear
  <2> QED BY <1>2, <1>5, <2>1, <2>2, SMT DEF InYear
<1>12. month \in Month /\ day \in 1..31
  BY <1>4, <1>5, SMT DEF Month
<1> QED BY <1>3, <1>4, <1>5, <1>11, <1>12

(* Months are as long as the calendar says, and so are years.               *)
LEMMA MonthsLast ==
    ASSUME NEW year \in Int, NEW mp \in Int, 0 =< mp, mp =< 10
    PROVE  /\ MonthDay(mp) \in Int /\ MonthDay(mp + 1) \in Int
           /\ Length(year, ShiftedMonth(mp)) = MonthDay(mp + 1) - MonthDay(mp)
<1>1. PICK d \in Int : /\ d = ((153 * mp) + 2) \div 5
                        /\ 5 * d =< 153 * mp + 2 /\ 153 * mp + 2 < 5 * d + 5
  BY ByFive, SMT
<1>2. PICK m \in Int : m = mp + 1
  BY SMT
<1>3. PICK f \in Int : /\ f = ((153 * m) + 2) \div 5
                        /\ 5 * f =< 153 * m + 2 /\ 153 * m + 2 < 5 * f + 5
  BY ByFive, SMT
<1>4. MonthDay(mp) = d /\ MonthDay(m) = f
  BY <1>1, <1>3, SMT DEF MonthDay
<1>5. Length(year, ShiftedMonth(mp)) = f - d
  BY <1>1, <1>2, <1>3, SMTT(30) DEF Length, ShiftedMonth
<1> QED BY <1>2, <1>4, <1>5, SMT

LEMMA NextMonthAt ==
    ASSUME NEW doy \in Int, NEW mp \in Int
    PROVE  /\ MonthDay(mp + 1) \in Int
           /\ 5 * (doy + 1) + 2 < 153 * (mp + 1) => doy + 1 < MonthDay(mp + 1)
           /\ 5 * (doy + 1) + 2 >= 153 * (mp + 1) /\ 5 * doy + 2 < 153 * mp + 153
                => doy + 1 = MonthDay(mp + 1)
<1>1. PICK m \in Int : m = mp + 1
  BY SMT
<1>2. PICK f \in Int : /\ f = ((153 * m) + 2) \div 5
                        /\ 5 * f =< 153 * m + 2 /\ 153 * m + 2 < 5 * f + 5
  BY ByFive, SMT
<1>3. MonthDay(m) = f
  BY <1>2, SMT DEF MonthDay
<1>4. /\ 5 * (doy + 1) + 2 < 153 * m => doy + 1 < f
      /\ 5 * (doy + 1) + 2 >= 153 * m /\ 5 * doy + 2 < 153 * mp + 153 => doy + 1 = f
  BY <1>1, <1>2, SMTT(30)
<1> QED BY <1>1, <1>3, <1>4, SMT

LEMMA FebruaryLasts ==
    ASSUME NEW era \in Int, NEW yoe \in Int, 0 =< yoe, yoe =< 399
    PROVE  Leap(yoe + (era * 400) + 1) <=> LongYear(yoe)
<1>1. PICK q \in Int, e \in Int : InYear(yoe, q, e)
  BY YearDayType
<1>2. PICK y \in Int : y = yoe + 1
  BY SMT
<1>3. /\ (yoe + (era * 400) + 1) % 4 = y % 4 /\ (yoe + (era * 400) + 1) % 100 = y % 100
      /\ (yoe + (era * 400) + 1) % 400 = y % 400
  BY <1>2, SMTT(30)
<1>4. /\ y % 4 = 0 <=> yoe = 4 * q + 3
      /\ y % 100 = 0 <=> yoe = 100 * e + 99
      /\ y % 400 = 0 <=> yoe = 399
  BY <1>1, <1>2, SMTT(30) DEF InYear
<1> QED BY <1>1, <1>3, <1>4, SMT DEF Leap, InYear

LEMMA YearsLast ==
    ASSUME NEW yoe \in Int, 0 =< yoe, yoe =< 399
    PROVE  /\ yoe < 399 =>
                YearDay(yoe + 1) = YearDay(yoe) + (IF LongYear(yoe) THEN 366 ELSE 365)
           /\ yoe = 399 => LongYear(yoe) /\ YearDay(yoe) + 366 = 146097
           /\ YearDay(0) = 0
<1>1. PICK q \in Int, e \in Int : InYear(yoe, q, e)
  BY YearDayType
<1>2. PICK y \in Int : y = yoe + 1
  BY SMT
<1>3. PICK f \in Int, g \in Int : InYear(y, f, g)
  BY YearDayType
<1>4. yoe < 399 => YearDay(y) = YearDay(yoe) + (IF LongYear(yoe) THEN 366 ELSE 365)
  <2>1. f = IF yoe = 4 * q + 3 THEN q + 1 ELSE q
    BY <1>1, <1>2, <1>3, SMT DEF InYear
  <2>2. g = IF yoe = 100 * e + 99 THEN e + 1 ELSE e
    BY <1>1, <1>2, <1>3, SMT DEF InYear
  <2>3. yoe = 100 * e + 99 => yoe = 4 * q + 3
    BY <1>1, SMT DEF InYear
  <2> QED BY <1>1, <1>2, <1>3, <2>1, <2>2, <2>3, SMT DEF InYear
<1>5. yoe = 399 => LongYear(yoe) /\ YearDay(yoe) + 366 = 146097
  <2>1. yoe = 399 => q = 99 /\ e = 3
    BY <1>1, SMT DEF InYear
  <2> QED BY <1>1, <2>1, SMT DEF InYear
<1>6. YearDay(0) = 0
  <2>1. PICK z \in Int, w \in Int : InYear(0, z, w)
    BY YearDayType
  <2> QED BY <2>1, SMT DEF InYear
<1> QED BY <1>2, <1>4, <1>5, <1>6, SMT

LEMMA NextDayIs ==
    ASSUME NEW year \in Int, NEW month \in Int, NEW day \in Int
    PROVE  NextDay([year |-> year, month |-> month, day |-> day])
             = IF day < Length(year, month) THEN [year |-> year, month |-> month, day |-> day + 1]
               ELSE IF month < 12 THEN [year |-> year, month |-> month + 1, day |-> 1]
               ELSE [year |-> year + 1, month |-> 1, day |-> 1]
BY SMT DEF NextDay

(* Day 0 is the first of January 1970.                                      *)
LEMMA DayZero == CivilFromDays(0) = [year |-> 1970, month |-> 1, day |-> 1]
<1>1. PICK q \in Int, e \in Int : InYear(369, q, e)
  BY YearDayType
<1>2. YearDay(369) = 134774
  BY <1>1, SMT DEF InYear
<1>3. DayParts(0, 4, 369, 306, 10)
  BY <1>2, SMT DEF DayParts
<1>4. CivilFromDays(0) = DateOf(4, 369, 306, 10)
  BY <1>3, PartsAreTheDate, SMT
<1>5. MonthDay(10) = 306 /\ ShiftedMonth(10) = 1
  BY SMT DEF MonthDay, ShiftedMonth
<1> QED BY <1>4, <1>5, SMT DEF DateOf

(* And civilFromDays() is the calendar: every day has the date that follows *)
(* the one of the day before it, through leap years and centuries.          *)
THEOREM DaysInOrder ==
    ASSUME NEW n \in Nat
    PROVE  CivilFromDays(n + 1) = NextDay(CivilFromDays(n))
<1>1. PICK era \in Int, yoe \in Int, doy \in Int, mp \in Int :
             DayParts(n, era, yoe, doy, mp) /\ CivilFromDays(n) = DateOf(era, yoe, doy, mp)
  BY CivilParts
<1>2. /\ 0 =< yoe /\ yoe =< 399 /\ 0 =< doy /\ doy =< 365 /\ (doy = 365 => LongYear(yoe))
      /\ 0 =< mp /\ mp =< 11 /\ 153 * mp =< 5 * doy + 2 /\ 5 * doy + 2 < 153 * mp + 153
      /\ n + 719468 = era * 146097 + YearDay(yoe) + doy
  BY <1>1 DEF DayParts
<1>3. PICK month \in Int : month = ShiftedMonth(mp)
  BY <1>2, SMT DEF ShiftedMonth
<1>4. PICK year \in Int : year = yoe + (era * 400) + (IF month =< 2 THEN 1 ELSE 0)
  BY <1>2, SMT
<1>5. PICK day \in Int : day = doy - MonthDay(mp) + 1
  BY <1>2, DayInMonth, SMT
<1>6. CivilFromDays(n) = [year |-> year, month |-> month, day |-> day]
  BY <1>1, <1>3, <1>4, <1>5, SMT DEF DateOf
<1>7. n + 1 \in Nat /\ doy + 1 \in Int /\ mp + 1 \in Int /\ yoe + 1 \in Int /\ era + 1 \in Int
  BY SMT
<1>8. YearDay(yoe) \in Int
  <2>1. PICK q \in Int, e \in Int : InYear(yoe, q, e)
    BY YearDayType
  <2> QED BY <2>1 DEF InYear
<1>9. NextDay(CivilFromDays(n))
         = IF day < Length(year, month) THEN [year |-> year, month |-> month, day |-> day + 1]
           ELSE IF month < 12 THEN [year |-> year, month |-> month + 1, day |-> 1]
           ELSE [year |-> year + 1, month |-> 1, day |-> 1]
  BY <1>6, NextDayIs
<1>10. CASE mp =< 10 /\ 5 * (doy + 1) + 2 < 153 * (mp + 1)
  <2>1. doy + 1 =< 365 /\ doy + 1 # 365
    BY <1>2, <1>10, SMT
  <2>2. DayParts(n + 1, era, yoe, doy + 1, mp)
    BY <1>2, <1>8, <1>10, <2>1, SMT DEF DayParts
  <2>3. CivilFromDays(n + 1) = DateOf(era, yoe, doy + 1, mp)
    BY <1>7, <2>2, PartsAreTheDate
  <2>4. day < Length(year, month)
    <3>1. /\ MonthDay(mp) \in Int /\ MonthDay(mp + 1) \in Int
          /\ Length(year, month) = MonthDay(mp + 1) - MonthDay(mp)
      BY <1>2, <1>3, <1>10, MonthsLast, SMT
    <3>2. doy + 1 < MonthDay(mp + 1)
      BY <1>2, <1>7, <1>10, NextMonthAt, SMT
    <3> QED BY <1>5, <3>1, <3>2, SMT
  <2>5. DateOf(era, yoe, doy + 1, mp) = [year |-> year, month |-> month, day |-> day + 1]
    BY <1>2, <1>3, <1>4, <1>5, DayInMonth, SMT DEF DateOf
  <2> QED BY <1>9, <2>3, <2>4, <2>5
<1>11. CASE mp =< 10 /\ 5 * (doy + 1) + 2 >= 153 * (mp + 1)
  <2>1. doy + 1 =< 365 /\ (doy + 1 = 365 => FALSE)
    BY <1>2, <1>11, SMT
  <2>2. DayParts(n + 1, era, yoe, doy + 1, mp + 1)
    BY <1>2, <1>8, <1>11, <2>1, SMT DEF DayParts
  <2>3. CivilFromDays(n + 1) = DateOf(era, yoe, doy + 1, mp + 1)
    BY <1>7, <2>2, PartsAreTheDate
  <2>4. doy + 1 = MonthDay(mp + 1)
    BY <1>2, <1>7, <1>11, NextMonthAt, SMT
  <2>5. day = Length(year, month)
    <3>1. /\ MonthDay(mp) \in Int /\ MonthDay(mp + 1) \in Int
          /\ Length(year, month) = MonthDay(mp + 1) - MonthDay(mp)
      BY <1>2, <1>3, <1>11, MonthsLast, SMT
    <3> QED BY <1>5, <2>4, <3>1, SMT
  <2>6. DateOf(era, yoe, doy + 1, mp + 1)
          = IF month < 12 THEN [year |-> year, month |-> month + 1, day |-> 1]
            ELSE [year |-> year + 1, month |-> 1, day |-> 1]
    <3>1. ShiftedMonth(mp + 1) = IF month < 12 THEN month + 1 ELSE 1
      BY <1>2, <1>3, <1>11, SMT DEF ShiftedMonth
    <3>2. yoe + (era * 400) + (IF ShiftedMonth(mp + 1) =< 2 THEN 1 ELSE 0)
            = IF month < 12 THEN year ELSE year + 1
      BY <1>2, <1>3, <1>4, <1>11, <3>1, SMT DEF ShiftedMonth
    <3>3. ((doy + 1) - MonthDay(mp + 1)) + 1 = 1
      BY <2>4, <1>7, SMT
    <3>4. DateOf(era, yoe, doy + 1, mp + 1)
            = [year |-> yoe + (era * 400) + (IF ShiftedMonth(mp + 1) =< 2 THEN 1 ELSE 0),
               month |-> ShiftedMonth(mp + 1), day |-> ((doy + 1) - MonthDay(mp + 1)) + 1]
      BY DEF DateOf
    <3>5. CASE month < 12
      BY <3>1, <3>2, <3>3, <3>4, <3>5
    <3>6. CASE ~(month < 12)
      BY <3>1, <3>2, <3>3, <3>4, <3>6
    <3> QED BY <3>5, <3>6
  <2>7. ~(day < Length(year, month))
    BY <2>5, <1>5, SMT
  <2> QED BY <1>9, <2>3, <2>6, <2>7
<1>12. CASE mp = 11
  <2>1. month = 2 /\ MonthDay(mp) = 337 /\ year = yoe + (era * 400) + 1
    BY <1>3, <1>4, <1>12, SMT DEF ShiftedMonth, MonthDay
  <2>2. Length(year, month) = IF LongYear(yoe) THEN 29 ELSE 28
    BY <1>2, <2>1, FebruaryLasts, SMT DEF Length
  <2>3. day = doy - 336
    BY <1>5, <2>1, SMT
  <2>4. CASE day < Length(year, month)
    <3>1. doy + 1 =< 365 /\ (doy + 1 = 365 => LongYear(yoe))
      BY <1>2, <2>2, <2>3, <2>4, SMT
    <3>2. DayParts(n + 1, era, yoe, doy + 1, mp)
      BY <1>2, <1>8, <1>12, <3>1, SMT DEF DayParts
    <3>3. CivilFromDays(n + 1) = DateOf(era, yoe, doy + 1, mp)
      BY <1>7, <3>2, PartsAreTheDate
    <3>4. DateOf(era, yoe, doy + 1, mp) = [year |-> year, month |-> month, day |-> day + 1]
      BY <1>3, <1>4, <2>1, <2>3, SMT DEF DateOf
    <3> QED BY <1>9, <2>4, <3>3, <3>4
  <2>5. CASE ~(day < Length(year, month))
    <3>1. doy + 1 = IF LongYear(yoe) THEN 366 ELSE 365
      BY <1>2, <2>2, <2>3, <2>5, SMT
    <3>2. NextDay(CivilFromDays(n)) = [year |-> year, month |-> 3, day |-> 1]
      BY <1>9, <2>1, <2>5, SMT
    <3>3. ShiftedMonth(0) = 3 /\ MonthDay(0) = 0
      BY SMT DEF ShiftedMonth, MonthDay
    <3>4. CASE yoe < 399
      <4>1. YearDay(yoe + 1) = YearDay(yoe) + (IF LongYear(yoe) THEN 366 ELSE 365)
        BY <1>2, <3>4, YearsLast, SMT
      <4>2. DayParts(n + 1, era, yoe + 1, 0, 0)
        BY <1>2, <1>8, <3>1, <3>4, <4>1, SMT DEF DayParts
      <4>3. CivilFromDays(n + 1) = DateOf(era, yoe + 1, 0, 0)
        BY <1>7, <4>2, PartsAreTheDate, SMT
      <4>4. DateOf(era, yoe + 1, 0, 0) = [year |-> year, month |-> 3, day |-> 1]
        BY <2>1, <3>3, SMT DEF DateOf
      <4> QED BY <3>2, <4>3, <4>4
    <3>5. CASE yoe = 399
      <4>1. LongYear(yoe) /\ YearDay(yoe) + 366 = 146097 /\ YearDay(0) = 0
        BY <1>2, <3>5, YearsLast, SMT
      <4>2. DayParts(n + 1, era + 1, 0, 0, 0)
        BY <1>2, <1>8, <3>1, <4>1, SMT DEF DayParts
      <4>3. CivilFromDays(n + 1) = DateOf(era + 1, 0, 0, 0)
        BY <1>7, <4>2, PartsAreTheDate, SMT
      <4>4. DateOf(era + 1, 0, 0, 0) = [year |-> year, month |-> 3, day |-> 1]
        BY <2>1, <3>3, <3>5, SMT DEF DateOf
      <4> QED BY <3>2, <4>3, <4>4
    <3> QED BY <1>2, <3>4, <3>5, SMT
  <2> QED BY <2>4, <2>5
<1> QED BY <1>2, <1>10, <1>11, <1>12, SMT

(* The chip counts in decimal digits; the bits readUtc() masks are not theirs. *)
LEMMA Tens ==
    ASSUME NEW v \in Int, 0 =< v, v =< 99
    PROVE  \E a \in Int, b \in Int :
             /\ 0 =< a /\ a =< 9 /\ 0 =< b /\ b =< 9 /\ v = 10 * a + b
             /\ ToBcd(v) = 16 * a + b
BY SMT DEF ToBcd

LEMMA BcdBack ==
    ASSUME NEW v \in Int, 0 =< v, v =< 99
    PROVE  /\ FromBcd(ToBcd(v)) = v
           /\ v =< 79 => FromBcd(ToBcd(v) % 128) = v
           /\ v =< 39 => FromBcd(ToBcd(v) % 64) = v
           /\ v =< 19 => FromBcd(ToBcd(v) % 32) = v
<1>1. PICK a \in Int, b \in Int :
             /\ 0 =< a /\ a =< 9 /\ 0 =< b /\ b =< 9 /\ v = 10 * a + b
             /\ ToBcd(v) = 16 * a + b
  BY Tens, SMT
<1>2. FromBcd(16 * a + b) = v
  BY <1>1, SMT DEF FromBcd
<1>3. /\ v =< 79 => (16 * a + b) % 128 = 16 * a + b
      /\ v =< 39 => (16 * a + b) % 64 = 16 * a + b
      /\ v =< 19 => (16 * a + b) % 32 = 16 * a + b
  BY <1>1, SMT
<1> QED BY <1>1, <1>2, <1>3, SMT

(* The hour, the minute and the second of a day.                            *)
LEMMA DayTime ==
    ASSUME NEW s \in Int, 0 =< s, s =< 86399
    PROVE  /\ 0 =< s % 60 /\ s % 60 =< 59 /\ s % 60 \in Int
           /\ 0 =< (s \div 60) % 60 /\ (s \div 60) % 60 =< 59 /\ (s \div 60) % 60 \in Int
           /\ 0 =< s \div 3600 /\ s \div 3600 =< 23 /\ s \div 3600 \in Int
           /\ ((s \div 3600) * 3600) + (((s \div 60) % 60) * 60) + (s % 60) = s
BY SMTT(30)

(* Whatever second of whatever day writeUtc() accepts, readUtc() finds the  *)
(* registers plausible and reads the same second (rv3028.cpp:174-250).      *)
THEOREM ChipKeepsTime ==
    ASSUME NEW n \in Nat, NEW s \in Int, 0 =< s, s < 86400, Representable(n)
    PROVE  LET r == Registers(n, s) IN Plausible(r) /\ DaysOf(r) = n /\ SecondsOf(r) = s
<1> DEFINE r == Registers(n, s)
           d == CivilFromDays(n)
<1>1. /\ d.year \in Int /\ d.month \in Month /\ d.day \in 1..31
      /\ DaysFromCivil(d.year, d.month, d.day) = n
  BY DateRoundTrip, SMT
<1>2. d.year \in 2000..2099
  BY DEF Representable
<1> HIDE DEF d
<1>3. PICK year \in Int : year = d.year /\ 2000 =< year /\ year =< 2099
  BY ONLY <1>1, <1>2, SMT
<1>4. PICK month \in Int : month = d.month /\ 1 =< month /\ month =< 12
  BY ONLY <1>1, SMT DEF Month
<1>5. PICK day \in Int : day = d.day /\ 1 =< day /\ day =< 31
  BY ONLY <1>1, SMT
<1>6. DaysFromCivil(year, month, day) = n
  BY ONLY <1>1, <1>3, <1>4, <1>5, SMT
<1>7. PICK sec \in Int, min \in Int, hour \in Int :
         /\ 0 =< sec /\ sec =< 59 /\ 0 =< min /\ min =< 59 /\ 0 =< hour /\ hour =< 23
         /\ sec = s % 60 /\ min = (s \div 60) % 60 /\ hour = s \div 3600
         /\ (hour * 3600) + (min * 60) + sec = s
  BY DayTime, SMT
<1>8. /\ r.second = ToBcd(sec) /\ r.minute = ToBcd(min) /\ r.hour = ToBcd(hour)
      /\ r.day = ToBcd(day) /\ r.month = ToBcd(month) /\ r.year = ToBcd(year - 2000)
  BY <1>7, <1>3, <1>4, <1>5, SMT DEF Registers, d
<1> HIDE DEF r
<1>9. /\ FromBcd(r.second % 128) = sec /\ FromBcd(r.minute % 128) = min
      /\ FromBcd(r.hour % 64) = hour
  BY <1>7, <1>8, BcdBack, SMT
<1>10. /\ FromBcd(r.day % 64) = day /\ FromBcd(r.month % 32) = month
      /\ 2000 + FromBcd(r.year) = year
  BY <1>8, <1>3, <1>4, <1>5, BcdBack, SMT
<1>11. Plausible(r)
  BY <1>7, <1>9, <1>10, <1>4, <1>5, SMT DEF Plausible, Month
<1>12. DaysOf(r) = n
  BY <1>10, <1>6, SMT DEF DaysOf
<1>13. SecondsOf(r) = s
  BY <1>7, <1>9, SMT DEF SecondsOf
<1> QED BY <1>11, <1>12, <1>13, SMT DEF r
==============================================================================
