-------------------------- MODULE NetManagerProofs --------------------------
(* Proofs about NetManager, and about Device around it: for every value of  *)
(* the timers, any number of requests and power cuts, and any behaviour of  *)
(* wire and air.                                                            *)
EXTENDS Device, TLAPS

(* The members as one set of records.                                       *)
Rams ==
  [wifi : BOOLEAN, fallback : BOOLEAN, eth : BOOLEAN, ap : BOOLEAN,
   station : BOOLEAN, claimed : BOOLEAN, wasUp : BOOLEAN, retried : BOOLEAN,
   wasOnline : BOOLEAN, reboot : BOOLEAN, erase : BOOLEAN,
   rebootAge : 0..RebootDelay, switch : Ages(SwitchGrace),
   agree : Ages(EthStable), down : Ages(WatchdogGrace), kick : Ages(WatchdogRetry)]

Times ==
  /\ {RebootDelay, EthStable, RetryAfter, ProvenAfter, WatchdogGrace,
      WatchdogRetry, SwitchGrace, Window} \subseteq Nat \ {0}
  /\ ProvenAfter =< SwitchGrace /\ SwitchGrace =< Window

(* What the supervision of a pass leaves alone.                             *)
SameButSupervision(m, n) ==
  /\ n.eth = m.eth /\ n.ap = m.ap /\ n.erase = m.erase
  /\ n.fallback = m.fallback /\ n.claimed = m.claimed /\ n.wasUp = m.wasUp

(* What it may do: stay, start over, run on, or ask for the restart.        *)
SupervisionSteps(m, n) ==
  /\ m.reboot => n = m
  /\ n.switch \in {m.switch, Unset, 0}
  /\ n.switch = 0 => m.switch \in {0, Unset}
  /\ n.switch # Unset /\ m.switch = Unset => m.fallback /\ active # m.eth
  /\ n.reboot /\ ~m.reboot =>
       /\ m.switch >= SwitchGrace /\ n.switch = m.switch
       /\ active # m.eth /\ (active \/ nvs.creds)

LEMMA TimesPositive == Times
BY TimesAssumption DEF Times

LEMMA FreshTyped == Fresh \in Rams
BY TimesPositive DEF Times, Fresh, Rams, Ages, Unset

(* The ages of a record of members, and a change of one.                    *)
LEMMA AgesOf ==
  ASSUME NEW m \in Rams
  PROVE  /\ m.switch \in Ages(SwitchGrace) /\ m.agree \in Ages(EthStable)
         /\ m.down \in Ages(WatchdogGrace) /\ m.kick \in Ages(WatchdogRetry)
         /\ m.rebootAge \in 0..RebootDelay
BY DEF Rams

LEMMA AgreeSet ==
  ASSUME NEW m \in Rams, NEW a \in Ages(EthStable),
         NEW n, n = [m EXCEPT !.agree = a]
  PROVE  /\ n \in Rams /\ SameButSupervision(m, n)
         /\ n.switch = m.switch /\ n.agree = a /\ n.reboot = m.reboot
BY DEF Rams, SameButSupervision

LEMMA SwitchSet ==
  ASSUME NEW m \in Rams, NEW s \in Ages(SwitchGrace),
         NEW n, n = [m EXCEPT !.switch = s]
  PROVE  /\ n \in Rams /\ SameButSupervision(m, n)
         /\ n.switch = s /\ n.agree = m.agree /\ n.reboot = m.reboot
BY DEF Rams, SameButSupervision

LEMMA RequestSet ==
  ASSUME NEW m \in Rams
  PROVE  /\ Requested(m) \in Rams /\ SameButSupervision(m, Requested(m))
         /\ Requested(m).switch = m.switch /\ Requested(m).agree = m.agree
         /\ Requested(m).reboot
<1>1. 0 \in 0..RebootDelay
  BY TimesPositive DEF Times
<1>2. QED
  BY <1>1 DEF Rams, SameButSupervision, Requested

LEMMA AgreeingSteps ==
  ASSUME NEW m \in Rams, ~m.reboot
  PROVE  /\ Agreeing(m) \in Rams
         /\ SameButSupervision(m, Agreeing(m))
         /\ SupervisionSteps(m, Agreeing(m))
         /\ m.eth /\ Agreeing(m).switch # Unset =>
              /\ Agreeing(m).agree < EthStable
              /\ Agreeing(m).agree = IF m.agree = Unset THEN 0 ELSE m.agree
<1> DEFINE agreeing == IF m.agree = Unset THEN 0 ELSE m.agree
<1>1. agreeing \in Ages(EthStable) /\ Unset \in Ages(EthStable) /\ Unset \in Ages(SwitchGrace)
  BY AgesOf, TimesPositive DEF Times, Ages, Unset
<1> HIDE DEF agreeing
<1>2. CASE m.switch = Unset
  BY <1>2 DEF Agreeing, SameButSupervision, SupervisionSteps
<1>3. CASE m.switch # Unset /\ m.eth /\ agreeing < EthStable
  <2>1. Agreeing(m) = [m EXCEPT !.agree = agreeing]
    BY <1>3 DEF Agreeing, agreeing
  <2>2. /\ Agreeing(m) \in Rams /\ SameButSupervision(m, Agreeing(m))
        /\ Agreeing(m).switch = m.switch /\ Agreeing(m).agree = agreeing
        /\ Agreeing(m).reboot = m.reboot
    BY <1>1, <2>1, AgreeSet
  <2>3. SupervisionSteps(m, Agreeing(m))
    BY <1>3, <2>2 DEF SupervisionSteps
  <2>4. QED
    BY <1>3, <2>2, <2>3 DEF agreeing
<1>4. CASE m.switch # Unset /\ ~(m.eth /\ agreeing < EthStable)
  <2>1. Agreeing(m) = [m EXCEPT !.switch = Unset, !.agree = Unset]
    BY <1>4 DEF Agreeing, agreeing
  <2>2. /\ Agreeing(m) \in Rams /\ SameButSupervision(m, Agreeing(m))
        /\ Agreeing(m).switch = Unset /\ Agreeing(m).reboot = m.reboot
    <3>1. Agreeing(m) \in Rams /\ SameButSupervision(m, Agreeing(m))
      BY <1>1, <2>1 DEF Rams, SameButSupervision
    <3>2. Agreeing(m).switch = Unset /\ Agreeing(m).reboot = m.reboot
      BY <2>1 DEF Rams
    <3>3. QED
      BY <3>1, <3>2
  <2>3. SupervisionSteps(m, Agreeing(m))
    BY <2>2 DEF SupervisionSteps, Unset
  <2>4. QED
    BY <2>2, <2>3
<1>5. QED
  BY <1>2, <1>3, <1>4

LEMMA DisagreeingSteps ==
  ASSUME NEW m \in Rams, ~m.reboot, m.fallback, active # m.eth
  PROVE  /\ Disagreeing(m) \in Rams
         /\ SameButSupervision(m, Disagreeing(m))
         /\ SupervisionSteps(m, Disagreeing(m))
         /\ Disagreeing(m).agree = Unset
<1> DEFINE d == [m EXCEPT !.agree = Unset]
<1>1. /\ Unset \in Ages(EthStable) /\ Unset \in Ages(SwitchGrace) /\ 0 \in Ages(SwitchGrace)
      /\ m.switch \in Ages(SwitchGrace)
  BY AgesOf, TimesPositive DEF Times, Ages, Unset
<1>2. /\ d \in Rams /\ SameButSupervision(m, d)
      /\ d.switch = m.switch /\ d.agree = Unset /\ d.reboot = m.reboot
  BY <1>1, AgreeSet
<1>3. Disagreeing(m) = IF ~MayGo THEN [d EXCEPT !.switch = Unset]
                       ELSE IF d.switch = Unset THEN [d EXCEPT !.switch = 0]
                       ELSE IF GraceOver(d.switch) THEN Requested(d)
                       ELSE d
  BY DEF Disagreeing
<1> HIDE DEF d
<1>4. CASE ~MayGo
  <2>1. Disagreeing(m) = [d EXCEPT !.switch = Unset]
    BY <1>3, <1>4
  <2>2. /\ Disagreeing(m) \in Rams /\ SameButSupervision(d, Disagreeing(m))
        /\ Disagreeing(m).switch = Unset /\ Disagreeing(m).agree = d.agree
        /\ Disagreeing(m).reboot = d.reboot
    BY <1>1, <1>2, <2>1, SwitchSet
  <2>3. QED
    BY <1>2, <2>2 DEF SameButSupervision, SupervisionSteps, Unset
<1>5. CASE MayGo /\ d.switch = Unset
  <2>1. Disagreeing(m) = [d EXCEPT !.switch = 0]
    BY <1>3, <1>5
  <2>2. /\ Disagreeing(m) \in Rams /\ SameButSupervision(d, Disagreeing(m))
        /\ Disagreeing(m).switch = 0 /\ Disagreeing(m).agree = d.agree
        /\ Disagreeing(m).reboot = d.reboot
    BY <1>1, <1>2, <2>1, SwitchSet
  <2>3. QED
    BY <1>2, <1>5, <2>2 DEF SameButSupervision, SupervisionSteps, Unset
<1>6. CASE MayGo /\ d.switch # Unset /\ GraceOver(d.switch)
  BY <1>1, <1>2, <1>3, <1>6, RequestSet, ZenonT(30)
     DEF SameButSupervision, SupervisionSteps, GraceOver, MayGo
<1>7. CASE MayGo /\ d.switch # Unset /\ ~GraceOver(d.switch)
  BY <1>1, <1>2, <1>3, <1>7 DEF SameButSupervision, SupervisionSteps, Unset
<1>8. QED
  BY <1>4, <1>5, <1>6, <1>7

(* How long a wire that is back has been believed, on Ethernet.             *)
WireCounts(m, n) ==
  (m.eth /\ ~m.ap /\ m.fallback /\ fitted = "works" /\ ~n.reboot /\ n.switch # Unset) =>
    IF wire THEN n.agree < EthStable /\ n.agree = IF m.agree = Unset THEN 0 ELSE m.agree
    ELSE n.agree = Unset

LEMMA SupervisedSteps ==
  ASSUME NEW m \in Rams, wire \in BOOLEAN
  PROVE  /\ Supervised(m) \in Rams
         /\ SameButSupervision(m, Supervised(m))
         /\ SupervisionSteps(m, Supervised(m))
         /\ WireCounts(m, Supervised(m))
<1>1. m.reboot \in BOOLEAN /\ m.ap \in BOOLEAN /\ m.eth \in BOOLEAN /\ m.fallback \in BOOLEAN
  BY DEF Rams
<1>2. CASE m.reboot \/ m.ap \/ ~m.fallback \/ ~chipPresent
  <2>1. Supervised(m) = m
    BY <1>2 DEF Supervised
  <2>2. WireCounts(m, m)
    BY <1>1, <1>2 DEF WireCounts, chipPresent
  <2>3. QED
    BY <2>1, <2>2 DEF SameButSupervision, SupervisionSteps
<1>3. CASE ~m.reboot /\ m.fallback /\ active = m.eth /\ Supervised(m) = Agreeing(m)
  <2>1. WireCounts(m, Agreeing(m))
    BY <1>1, <1>3, AgreeingSteps DEF WireCounts, active
  <2>2. QED
    BY <1>3, <2>1, AgreeingSteps
<1>4. CASE ~m.reboot /\ m.fallback /\ active # m.eth /\ Supervised(m) = Disagreeing(m)
  <2>1. WireCounts(m, Disagreeing(m))
    BY <1>1, <1>4, DisagreeingSteps DEF WireCounts, active
  <2>2. QED
    BY <1>4, <2>1, DisagreeingSteps
<1>5. QED
  BY <1>1, <1>2, <1>3, <1>4 DEF Supervised

(* The watch on the Ethernet link and the one on WiFi touch no timer of it. *)
Claims(m) == m.eth /\ m.wasUp => m.claimed
SameTimers(m, n) ==
  /\ n.eth = m.eth /\ n.ap = m.ap /\ n.erase = m.erase /\ n.fallback = m.fallback
  /\ n.reboot = m.reboot /\ n.switch = m.switch /\ n.agree = m.agree

LEMMA EthWatchedSteps ==
  ASSUME NEW m \in Rams, wire \in BOOLEAN
  PROVE  /\ EthWatched(m) \in Rams
         /\ SameTimers(m, EthWatched(m))
         /\ Claims(m) => Claims(EthWatched(m))
<1>1. CASE fitted # "works" \/ wire = m.wasUp
  BY <1>1 DEF EthWatched, SameTimers
<1>2. CASE ~(fitted # "works" \/ wire = m.wasUp)
  <2> DEFINE up == wire
             claim == m.claimed \/ (wire /\ m.eth)
             n == [m EXCEPT !.wasUp = up, !.claimed = claim]
  <2>1. EthWatched(m) = n
    BY <1>2 DEF EthWatched
  <2>2. up \in BOOLEAN /\ claim \in BOOLEAN
    BY DEF Rams
  <2>3. (m.eth /\ up) => claim
    OBVIOUS
  <2> HIDE DEF up, claim
  <2>4. n \in Rams /\ SameTimers(m, n) /\ n.wasUp = up /\ n.claimed = claim
    BY <2>2 DEF Rams, SameTimers
  <2>5. QED
    BY <2>1, <2>3, <2>4 DEF Claims, SameTimers
<1>3. QED
  BY <1>1, <1>2

LEMMA WatchedSteps ==
  ASSUME NEW m \in Rams
  PROVE  /\ Watched(m) \in Rams
         /\ SameTimers(m, Watched(m))
         /\ Claims(m) => Claims(Watched(m))
<1> DEFINE online == m.station /\ air
           armed == IF online /\ ~m.wasOnline
                    THEN [m EXCEPT !.wasOnline = TRUE, !.down = Unset, !.kick = Unset]
                    ELSE IF ~online /\ (m.wasOnline \/ m.down = Unset)
                    THEN [m EXCEPT !.wasOnline = FALSE, !.down = 0]
                    ELSE m
           kicked == [armed EXCEPT !.kick = 0]
<1>1. /\ Unset \in Ages(WatchdogGrace) /\ Unset \in Ages(WatchdogRetry)
      /\ 0 \in Ages(WatchdogGrace) /\ 0 \in Ages(WatchdogRetry)
  BY TimesPositive DEF Times, Ages, Unset
<1>2. /\ armed \in Rams /\ SameTimers(m, armed)
      /\ armed.claimed = m.claimed /\ armed.wasUp = m.wasUp
  <2>1. CASE online /\ ~m.wasOnline
    BY <1>1, <2>1 DEF Rams, SameTimers
  <2>2. CASE ~online /\ (m.wasOnline \/ m.down = Unset)
    BY <1>1, <2>2 DEF Rams, SameTimers
  <2>3. CASE ~(online /\ ~m.wasOnline) /\ ~(~online /\ (m.wasOnline \/ m.down = Unset))
    BY <2>3 DEF SameTimers
  <2>4. QED
    BY <2>1, <2>2, <2>3
<1>3. Watched(m) \in {m, armed, kicked}
  BY DEF Watched
<1> HIDE DEF armed
<1>4. /\ kicked \in Rams /\ SameTimers(armed, kicked)
      /\ kicked.claimed = armed.claimed /\ kicked.wasUp = armed.wasUp
  BY <1>1, <1>2 DEF Rams, SameTimers
<1> HIDE DEF kicked
<1>5. QED
  BY <1>2, <1>3, <1>4 DEF SameTimers, Claims

(* A whole pass.                                                            *)
PassSteps(m, n) ==
  /\ n \in Rams
  /\ n.eth = m.eth /\ n.ap = m.ap /\ n.erase = m.erase /\ n.fallback = m.fallback
  /\ Claims(m) => Claims(n)
  /\ m.reboot => n.reboot
  /\ n.switch \in {m.switch, Unset, 0}
  /\ n.switch # Unset /\ m.switch = Unset => m.fallback /\ active # m.eth
  /\ n.reboot /\ ~m.reboot =>
       /\ m.switch >= SwitchGrace /\ n.switch = m.switch
       /\ active # m.eth /\ (active \/ nvs.creds)
  /\ WireCounts(m, n)

LEMMA PassedSteps ==
  ASSUME NEW m \in Rams, wire \in BOOLEAN
  PROVE  PassSteps(m, Passed(EthWatched(m)))
<1> DEFINE e == EthWatched(m)
           w == Watched(e)
<1>1. e \in Rams /\ SameTimers(m, e) /\ (Claims(m) => Claims(e))
  BY EthWatchedSteps
<1> HIDE DEF e
<1>2. e.eth \in BOOLEAN /\ e.ap \in BOOLEAN
  BY <1>1 DEF Rams
<1>3. w \in Rams /\ SameTimers(e, w) /\ (Claims(e) => Claims(w))
  BY <1>1, WatchedSteps
<1> HIDE DEF w
<1>4. CASE e.eth
  <2>1. Passed(e) = Supervised(e)
    BY <1>4 DEF Passed
  <2>2. QED
    BY <1>1, <2>1, SupervisedSteps
       DEF PassSteps, SameTimers, SameButSupervision, SupervisionSteps, Claims, WireCounts, e
<1>5. CASE ~e.eth /\ e.ap
  <2>1. Passed(e) = e
    BY <1>5 DEF Passed
  <2>2. QED
    BY <1>1, <1>5, <2>1 DEF PassSteps, SameTimers, Claims, WireCounts, e
<1>6. CASE ~e.eth /\ ~e.ap
  <2>1. Passed(e) = Supervised(w)
    BY <1>6 DEF Passed, w
  <2>2. QED
    BY <1>1, <1>3, <1>6, <2>1, SupervisedSteps
       DEF PassSteps, SameTimers, SameButSupervision, SupervisionSteps, Claims, WireCounts, e
<1>7. QED
  BY <1>2, <1>4, <1>5, <1>6
----------------------------------------------------------------------------
(* The members with flags set one after the other are members still.        *)
LEMMA SwitchesSet ==
  ASSUME NEW r \in Rams, NEW up \in BOOLEAN, NEW wifi \in BOOLEAN, NEW fallback \in BOOLEAN
  PROVE  [r EXCEPT !.claimed = up, !.wasUp = up, !.wifi = wifi, !.fallback = fallback] \in Rams
<1>1. PICK a \in Rams : a = [r EXCEPT !.claimed = up]
  BY DEF Rams
<1>2. PICK c \in Rams : c = [a EXCEPT !.wasUp = up]
  BY DEF Rams
<1>3. PICK d \in Rams : d = [c EXCEPT !.wifi = wifi]
  BY DEF Rams
<1>4. PICK e \in Rams : e = [d EXCEPT !.fallback = fallback]
  BY DEF Rams
<1>5. e = [r EXCEPT !.claimed = up, !.wasUp = up, !.wifi = wifi, !.fallback = fallback]
  BY <1>1, <1>2, <1>3, <1>4
<1>6. QED
  BY <1>4, <1>5

(* What a start, a request and a tick make of the members.                  *)
LEMMA BeginSteps ==
  ASSUME NEW comesUp \in BOOLEAN, NEW waited \in BOOLEAN,
         nvs \in Settings, wire \in BOOLEAN, NEW n,
         n = Chosen([Awaited(waited) EXCEPT !.wifi = HealedWifi,
                                            !.fallback = HealedFallback], comesUp)
  PROVE  /\ n \in Rams /\ n.switch = Unset /\ ~n.reboot /\ ~n.erase
         /\ n.claimed = n.wasUp
         /\ n.eth => active /\ ~n.ap
         /\ n.ap => ~nvs.creds
<1> DEFINE b == [Awaited(waited) EXCEPT !.wifi = HealedWifi, !.fallback = HealedFallback]
<1>1. /\ (active /\ waited) \in BOOLEAN
      /\ HealedWifi \in BOOLEAN /\ HealedFallback \in BOOLEAN
  BY DEF HealedWifi, HealedFallback, Settings, active
<1>2. b = [Fresh EXCEPT !.claimed = active /\ waited, !.wasUp = active /\ waited,
                        !.wifi = HealedWifi, !.fallback = HealedFallback]
  BY DEF Awaited, Fresh
<1>3. /\ b \in Rams /\ b.switch = Unset /\ b.reboot = FALSE /\ b.erase = FALSE
      /\ b.claimed = b.wasUp /\ b.eth = FALSE /\ b.ap = FALSE
  <2> DEFINE up == active /\ waited
             wifi == HealedWifi
             fallback == HealedFallback
  <2>1. up \in BOOLEAN /\ wifi \in BOOLEAN /\ fallback \in BOOLEAN
    BY <1>1
  <2>2. b = [Fresh EXCEPT !.claimed = up, !.wasUp = up, !.wifi = wifi, !.fallback = fallback]
    BY <1>2
  <2> HIDE DEF up, wifi, fallback, b
  <2>3. /\ Fresh.switch = Unset /\ Fresh.reboot = FALSE /\ Fresh.erase = FALSE
        /\ Fresh.eth = FALSE /\ Fresh.ap = FALSE
    BY DEF Fresh
  <2>4. b \in Rams
    BY <2>1, <2>2, FreshTyped, SwitchesSet
  <2>5. /\ b.switch = Fresh.switch /\ b.reboot = Fresh.reboot /\ b.erase = Fresh.erase
        /\ b.eth = Fresh.eth /\ b.ap = Fresh.ap
    BY <2>2, FreshTyped DEF Rams
  <2>6. b.claimed = up /\ b.wasUp = up
    BY <2>2, FreshTyped DEF Rams
  <2>7. QED
    BY <2>3, <2>4, <2>5, <2>6
<1> HIDE DEF b
<1>4. n = Chosen(b, comesUp)
  BY DEF b
<1>5. \/ active /\ n = OnEthernet(b)
      \/ n = b
      \/ n = OnStation(b)
      \/ ~nvs.creds /\ n = OnAccessPoint(b, comesUp)
  BY <1>4 DEF Chosen
<1>6. /\ OnEthernet(b) \in Rams /\ OnStation(b) \in Rams /\ OnAccessPoint(b, comesUp) \in Rams
  BY <1>3 DEF Rams, OnEthernet, OnStation, OnAccessPoint
<1>7. \A k \in {OnEthernet(b), OnStation(b), OnAccessPoint(b, comesUp)} :
        /\ k.switch = b.switch /\ k.reboot = b.reboot /\ k.erase = b.erase
        /\ k.claimed = b.claimed /\ k.wasUp = b.wasUp
  BY <1>3 DEF Rams, OnEthernet, OnStation, OnAccessPoint
<1>8. /\ OnEthernet(b).ap = b.ap /\ OnStation(b).ap = b.ap
      /\ OnStation(b).eth = b.eth /\ OnAccessPoint(b, comesUp).eth = b.eth
  BY <1>3 DEF Rams, OnEthernet, OnStation, OnAccessPoint
<1>9. QED
  BY <1>3, <1>5, <1>6, <1>7, <1>8

(* The access point and the wait for the station.                           *)
LEMMA AccessPointSteps ==
  ASSUME NEW m \in Rams, NEW comesUp \in BOOLEAN
  PROVE  LET n == OnAccessPoint(m, comesUp) IN
         /\ n \in Rams /\ n.eth = m.eth /\ n.erase = m.erase /\ n.fallback = m.fallback
         /\ n.reboot = m.reboot /\ n.switch = m.switch /\ n.agree = m.agree
         /\ n.claimed = m.claimed /\ n.wasUp = m.wasUp
BY DEF Rams, OnAccessPoint

LEMMA WaitOverSteps ==
  ASSUME NEW m \in Rams, NEW n, n = [m EXCEPT !.ap = FALSE, !.wasOnline = TRUE]
  PROVE  /\ n \in Rams /\ n.eth = m.eth /\ n.erase = m.erase /\ n.fallback = m.fallback
         /\ n.reboot = m.reboot /\ n.switch = m.switch /\ n.agree = m.agree
         /\ n.claimed = m.claimed /\ n.wasUp = m.wasUp
BY DEF Rams

LEMMA RetrySteps ==
  ASSUME NEW m \in Rams, NEW s \in BOOLEAN,
         NEW n, n = [m EXCEPT !.retried = TRUE, !.station = s]
  PROVE  /\ n \in Rams /\ n.eth = m.eth /\ n.erase = m.erase /\ n.fallback = m.fallback
         /\ n.reboot = m.reboot /\ n.switch = m.switch /\ n.agree = m.agree
         /\ n.claimed = m.claimed /\ n.wasUp = m.wasUp
BY DEF Rams

LEMMA FlagsSet ==
  ASSUME NEW m \in Rams, NEW v \in BOOLEAN
  PROVE  /\ [m EXCEPT !.wifi = v] \in Rams /\ SameTimers(m, [m EXCEPT !.wifi = v])
         /\ Claims(m) => Claims([m EXCEPT !.wifi = v])
         /\ [m EXCEPT !.erase = v] \in Rams
         /\ [m EXCEPT !.erase = v].eth = m.eth /\ [m EXCEPT !.erase = v].ap = m.ap
         /\ [m EXCEPT !.erase = v].switch = m.switch
         /\ Claims(m) => Claims([m EXCEPT !.erase = v])
<1>1. [m EXCEPT !.wifi = v] \in Rams /\ [m EXCEPT !.erase = v] \in Rams
  BY DEF Rams
<1>2. /\ SameTimers(m, [m EXCEPT !.wifi = v])
      /\ Claims(m) => Claims([m EXCEPT !.wifi = v])
  BY DEF Rams, SameTimers, Claims
<1>3. /\ [m EXCEPT !.erase = v].eth = m.eth /\ [m EXCEPT !.erase = v].ap = m.ap
      /\ [m EXCEPT !.erase = v].switch = m.switch
      /\ Claims(m) => Claims([m EXCEPT !.erase = v])
  BY DEF Rams, Claims
<1>4. QED
  BY <1>1, <1>2, <1>3

LEMMA OlderSteps ==
  ASSUME NEW cap \in Nat, NEW age \in Ages(cap)
  PROVE  /\ Older(age, cap) \in Ages(cap)
         /\ Older(age, cap) = IF age \in {Unset, cap} THEN age ELSE age + 1
BY DEF Older, Ages, Unset

LEMMA AgedSteps ==
  ASSUME NEW m \in Rams
  PROVE  /\ Aged(m) \in Rams
         /\ Aged(m).eth = m.eth /\ Aged(m).ap = m.ap /\ Aged(m).erase = m.erase
         /\ Aged(m).fallback = m.fallback /\ Aged(m).reboot = m.reboot
         /\ Aged(m).switch = Older(m.switch, SwitchGrace)
         /\ Aged(m).agree = Older(m.agree, EthStable)
         /\ Claims(m) => Claims(Aged(m))
<1> DEFINE r == IF m.reboot THEN Older(m.rebootAge, RebootDelay) ELSE 0
           s == Older(m.switch, SwitchGrace)
           a == Older(m.agree, EthStable)
           d == Older(m.down, WatchdogGrace)
           k == Older(m.kick, WatchdogRetry)
<1>1. /\ s \in Ages(SwitchGrace) /\ a \in Ages(EthStable)
      /\ d \in Ages(WatchdogGrace) /\ k \in Ages(WatchdogRetry)
  BY AgesOf, OlderSteps, TimesPositive DEF Times
<1>2. r \in 0..RebootDelay
  BY AgesOf, TimesPositive DEF Times, Older, Unset
<1>3. Aged(m) = [m EXCEPT !.rebootAge = r, !.switch = s, !.agree = a, !.down = d, !.kick = k]
  BY DEF Aged
<1> HIDE DEF r, s, a, d, k
<1>4. Aged(m) \in Rams
  BY <1>1, <1>2, <1>3 DEF Rams
<1>5. /\ Aged(m).eth = m.eth /\ Aged(m).ap = m.ap /\ Aged(m).erase = m.erase
      /\ Aged(m).fallback = m.fallback /\ Aged(m).reboot = m.reboot
      /\ Aged(m).switch = s /\ Aged(m).agree = a
      /\ Aged(m).claimed = m.claimed /\ Aged(m).wasUp = m.wasUp
  BY <1>3 DEF Rams
<1>6. QED
  BY <1>4, <1>5 DEF s, a, Claims
----------------------------------------------------------------------------
(* The inductive invariant. The failover's timer is never older than the    *)
(* start, nor, on Ethernet, than the time without a steady wire: the time   *)
(* for which a returned wire has been believed keeps up with upFor.         *)
Typed ==
  /\ wire \in BOOLEAN /\ air \in BOOLEAN /\ passed \in BOOLEAN /\ proven \in BOOLEAN
  /\ watched \in BOOLEAN /\ fitted \in {"none", "mute", "works"}
  /\ nvs \in Settings /\ phase \in {"off", "wait", "run"} /\ ram \in Rams
  /\ uptime \in 0..Window /\ by \in {"nobody", "user", "away", "back"}
  /\ upFor \in 0..Steady /\ away \in 0..SwitchGrace /\ outside \in 0..MaxOutside
Young == ram.switch =< uptime
Mode == ram.eth => phase = "run" /\ ~ram.ap /\ fitted = "works"
Earned == by \in {"away", "back"} /\ ram.reboot => proven
Stationed == by = "away" => nvs.creds
Erases == ram.erase => ram.reboot /\ by = "user"
NoWire == ~wire => upFor = 0
Counted ==
  ram.eth /\ ~ram.reboot /\ watched /\ ram.switch # Unset =>
    /\ ram.fallback /\ ram.switch =< away
    /\ passed => ram.agree < EthStable /\ upFor =< ram.agree + 1
    /\ ~passed => upFor =< (IF ram.agree = Unset THEN 1 ELSE ram.agree + 1)
NetInv ==
  Typed /\ Young /\ Mode /\ Earned /\ Stationed /\ Erases /\ NoWire /\ Counted /\ Claims(ram)

(* The same facts about the members after a step.                           *)
LEMMA Ranges ==
  ASSUME NEW m \in Rams
  PROVE  /\ m.switch \in Int /\ -1 =< m.switch /\ m.switch =< SwitchGrace
         /\ m.agree \in Int /\ -1 =< m.agree /\ m.agree =< EthStable
         /\ SwitchGrace \in Nat /\ EthStable \in Nat /\ Window \in Nat
         /\ ProvenAfter \in Nat /\ EthStable > 0 /\ SwitchGrace > 0
         /\ ProvenAfter =< SwitchGrace /\ SwitchGrace =< Window /\ RebootDelay \in Nat
BY AgesOf, TimesPositive DEF Ages, Unset, Times

LEMMA InitInv == NetInit => NetInv
<1> SUFFICES ASSUME NetInit PROVE NetInv
  OBVIOUS
<1>1. /\ Fresh.switch = Unset /\ Fresh.reboot = FALSE /\ Fresh.eth = FALSE
      /\ Fresh.erase = FALSE /\ Fresh \in Rams
  BY FreshTyped DEF Fresh
<1>2. Typed
  <2>1. uptime \in 0..Window /\ upFor \in 0..Steady /\ away \in 0..SwitchGrace
    BY TimesPositive DEF NetInit, Times, Steady
  <2>2. outside \in 0..MaxOutside
    BY TimesAssumption DEF NetInit
  <2>3. QED
    BY <1>1, <2>1, <2>2 DEF NetInit, Typed
<1>3. Young
  BY <1>1 DEF NetInit, Young, Unset
<1>4. QED
  BY <1>1, <1>2, <1>3
     DEF NetInit, NetInv, Mode, Earned, Stationed, Erases, NoWire, Counted, Claims

(* Restart and power cut leave fresh members.                               *)
LEMMA OffKeeps ==
  ASSUME NetInv, Off, wire' = wire, air' = air, upFor' = upFor, away' = away,
         watched' = watched, fitted' \in {"none", "mute", "works"}, nvs' \in Settings,
         by' \in {"nobody", "user", "away", "back"}, outside' \in 0..MaxOutside,
         by' = "away" => nvs'.creds
  PROVE  NetInv'
<1>1. /\ Fresh.switch = Unset /\ Fresh.reboot = FALSE /\ Fresh.eth = FALSE
      /\ Fresh.erase = FALSE /\ Fresh \in Rams
  BY FreshTyped DEF Fresh
<1>2. Typed'
  <2>1. uptime' \in 0..Window
    BY TimesPositive DEF Off, Times
  <2>2. QED
    BY <1>1, <2>1 DEF NetInv, Typed, Off
<1>3. Young'
  BY <1>1 DEF Off, Young, Unset
<1>4. QED
  BY <1>1, <1>2, <1>3
     DEF Off, NetInv, Mode, Earned, Stationed, Erases, NoWire, Counted, Claims

LEMMA RestartKeeps == NetInv /\ Restart => NetInv'
<1> SUFFICES ASSUME NetInv, Restart PROVE NetInv'
  OBVIOUS
<1>1. nvs' \in Settings
  BY DEF NetInv, Typed, Restart, Settings, NvsDefaults
<1>2. by' = "away" => nvs'.creds
  BY DEF NetInv, Stationed, Erases, Restart
<1>3. QED
  BY <1>1, <1>2, OffKeeps DEF Restart, NetInv, Typed

LEMMA PowerCutKeeps == NetInv /\ PowerCut => NetInv'
<1> SUFFICES ASSUME NetInv, PowerCut PROVE NetInv'
  OBVIOUS
<1>1. nvs' \in Settings
  <2>1. NvsDefaults \in Settings
    BY DEF NvsDefaults, Settings
  <2>2. QED
    BY <2>1 DEF NetInv, Typed, PowerCut
<1>2. outside' \in 0..MaxOutside
  BY TimesAssumption DEF NetInv, Typed, PowerCut, Outside
<1>3. fitted' \in {"none", "mute", "works"}
  BY DEF NetInv, Typed, PowerCut
<1>4. QED
  BY <1>1, <1>2, <1>3, OffKeeps DEF PowerCut

LEMMA BeginKeeps == NetInv /\ Begin => NetInv'
<1> SUFFICES ASSUME NetInv, Begin PROVE NetInv'
  OBVIOUS
<1>1. PICK comesUp \in BOOLEAN, waited \in BOOLEAN :
        ram' = Chosen([Awaited(waited) EXCEPT !.wifi = HealedWifi,
                                              !.fallback = HealedFallback], comesUp)
  BY DEF Begin
<1>2. /\ ram' \in Rams /\ ram'.switch = Unset /\ ~ram'.reboot /\ ~ram'.erase
      /\ ram'.claimed = ram'.wasUp /\ (ram'.eth => active /\ ~ram'.ap)
  BY <1>1, BeginSteps DEF NetInv, Typed
<1>3. nvs' \in Settings
  <2>1. HealedWifi \in BOOLEAN /\ HealedFallback \in BOOLEAN
    BY DEF NetInv, Typed, Settings, HealedWifi, HealedFallback
  <2>2. QED
    BY <2>1 DEF NetInv, Typed, Settings, Begin
<1>4. Typed'
  <2>1. away' \in 0..SwitchGrace
    BY TimesPositive DEF Begin, Times
  <2>2. QED
    BY <1>2, <1>3, <2>1 DEF NetInv, Typed, Begin
<1>5. Young'
  BY <1>2 DEF NetInv, Typed, Young, Begin, Unset
<1>6. Mode'
  BY <1>2 DEF Begin, Mode, active
<1>7. QED
  BY <1>2, <1>4, <1>5, <1>6
     DEF Begin, NetInv, Earned, Stationed, Erases, NoWire, Counted, Claims

(* Waiting: the timers rest, the supervision has not begun.                 *)
LEMMA WaitKeeps ==
  ASSUME NetInv, phase = "wait", ram' \in Rams, ram'.eth = ram.eth, ram'.erase = ram.erase,
         ram'.reboot = ram.reboot, ram'.switch = ram.switch,
         ram'.claimed = ram.claimed, ram'.wasUp = ram.wasUp,
         phase' \in {"wait", "run"}, passed' \in BOOLEAN,
         UNCHANGED <<wire, air, fitted, nvs, uptime, proven, by, upFor, away, watched, outside>>
  PROVE  NetInv'
<1>1. Typed'
  BY DEF NetInv, Typed
<1>2. ~ram.eth
  BY DEF NetInv, Typed, Mode, Rams
<1>3. QED
  BY <1>1, <1>2 DEF NetInv, Young, Mode, Earned, Stationed, Erases, NoWire, Counted, Claims

LEMMA WaitingKeeps == NetInv /\ (Waiting \/ WaitOver) => NetInv'
<1>1. ASSUME NetInv, Waiting PROVE NetInv'
  <2> DEFINE s == nvs.creds
  <2>1. ram \in Rams /\ s \in BOOLEAN
    BY <1>1 DEF NetInv, Typed, Settings
  <2>2. ram' = ram \/ ram' = [ram EXCEPT !.retried = TRUE, !.station = s]
    BY <1>1 DEF Waiting
  <2> HIDE DEF s
  <2>3. /\ ram' \in Rams /\ ram'.eth = ram.eth /\ ram'.erase = ram.erase
        /\ ram'.reboot = ram.reboot /\ ram'.switch = ram.switch
        /\ ram'.claimed = ram.claimed /\ ram'.wasUp = ram.wasUp
    BY <2>1, <2>2, RetrySteps, ZenonT(30)
  <2>4. QED
    BY <1>1, <2>3, WaitKeeps DEF Waiting
<1>2. ASSUME NetInv, WaitOver PROVE NetInv'
  <2>1. PICK comesUp \in BOOLEAN :
          \/ ram' = [ram EXCEPT !.ap = FALSE, !.wasOnline = TRUE]
          \/ ram' = ram
          \/ ram' = OnAccessPoint(ram, comesUp)
    BY <1>2 DEF WaitOver
  <2>2. ram \in Rams
    BY <1>2 DEF NetInv, Typed
  <2>3. /\ ram' \in Rams /\ ram'.eth = ram.eth /\ ram'.erase = ram.erase
        /\ ram'.reboot = ram.reboot /\ ram'.switch = ram.switch
        /\ ram'.claimed = ram.claimed /\ ram'.wasUp = ram.wasUp
    <3>1. CASE ram' = [ram EXCEPT !.ap = FALSE, !.wasOnline = TRUE]
      BY <2>2, <3>1, WaitOverSteps
    <3>2. CASE ram' = ram
      BY <2>2, <3>2
    <3>3. CASE ram' = OnAccessPoint(ram, comesUp)
      BY <2>2, <3>3, AccessPointSteps
    <3>4. QED
      BY <2>1, <3>1, <3>2, <3>3
  <2>4. QED
    BY <1>2, <2>3, WaitKeeps DEF WaitOver
<1>3. QED
  BY <1>1, <1>2

(* A request for the restart ends the supervision.                          *)
LEMMA AskedKeeps ==
  ASSUME NetInv, NEW m \in Rams, Asked(m), m.eth = ram.eth, m.ap = ram.ap,
         m.switch = ram.switch, Claims(ram) => Claims(m),
         nvs' \in Settings, outside' \in 0..MaxOutside
  PROVE  NetInv'
<1>1. /\ ram' \in Rams /\ SameButSupervision(m, ram')
      /\ ram'.switch = m.switch /\ ram'.reboot
  BY RequestSet DEF Asked
<1>2. Typed'
  BY <1>1 DEF NetInv, Typed, Asked
<1>3. QED
  BY <1>1, <1>2
     DEF NetInv, Asked, Young, Mode, Earned, Stationed, Erases, NoWire, Counted, Claims,
         SameButSupervision

LEMMA OutsideBound == Typed /\ Outside => outside' \in 0..MaxOutside
BY TimesAssumption DEF Typed, Outside

LEMMA RequestsKeep ==
  ASSUME NetInv,
         \/ ApplyCredentials \/ ForgetCredentials \/ ToggleWifi
         \/ \E erase \in BOOLEAN : ScheduleReboot(erase)
  PROVE  NetInv'
<1>1. ram \in Rams /\ nvs \in Settings /\ Typed
  BY DEF NetInv, Typed
<1>2. CASE ApplyCredentials
  <2>1. nvs' \in Settings
    BY <1>1, <1>2 DEF ApplyCredentials, Settings
  <2>2. QED
    BY <1>1, <1>2, <2>1, AskedKeeps, OutsideBound DEF ApplyCredentials
<1>3. CASE ForgetCredentials
  <2>1. nvs' \in Settings
    BY <1>3 DEF ForgetCredentials, Settings, NvsDefaults
  <2>2. QED
    BY <1>1, <1>3, <2>1, AskedKeeps, OutsideBound DEF ForgetCredentials
<1>4. CASE ToggleWifi
  <2> DEFINE v == ~ram.wifi
             m == [ram EXCEPT !.wifi = v]
  <2>1. v \in BOOLEAN /\ nvs' = [nvs EXCEPT !.wifi = v] /\ Asked(m) /\ Outside
    BY <1>4 DEF ToggleWifi
  <2> HIDE DEF v
  <2>2. nvs' \in Settings
    BY <1>1, <2>1 DEF Settings
  <2>3. m \in Rams /\ SameTimers(ram, m) /\ (Claims(ram) => Claims(m))
    BY <1>1, <2>1, FlagsSet
  <2> HIDE DEF m
  <2>4. QED
    BY <1>1, <2>1, <2>2, <2>3, AskedKeeps, OutsideBound DEF SameTimers
<1>5. CASE \E erase \in BOOLEAN : ScheduleReboot(erase)
  <2>1. PICK erase \in BOOLEAN : ScheduleReboot(erase)
    BY <1>5
  <2> DEFINE v == ram.erase \/ erase
             m == [ram EXCEPT !.erase = v]
  <2>2. v \in BOOLEAN /\ nvs' = nvs /\ Asked(m) /\ Outside
    BY <2>1 DEF ScheduleReboot
  <2> HIDE DEF v
  <2>3. /\ m \in Rams /\ m.eth = ram.eth /\ m.ap = ram.ap /\ m.switch = ram.switch
        /\ Claims(ram) => Claims(m)
    BY <1>1, <2>2, FlagsSet
  <2> HIDE DEF m
  <2>4. QED
    BY <1>1, <2>2, <2>3, AskedKeeps, OutsideBound
<1>6. QED
  BY <1>2, <1>3, <1>4, <1>5

(* The failover switched on or off: the timers rest.                        *)
LEMMA FallbackSet ==
  ASSUME NEW m \in Rams, NEW v \in BOOLEAN, NEW n, n = [m EXCEPT !.fallback = v]
  PROVE  /\ n \in Rams /\ n.fallback = v
         /\ n.eth = m.eth /\ n.ap = m.ap /\ n.erase = m.erase /\ n.reboot = m.reboot
         /\ n.switch = m.switch /\ n.agree = m.agree
         /\ n.claimed = m.claimed /\ n.wasUp = m.wasUp
BY DEF Rams

LEMMA FallbackKeeps ==
  ASSUME NetInv, NEW enable \in BOOLEAN, SetFallback(enable)
  PROVE  NetInv'
<1>1. ram \in Rams /\ Typed /\ nvs \in Settings
  BY DEF NetInv, Typed
<1>2. /\ ram' \in Rams /\ ram'.fallback = enable
      /\ ram'.eth = ram.eth /\ ram'.ap = ram.ap /\ ram'.erase = ram.erase
      /\ ram'.reboot = ram.reboot /\ ram'.switch = ram.switch /\ ram'.agree = ram.agree
      /\ ram'.claimed = ram.claimed /\ ram'.wasUp = ram.wasUp
  BY <1>1, FallbackSet DEF SetFallback
<1>3. nvs' \in Settings /\ nvs'.creds = nvs.creds
  BY <1>1 DEF SetFallback, Settings
<1>4. outside' \in 0..MaxOutside
  BY <1>1, OutsideBound DEF SetFallback
<1>5. Typed'
  BY <1>2, <1>3, <1>4 DEF SetFallback, Typed, NetInv
<1>6. Counted'
  BY <1>1, <1>2 DEF SetFallback, NetInv, Counted, Typed
<1>7. QED
  BY <1>2, <1>3, <1>5, <1>6
     DEF SetFallback, NetInv, Young, Mode, Earned, Stationed, Erases, NoWire, Claims

LEMMA SetupKeeps == NetInv /\ SetupButton => NetInv'
<1> SUFFICES ASSUME NetInv, SetupButton PROVE NetInv'
  OBVIOUS
<1>1. PICK comesUp \in BOOLEAN : ram' = OnAccessPoint(ram, comesUp)
  BY DEF SetupButton
<1>2. /\ ram' \in Rams /\ ram'.eth = ram.eth /\ ram'.erase = ram.erase
      /\ ram'.reboot = ram.reboot /\ ram'.switch = ram.switch
      /\ ram'.claimed = ram.claimed /\ ram'.wasUp = ram.wasUp
  BY <1>1, AccessPointSteps DEF NetInv, Typed
<1>3. Typed'
  BY <1>2, OutsideBound DEF SetupButton, Typed, NetInv
<1>4. QED
  BY <1>2, <1>3
     DEF SetupButton, NetInv, Young, Mode, Earned, Stationed, Erases, NoWire, Counted, Claims

(* A pass: what a start owes to the timers.                                 *)
LEMMA LoopKeeps == NetInv /\ Loop => NetInv'
<1> SUFFICES ASSUME NetInv, Loop PROVE NetInv'
  OBVIOUS
<1> DEFINE n == Passed(EthWatched(ram))
<1>1. ram \in Rams /\ Typed /\ wire \in BOOLEAN
  BY DEF NetInv, Typed
<1>2. PassSteps(ram, n) /\ ram' = n
  BY <1>1, PassedSteps DEF Loop
<1> HIDE DEF n
<1>3. /\ ram' \in Rams /\ ram'.eth = ram.eth /\ ram'.ap = ram.ap
      /\ ram'.erase = ram.erase /\ ram'.fallback = ram.fallback
  BY <1>2 DEF PassSteps
<1>4. by' \in {by, "away", "back"} /\ (ram.reboot => by' = by)
  BY DEF Loop
<1>5. Typed'
  BY <1>1, <1>3, <1>4 DEF Loop, Typed
<1>6. Young'
  <2>1. ram'.switch \in {ram.switch, Unset, 0} /\ uptime' = uptime
    BY <1>2 DEF PassSteps, Loop
  <2>2. ram.switch =< uptime /\ uptime \in 0..Window
    BY DEF NetInv, Young, Typed
  <2>3. QED
    BY <2>1, <2>2, Ranges, <1>1 DEF Young, Unset
<1>7. Mode' /\ Erases' /\ NoWire' /\ Claims(ram)'
  BY <1>2, <1>3 DEF NetInv, Mode, Erases, NoWire, Loop, PassSteps, Claims
<1>8. Earned'
  <2>1. CASE ram.reboot
    BY <2>1, <1>4 DEF NetInv, Earned, Loop
  <2>2. CASE ~ram.reboot /\ ram'.reboot
    <3>1. ram.switch >= SwitchGrace
      BY <1>2, <2>2 DEF PassSteps
    <3>2. uptime >= ProvenAfter
      BY <1>1, <3>1, Ranges DEF NetInv, Young, Typed
    <3>3. QED
      BY <3>2 DEF Earned, Loop
  <2>3. QED
    BY <2>1, <2>2 DEF Earned
<1>9. Stationed'
  <2>1. CASE by' = by
    BY <2>1 DEF NetInv, Stationed, Loop
  <2>2. CASE by' # by /\ by' = "away"
    <3>1. ram'.reboot /\ ~ram.reboot /\ ram.eth
      BY <2>2 DEF Loop
    <3>2. active # ram.eth /\ (active \/ nvs.creds)
      BY <1>2, <3>1 DEF PassSteps
    <3>3. ram.eth \in BOOLEAN /\ active \in BOOLEAN
      BY <1>1 DEF Rams, active
    <3>4. nvs.creds
      BY <3>1, <3>2, <3>3
    <3>5. QED
      BY <3>4 DEF Stationed, Loop
  <2>3. QED
    BY <2>1, <2>2 DEF Stationed
<1>10. Counted'
  <2> SUFFICES ASSUME ram'.eth, ~ram'.reboot, watched', ram'.switch # Unset
               PROVE  /\ ram'.fallback /\ ram'.switch =< away'
                      /\ ram'.agree < EthStable /\ upFor' =< ram'.agree + 1
    BY DEF Loop, Counted
  <2>1. ram.eth /\ ~ram.reboot /\ watched /\ ~ram.ap /\ fitted = "works"
    BY <1>2, <1>3 DEF Loop, PassSteps, NetInv, Mode
  <2>2. ram.switch # Unset => ram.fallback
    BY <2>1 DEF NetInv, Counted
  <2>3. ram'.fallback
    BY <1>2, <1>3, <2>2 DEF PassSteps
  <2>4. ram'.switch =< away'
    <3>1. ram'.switch = ram.switch \/ ram'.switch = 0
      BY <1>2 DEF PassSteps
    <3>2. CASE ram'.switch = 0
      BY <1>1, <3>2 DEF Loop, Typed
    <3>3. CASE ram'.switch = ram.switch
      BY <2>1, <3>3 DEF Loop, NetInv, Counted
    <3>4. QED
      BY <3>1, <3>2, <3>3
  <2>5. IF wire THEN ram'.agree < EthStable
                     /\ ram'.agree = IF ram.agree = Unset THEN 0 ELSE ram.agree
        ELSE ram'.agree = Unset
    BY <1>2, <1>3, <2>1, <2>3 DEF PassSteps, WireCounts
  <2>6. upFor' = upFor /\ upFor \in Nat
    BY <1>1, TimesPositive DEF Loop, Typed, Times, Steady
  <2>7. CASE ~wire
    BY <2>3, <2>4, <2>5, <2>6, <2>7, TimesPositive DEF NetInv, NoWire, Unset, Times
  <2>8. CASE wire /\ ram.switch # Unset
    <3>1. /\ passed => upFor =< ram.agree + 1
          /\ ~passed => upFor =< (IF ram.agree = Unset THEN 1 ELSE ram.agree + 1)
      BY <2>1, <2>8 DEF NetInv, Counted
    <3>2. ram.agree \in Int
      BY <1>1, Ranges
    <3>3. upFor' =< ram'.agree + 1
      BY <1>1, <2>5, <2>6, <2>8, <3>1, <3>2 DEF Unset, Typed
    <3>4. QED
      BY <2>3, <2>4, <2>5, <2>8, <3>3
  <2>9. CASE wire /\ ram.switch = Unset
    <3>1. active
      BY <2>1, <2>9 DEF active
    <3>2. ram'.switch = Unset
      BY <1>2, <2>1, <2>9, <3>1 DEF PassSteps
    <3>3. QED
      BY <3>2
  <2>10. QED
    BY <1>1, <2>7, <2>8, <2>9
<1>11. QED
  BY <1>5, <1>6, <1>7, <1>8, <1>9, <1>10 DEF NetInv

(* A tick: the ages grow together.                                          *)
LEMMA TickKeeps == NetInv /\ Tick => NetInv'
<1> SUFFICES ASSUME NetInv, Tick PROVE NetInv'
  OBVIOUS
<1>1. ram \in Rams /\ Typed /\ ram' = Aged(ram)
  BY DEF NetInv, Typed, Tick
<1>2. /\ ram' \in Rams /\ ram'.eth = ram.eth /\ ram'.ap = ram.ap /\ ram'.erase = ram.erase
      /\ ram'.fallback = ram.fallback /\ ram'.reboot = ram.reboot
      /\ ram'.switch = Older(ram.switch, SwitchGrace)
      /\ ram'.agree = Older(ram.agree, EthStable)
      /\ Claims(ram) => Claims(ram')
  BY <1>1, AgedSteps
<1>3. /\ ram'.switch = IF ram.switch \in {-1, SwitchGrace} THEN ram.switch ELSE ram.switch + 1
      /\ ram'.agree = IF ram.agree \in {-1, EthStable} THEN ram.agree ELSE ram.agree + 1
  BY <1>2 DEF Older, Unset
<1>4. /\ uptime' = IF uptime = Window THEN uptime ELSE uptime + 1
      /\ uptime \in 0..Window /\ upFor \in 0..Steady /\ away \in 0..SwitchGrace
      /\ Steady \in Nat /\ Steady > 0
  BY <1>1, Ranges DEF Tick, Typed, Older, Unset, Steady
<1>5. /\ upFor' = IF wire THEN IF upFor = Steady THEN upFor ELSE upFor + 1 ELSE 0
      /\ away' = IF upFor' = Steady THEN 0
                 ELSE IF away = SwitchGrace THEN away ELSE away + 1
  BY <1>4 DEF Tick, Older, Unset
<1>6. upFor' \in 0..Steady /\ away' \in 0..SwitchGrace /\ uptime' \in 0..Window
  BY <1>1, <1>4, <1>5, Ranges
<1>7. Typed'
  BY <1>1, <1>2, <1>6 DEF Tick, Typed
<1>8. Young'
  BY <1>1, <1>3, <1>4, Ranges DEF NetInv, Young
<1>9. Mode' /\ Erases' /\ Claims(ram)' /\ Earned' /\ Stationed'
  BY <1>2 DEF Tick, NetInv, Mode, Erases, Earned, Stationed, Claims
<1>10. NoWire'
  BY <1>5 DEF Tick, NoWire
<1>11. Counted'
  <2> SUFFICES ASSUME ram'.eth, ~ram'.reboot, watched', ram'.switch # Unset
               PROVE  /\ ram'.fallback /\ ram'.switch =< away'
                      /\ upFor' =< (IF ram'.agree = Unset THEN 1 ELSE ram'.agree + 1)
    BY DEF Tick, Counted
  <2>1. /\ ram.fallback /\ ram.switch =< away
        /\ ram.agree < EthStable /\ upFor =< ram.agree + 1
    BY <1>2, <1>3 DEF Tick, NetInv, Counted, Unset
  <2>2. upFor' =< (IF ram'.agree = Unset THEN 1 ELSE ram'.agree + 1)
    BY <1>1, <1>3, <1>4, <1>5, <2>1, Ranges DEF Unset
  <2>3. upFor' # Steady
    BY <1>1, <1>4, <1>5, <2>1, Ranges DEF Steady
  <2>4. ram'.switch =< away'
    BY <1>1, <1>3, <1>4, <1>5, <2>1, <2>3, Ranges DEF Unset
  <2>5. QED
    BY <1>2, <2>1, <2>2, <2>4
<1>12. QED
  BY <1>7, <1>8, <1>9, <1>10, <1>11 DEF NetInv

(* The world outside.                                                       *)
LEMMA WireKeeps == NetInv /\ WireChanges => NetInv'
<1> SUFFICES ASSUME NetInv, WireChanges PROVE NetInv'
  OBVIOUS
<1>1. wire' \in BOOLEAN /\ upFor' \in 0..Steady /\ upFor' = 0
  BY Ranges, FreshTyped DEF WireChanges, NetInv, Typed, Steady
<1>2. Typed'
  BY <1>1 DEF WireChanges, NetInv, Typed
<1>3. ram.agree \in Int /\ -1 =< ram.agree
  BY Ranges DEF NetInv, Typed
<1>4. Counted'
  BY <1>1, <1>3 DEF WireChanges, NetInv, Counted, Unset
<1>5. QED
  BY <1>1, <1>2, <1>4
     DEF WireChanges, NetInv, Young, Mode, Earned, Stationed, Erases, NoWire, Claims

LEMMA RestKeeps == NetInv /\ (AirChanges \/ UNCHANGED netVars) => NetInv'
<1>1. ASSUME NetInv, AirChanges PROVE NetInv'
  <2>1. Typed'
    BY <1>1 DEF AirChanges, NetInv, Typed
  <2>2. QED
    BY <1>1, <2>1
       DEF AirChanges, NetInv, Young, Mode, Earned, Stationed, Erases, NoWire, Counted, Claims
<1>2. ASSUME NetInv, UNCHANGED netVars PROVE NetInv'
  BY <1>2 DEF netVars, NetInv, Typed, Young, Mode, Earned, Stationed, Erases, NoWire, Counted,
              Claims
<1>3. QED
  BY <1>1, <1>2

LEMMA StepInv == NetInv /\ [NetNext]_netVars => NetInv'
<1> SUFFICES ASSUME NetInv, [NetNext]_netVars PROVE NetInv'
  OBVIOUS
<1>1. CASE MainTask
  BY <1>1, BeginKeeps, WaitingKeeps, LoopKeeps, RestartKeeps DEF MainTask
<1>2. CASE Users
  BY <1>2, RequestsKeep, SetupKeeps, FallbackKeeps DEF Users
<1>3. CASE PowerCut
  BY <1>3, PowerCutKeeps
<1>4. CASE Tick
  BY <1>4, TickKeeps
<1>5. CASE WireChanges
  BY <1>5, WireKeeps
<1>6. CASE AirChanges \/ UNCHANGED netVars
  BY <1>6, RestKeeps
<1>7. QED
  BY <1>1, <1>2, <1>3, <1>4, <1>5, <1>6 DEF NetNext

LEMMA Invariant == NetSpec => []NetInv
<1>1. QED
  BY InitInv, StepInv, PTL DEF NetSpec
----------------------------------------------------------------------------
LEMMA NetTyped == NetInv => NetTypeOK
<1> SUFFICES ASSUME NetInv PROVE NetTypeOK
  OBVIOUS
<1>1. \A flag \in Flags : ram[flag] \in BOOLEAN
  BY DEF NetInv, Typed, Rams, Flags
<1>2. QED
  BY <1>1, AgesOf DEF NetInv, Typed, NetTypeOK

(* The members and timers stay in range (net_manager.h:159-173).            *)
THEOREM NetTypeCorrect == NetSpec => []NetTypeOK
<1>1. QED
  BY NetTyped, Invariant, PTL

(* In Ethernet mode the default route is claimed whenever the watch has     *)
(* seen an address (eth_interface.cpp:253).                                 *)
THEOREM RouteIsClaimed == NetSpec => []RouteClaimed
<1>1. NetInv => RouteClaimed
  BY DEF NetInv, Claims, RouteClaimed
<1>2. QED
  BY <1>1, Invariant, PTL

(* A restart only a failover asked for happens in a proven start, whatever  *)
(* the timers, as long as the grace is not shorter than the proving time    *)
(* (net_manager.cpp:51-54).                                                 *)
THEOREM FailoverIsProven == NetSpec => FailoverProven
<1>1. NetInv => (Restart /\ by \in {"away", "back"} => proven)
  BY DEF NetInv, Earned, Restart, RestartDue
<1>2. QED
  BY <1>1, Invariant, PTL DEF FailoverProven

(* The device leaves Ethernet only after a whole grace without a steady     *)
(* wire, in a start that did not switch the failover off                    *)
(* (net_manager.cpp:58-66, 450-501).                                        *)
THEOREM WireIsDead == NetSpec => LeavesDeadWire
<1>1. NetInv /\ [NetNext]_netVars => (Leaves /\ watched => away = SwitchGrace)
  <2> SUFFICES ASSUME NetInv, [NetNext]_netVars, Leaves, watched PROVE away = SwitchGrace
    OBVIOUS
  <2>1. Loop
    BY DEF NetNext, MainTask, Users, Begin, Waiting, WaitOver, Restart, ApplyCredentials,
           ForgetCredentials, ToggleWifi, ScheduleReboot, SetFallback, SetupButton, Asked,
           PowerCut, Tick, WireChanges, AirChanges, netVars, Leaves
  <2>2. ram \in Rams /\ Typed
    BY DEF NetInv, Typed
  <2>3. ram.eth /\ ~ram.reboot /\ ram'.reboot
    BY <2>1 DEF Loop, Leaves
  <2>4. ram.switch >= SwitchGrace
    BY <2>1, <2>2, <2>3, PassedSteps DEF Loop, PassSteps, Typed
  <2>5. ram.switch # Unset
    BY <2>2, <2>4, Ranges DEF Unset
  <2>6. ram.switch =< away
    BY <2>3, <2>5 DEF NetInv, Counted
  <2>7. QED
    BY <2>2, <2>4, <2>6, Ranges DEF Typed
<1>2. QED
  BY <1>1, Invariant, PTL DEF LeavesDeadWire, NetSpec

(* The start after a failover away from Ethernet does not open the access   *)
(* point (net_manager.cpp:479-481).                                         *)
THEOREM StationComesFirst == NetSpec => FailsOverToStation
<1>1. NetInv => (Begin /\ by = "away" => ~ram'.ap)
  <2> SUFFICES ASSUME NetInv, Begin, by = "away" PROVE ~ram'.ap
    OBVIOUS
  <2>1. PICK comesUp \in BOOLEAN, waited \in BOOLEAN :
          ram' = Chosen([Awaited(waited) EXCEPT !.wifi = HealedWifi,
                                                !.fallback = HealedFallback], comesUp)
    BY DEF Begin
  <2>2. ram'.ap => ~nvs.creds
    BY <2>1, BeginSteps DEF NetInv, Typed
  <2>3. QED
    BY <2>2 DEF NetInv, Stationed
<1>2. QED
  BY <1>1, Invariant, PTL DEF FailsOverToStation
----------------------------------------------------------------------------
(* The device around the network: what the crash-loop guard counts.         *)
(* The invariant that counts the starts. Unless a note was refused, the     *)
(* counter of the guard is covered by starts that ended roughly, but for    *)
(* the start that is under way, and that one is covered once it is proven.  *)
Marked ==
  /\ at \in {"boot", "drop", "up"}
  /\ set \in BOOLEAN /\ proven \in BOOLEAN /\ has \in BOOLEAN
Placed ==
  /\ phase # "off" => at = "up"
  /\ phase = "off" => ~proven
Ahead == boots =< rough + 1
Even == boots =< rough
Covered ==
  ~refused =>
    /\ Ahead
    /\ at # "up" \/ proven \/ ~has => Even
DeviceInv ==
  /\ Marked /\ boots \in 0..2
  /\ rough \in 0..2 /\ refused \in BOOLEAN
  /\ Placed /\ Covered

LEMMA DeviceBegins == DeviceInit => DeviceInv
<1> SUFFICES ASSUME DeviceInit PROVE DeviceInv
  OBVIOUS
<1> USE DEF DeviceInit, NetInit, Guard!GuardInit
<1>1. Marked
  BY DEF Marked
<1>2. boots \in 0..2 /\ rough \in 0..2
  OBVIOUS
<1>3. refused \in BOOLEAN /\ Placed
  BY DEF Placed
<1>4. Covered
  BY DEF Covered, Ahead, Even
<1>5. QED
  BY <1>1, <1>2, <1>3, <1>4 DEF DeviceInv

(* The tally after a step.                                                  *)
LEMMA ZeroIsLeast ==
  ASSUME NEW n \in 0..2
  PROVE  0 =< n /\ 0 =< n + 1
OBVIOUS

LEMMA NothingCounted ==
  ASSUME boots' = 0, rough' \in 0..2
  PROVE  Ahead' /\ Even'
<1>1. 0 =< rough' /\ 0 =< rough' + 1
  BY ONLY ZeroIsLeast, rough' \in 0..2
<1>2. QED
  BY <1>1, Zenon DEF Ahead, Even

LEMMA TallyTyped ==
  ASSUME DeviceInv, boots' \in 0..2,
         NEW ends \in BOOLEAN, NEW refusal \in BOOLEAN, Tallied(ends, refusal)
  PROVE  /\ rough' \in 0..2 /\ refused' \in BOOLEAN
         /\ boots' = 0 => Ahead' /\ Even'
         /\ boots' # 0 /\ ~refused' => ~refused /\ ~refusal
         /\ boots' # 0 /\ ends => rough' = (IF rough < 2 THEN rough + 1 ELSE rough)
         /\ boots' # 0 /\ ~ends => rough' = rough
<1>1. rough \in 0..2 /\ refused \in BOOLEAN
  BY DEF DeviceInv
<1>2. rough' \in 0..2
  BY <1>1 DEF Tallied, Raised, Guard!MAX_BOOT_ATTEMPTS
<1>3. refused' \in BOOLEAN
  BY DEF Tallied
<1>4. boots' = 0 => Ahead' /\ Even'
  BY <1>2, NothingCounted
<1>5. boots' # 0 /\ ~refused' => ~refused /\ ~refusal
  BY DEF Tallied
<1>6. /\ boots' # 0 /\ ends => rough' = (IF rough < 2 THEN rough + 1 ELSE rough)
      /\ boots' # 0 /\ ~ends => rough' = rough
  BY DEF Tallied, Raised, Guard!MAX_BOOT_ATTEMPTS
<1>7. QED
  BY <1>2, <1>3, <1>4, <1>5, <1>6

(* A step that leaves the counter alone, one that counts a start, and one   *)
(* that ends a start roughly.                                               *)
LEMMA TallySteps ==
  ASSUME boots \in 0..2, rough \in 0..2
  PROVE  /\ boots' = boots /\ rough' = rough => (Ahead => Ahead') /\ (Even => Even')
         /\ boots' = boots + 1 /\ rough' = rough => (Even => Ahead')
         /\ boots' = boots /\ rough' = (IF rough < 2 THEN rough + 1 ELSE rough) =>
              (Ahead => Ahead' /\ Even')
BY DEF Ahead, Even

(* Within a start, and at its beginning.                                    *)
LEMMA StartCounts ==
  ASSUME DeviceInv, ProfileBegins
  PROVE  DeviceInv'
<1>1. phase = "off" /\ phase' = phase /\ proven' = proven /\ ~proven
  BY DEF ProfileBegins, netVars, DeviceInv, Placed
<1>2. Marked /\ Guard!Start /\ Tallied(FALSE, FALSE)
  BY DEF DeviceInv, ProfileBegins
<1>3. Marked'
  BY <1>1, <1>2 DEF Marked, Guard!Start, Guard!StartPlain, Guard!StartStored,
     Guard!Drop, Guard!Dropped
<1>4. /\ at # "up"
      /\ \/ boots' = boots
         \/ has' = TRUE /\ at' = "up" /\ boots < 2 /\ boots' = boots + 1
         \/ boots' = 0
  BY <1>2 DEF Guard!Start, Guard!StartPlain, Guard!StartStored, Guard!Drop, Guard!Dropped,
     Guard!MAX_BOOT_ATTEMPTS
<1>5. boots' \in 0..2
  BY <1>4 DEF DeviceInv
<1>6. /\ rough' \in 0..2 /\ refused' \in BOOLEAN
      /\ boots' = 0 => Ahead' /\ Even'
      /\ boots' # 0 => rough' = rough /\ (~refused' => ~refused)
  BY <1>2, <1>5, TallyTyped
<1>7. boots' # 0 => (Even => Ahead' /\ (boots' = boots => Even'))
  BY <1>4, <1>6, TallySteps DEF DeviceInv, Ahead, Even
<1>8. Covered'
  BY <1>1, <1>4, <1>6, <1>7, Zenon DEF DeviceInv, Covered
<1>9. QED
  BY <1>1, <1>3, <1>5, <1>6, <1>8 DEF DeviceInv, Placed

LEMMA StoreCounts ==
  ASSUME DeviceInv, ProfileStored
  PROVE  DeviceInv'
<1>1. phase # "off" /\ phase' = phase /\ proven' = proven /\ at = "up"
  BY DEF ProfileStored, netVars, DeviceInv, Placed
<1>2. Marked /\ Guard!Store /\ Tallied(FALSE, FALSE)
  BY DEF DeviceInv, ProfileStored
<1>3. Marked' /\ at' = "up"
  BY <1>1, <1>2 DEF Marked, Guard!Store, Guard!Mark, Guard!Settle, Guard!Hold, Guard!Forget
<1>4. \/ boots' = 0
      \/ boots' = boots /\ (~has' => ~has)
  BY <1>2 DEF Guard!Store, Guard!Mark, Guard!Settle, Guard!Hold, Guard!Forget
<1>5. boots' \in 0..2
  BY <1>4 DEF DeviceInv
<1>6. /\ rough' \in 0..2 /\ refused' \in BOOLEAN
      /\ boots' = 0 => Ahead' /\ Even'
      /\ boots' # 0 => rough' = rough /\ (~refused' => ~refused)
  BY <1>2, <1>5, TallyTyped
<1>7. boots' # 0 => (Ahead => Ahead') /\ (Even => Even')
  BY <1>4, <1>6, TallySteps DEF DeviceInv
<1>8. Covered'
  BY <1>1, <1>3, <1>4, <1>6, <1>7, Zenon DEF DeviceInv, Covered
<1>9. QED
  BY <1>1, <1>3, <1>5, <1>6, <1>8 DEF DeviceInv, Placed

(* The pass that notes the proof covers the start under way.                *)
LEMMA PassCounts ==
  ASSUME DeviceInv, Pass
  PROVE  DeviceInv'
<1>1. phase = "run" /\ phase' = "run" /\ at = "up" /\ (proven => proven')
  BY DEF Pass, Loop, DeviceInv, Placed
<1>2. CASE proven' = proven /\ UNCHANGED <<profileVars, tally>>
  BY <1>1, <1>2 DEF DeviceInv, Marked, Placed, Covered, Ahead, Even, profileVars, tally
<1>3. CASE proven' # proven /\ Guard!Noted /\ Tallied(FALSE, FALSE)
  <2>1. Marked' /\ at' = "up"
    BY <1>1, <1>3 DEF DeviceInv, Marked, Guard!Noted
  <2>2. boots' = 0 /\ boots' \in 0..2
    BY <1>3 DEF Guard!Noted
  <2>3. rough' \in 0..2 /\ refused' \in BOOLEAN /\ Ahead' /\ Even'
    BY <1>3, <2>2, TallyTyped
  <2>4. QED
    BY <1>1, <2>1, <2>2, <2>3 DEF DeviceInv, Placed, Covered
<1>4. CASE proven' # proven /\ Guard!Unnoted /\ Tallied(FALSE, has)
  <2>1. Marked' /\ at' = "up" /\ has \in BOOLEAN
    BY <1>1, <1>4 DEF DeviceInv, Marked, Guard!Unnoted
  <2>2. boots' = boots /\ boots' \in 0..2
    BY <1>4 DEF DeviceInv, Guard!Unnoted
  <2>3. /\ rough' \in 0..2 /\ refused' \in BOOLEAN
        /\ boots' = 0 => Ahead' /\ Even'
        /\ boots' # 0 => rough' = rough /\ (~refused' => ~refused /\ ~has)
    BY <1>4, <2>1, <2>2, TallyTyped
  <2>4. boots' # 0 => (Ahead => Ahead') /\ (Even => Even')
    BY <2>2, <2>3, TallySteps DEF DeviceInv
  <2>5. Covered'
    BY <2>3, <2>4, Zenon DEF DeviceInv, Covered
  <2>6. QED
    BY <1>1, <2>1, <2>2, <2>3, <2>5 DEF DeviceInv, Placed
<1>5. QED
  BY <1>2, <1>3, <1>4 DEF Pass

(* The end of a start: a failover ends one that is covered.                 *)
LEMMA EndCounts ==
  ASSUME DeviceInv, NEW ends \in BOOLEAN, Tallied(ends, FALSE),
         Guard!End \/ Guard!Erase, phase' = "off",
         ~ends => at # "up" \/ proven
  PROVE  DeviceInv'
<1>1. Marked' /\ ~proven'
  BY DEF DeviceInv, Marked, Guard!End, Guard!Erase, Guard!Over
<1>2. boots' = 0 \/ boots' = boots
  BY DEF Guard!End, Guard!Erase
<1>3. boots' \in 0..2
  BY <1>2 DEF DeviceInv
<1>4. /\ rough' \in 0..2 /\ refused' \in BOOLEAN
      /\ boots' = 0 => Ahead' /\ Even'
      /\ boots' # 0 => (~refused' => ~refused)
      /\ boots' # 0 /\ ends => rough' = (IF rough < 2 THEN rough + 1 ELSE rough)
      /\ boots' # 0 /\ ~ends => rough' = rough
  BY <1>3, TallyTyped
<1>5. /\ boots' # 0 /\ ends => (Ahead => Ahead' /\ Even')
      /\ boots' # 0 /\ ~ends => (Ahead => Ahead') /\ (Even => Even')
  BY <1>2, <1>4, TallySteps DEF DeviceInv
<1>6. Covered'
  BY <1>4, <1>5, Zenon DEF DeviceInv, Covered
<1>7. QED
  BY <1>1, <1>3, <1>4, <1>6 DEF DeviceInv, Placed

LEMMA EndsCount ==
  ASSUME NetInv, DeviceInv, EndsEarly \/ Restarts \/ PowerGoes
  PROVE  DeviceInv'
<1>1. CASE EndsEarly
  <2>1. phase' = "off"
    BY <1>1 DEF EndsEarly, netVars, DeviceInv, Placed, Guard!End, Guard!Over
  <2>2. Tallied(at = "up", FALSE) /\ Guard!End
    BY <1>1 DEF EndsEarly
  <2>3. (at = "up") \in BOOLEAN
    OBVIOUS
  <2>4. QED
    BY <2>1, <2>2, <2>3, EndCounts
<1>2. CASE Restarts
  <2> DEFINE ends == by \notin {"away", "back"}
  <2>1. phase' = "off" /\ Tallied(ends, FALSE) /\ (Guard!End \/ Guard!Erase)
    BY <1>2 DEF Restarts, Restart, Off
  <2>2. ~ends => proven
    BY <1>2 DEF Restarts, Restart, RestartDue, NetInv, Earned
  <2>3. ends \in BOOLEAN
    OBVIOUS
  <2> HIDE DEF ends
  <2>4. QED
    BY <2>1, <2>2, <2>3, EndCounts
<1>3. CASE PowerGoes
  <2>1. phase' = "off" /\ Tallied(TRUE, FALSE) /\ (Guard!End \/ Guard!Erase)
    BY <1>3 DEF PowerGoes, PowerCut, Off
  <2>2. QED
    BY <2>1, EndCounts
<1>4. QED
  BY <1>1, <1>2, <1>3

(* The rest is the network's.                                               *)
LEMMA ElsewhereCounts ==
  ASSUME DeviceInv, NetBegins \/ Elsewhere \/ UNCHANGED deviceVars
  PROVE  DeviceInv'
<1> USE DEF profileVars, tally
<1>1. UNCHANGED <<profileVars, tally>> /\ proven' = proven
  BY DEF NetBegins, Begin, Elsewhere, deviceVars, netVars, Waiting, WaitOver, Users, Tick,
         WireChanges, AirChanges, ApplyCredentials, ForgetCredentials, ToggleWifi,
         ScheduleReboot, SetFallback, SetupButton, Asked
<1>2. \/ phase' = phase
      \/ at = "up" /\ phase = "off" /\ phase' # "off" /\ NetBegins
      \/ phase # "off" /\ phase' # "off"
  BY DEF NetBegins, Begin, Elsewhere, deviceVars, netVars, Waiting, WaitOver, Users, Tick,
         WireChanges, AirChanges, ApplyCredentials, ForgetCredentials, ToggleWifi,
         ScheduleReboot, SetFallback, SetupButton, Asked
<1>3. Placed'
  BY <1>1, <1>2 DEF DeviceInv, Placed
<1>4. QED
  BY <1>1, <1>3 DEF DeviceInv, Covered, Ahead, Even, Marked

(* Every step of the device is a step of the network, or none of it.        *)
LEMMA NetSteps == [DeviceNext]_deviceVars => [NetNext]_netVars
BY DEF DeviceNext, deviceVars, ProfileBegins, NetBegins, EndsEarly, Pass, Restarts, PowerGoes,
       ProfileStored, Elsewhere, NetNext, MainTask

LEMMA DeviceStep ==
  NetInv /\ DeviceInv /\ [DeviceNext]_deviceVars => NetInv' /\ DeviceInv'
<1> SUFFICES ASSUME NetInv, DeviceInv, [DeviceNext]_deviceVars PROVE NetInv' /\ DeviceInv'
  OBVIOUS
<1>1. NetInv'
  BY NetSteps, StepInv
<1>2. DeviceInv'
  BY StartCounts, StoreCounts, PassCounts, EndsCount, ElsewhereCounts DEF DeviceNext
<1>3. QED
  BY <1>1, <1>2

LEMMA DeviceInvariant == DeviceSpec => [](NetInv /\ DeviceInv)
<1>1. DeviceInit => NetInv /\ DeviceInv
  BY InitInv, DeviceBegins DEF DeviceInit
<1>2. QED
  BY <1>1, DeviceStep, PTL DEF DeviceSpec

(* The guard drops a stored profile only after two counted starts that did  *)
(* not end in a failover, however often the device fails over and back,     *)
(* unless NVS refused the note of a proof (net_manager.cpp:51-54).          *)
THEOREM FailoverDropsNothing == DeviceSpec => DropsOnlyRough
<1>1. NetInv /\ DeviceInv => (Guard!Drop => rough = Guard!MAX_BOOT_ATTEMPTS \/ refused)
  BY DEF DeviceInv, Covered, Ahead, Even, Guard!Drop, Guard!MAX_BOOT_ATTEMPTS
<1>2. QED
  BY <1>1, DeviceInvariant, PTL DEF DropsOnlyRough

(* The members and timers of the network keep their types under the guard   *)
(* as they do alone.                                                        *)
THEOREM DeviceTypeCorrect == DeviceSpec => []DeviceTypeOK
<1>1. NetInv /\ DeviceInv => DeviceTypeOK
  <2> SUFFICES ASSUME NetInv, DeviceInv PROVE DeviceTypeOK
    OBVIOUS
  <2>1. boots \in 0..Guard!MAX_BOOT_ATTEMPTS /\ rough \in 0..Guard!MAX_BOOT_ATTEMPTS
    BY DEF DeviceInv, Guard!MAX_BOOT_ATTEMPTS
  <2>2. Guard!GuardTypeOK
    BY <2>1 DEF DeviceInv, Marked, Guard!GuardTypeOK
  <2>3. QED
    BY <2>1, <2>2, NetTyped DEF DeviceInv, DeviceTypeOK
<1>2. QED
  BY <1>1, DeviceInvariant, PTL
=============================================================================
