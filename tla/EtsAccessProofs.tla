--------------------------- MODULE EtsAccessProofs ---------------------------
(* Proofs about EtsAccess, and about how long an unlock stays open           *)
(* (EtsWindow), for any masks, buttons and periods and any interleaving of   *)
(* the two tasks.                                                           *)
EXTENDS EtsWindow, TLAPS

Times == Span \in Nat /\ Span > 0 /\ Span % 2 = 0 /\ UnlockMs \in Nat /\ GraceMs \in Nat

LEMMA TimesKnown == Times
BY TimeAssumption DEF Times

(* Wrapping arithmetic stays in range, and no deadline is the 0.            *)
LEMMA AfterInRange ==
  ASSUME NEW t \in 0 .. Span - 1, NEW ms \in Nat
  PROVE  After(t, ms) \in 0 .. Span - 1
BY TimesKnown DEF Times, After

LEMMA DeadlineInRange ==
  ASSUME NEW t \in 0 .. Span - 1
  PROVE  Deadline(t) \in 0 .. Span - 1 /\ Deadline(t) # 0
<1>1. Span \in Nat /\ Span % 2 = 0 /\ t \in Nat /\ t < Span
  BY TimesKnown DEF Times
<1>2. t % 2 = 0 => t + 1 < Span
  BY <1>1
<1>3. QED
  BY <1>1, <1>2 DEF Deadline
----------------------------------------------------------------------------
(* The steps of a call, as members of Calls.                                *)
LEMMA CallKinds ==
  /\ Idle \in Calls /\ [op |-> "expire"] \in Calls /\ [op |-> "extend"] \in Calls
  /\ \A mask \in SUBSET Paths, remember \in BOOLEAN : Store(mask, remember) \in Calls
  /\ \A mask \in SUBSET Paths, op \in StoreOps : [op |-> op, mask |-> mask] \in Calls
  /\ \A was \in SUBSET Paths, mask \in SUBSET Paths : Remember(was, mask) \in Calls
  /\ \A base \in SUBSET Paths, button \in {"net", "all"} : Open(base, button) \in Calls
  /\ \A until \in 0 .. Span - 1 : [op |-> "write", until |-> until] \in Calls
BY DEF Calls, Idle, Store, Remember, Open

LEMMA CallFields ==
  ASSUME NEW c \in Calls
  PROVE  /\ c.op = "store" => c.mask \subseteq Paths /\ c.remember \in BOOLEAN
         /\ c.op \in StoreOps => c.mask \subseteq Paths
         /\ c.op = "remember" => c.was \subseteq Paths /\ c.mask \subseteq Paths
         /\ c.op = "open" => c.base \subseteq Paths
         /\ c.op = "write" => c.until \in 0 .. Span - 1
BY DEF Calls, Idle, StoreOps

LEMMA CallSet ==
  ASSUME call \in [Tasks -> Calls], NEW t \in Tasks, NEW c \in Calls,
         call' = [call EXCEPT ![t] = c]
  PROVE  /\ call' \in [Tasks -> Calls] /\ call'[t] = c
         /\ \A u \in Tasks \ {t} : call'[u] = call[u]
OBVIOUS
----------------------------------------------------------------------------
(* The inductive invariant. An extension under way without an unlock knows  *)
(* that the dashboard ended it. While the history names what may reopen the  *)
(* network, the memory holds a member of it, or is about to (Noted); the    *)
(* network is closed, or the main task is about to close it (Shut); and a   *)
(* call that opens it has taken a member (Opening).                         *)
NoRevival ==
  call["main"].op \in {"extend", "write"} /\ unlockUntil = 0 => disturbed
OwnStores ==
  /\ call["main"].op = "store" => ~call["main"].remember
  /\ call["main"].op # "keep"
  /\ call["web"].op \notin {"remember", "open"}
Bases ==
  /\ call["main"].op = "remember" => call["main"].mask \cap Net = {}
  /\ call["main"].op = "open" => call["main"].base \cap Net = {}
Noted ==
  netBefore # {} =>
    IF call["main"].op = "remember" THEN Reopens(call["main"].was) \in netBefore
                                    ELSE Reopens(remembered) \in netBefore
Shut ==
  netBefore # {} /\ allowed \cap Net # {} => ClosesNet(call["main"])
Opening ==
  netBefore # {} /\ call["main"].op = "store" /\ call["main"].mask \cap Net # {}
    => call["main"].mask \cap Net \in netBefore
Network == OwnStores /\ Bases /\ Noted /\ Shut /\ Opening
EtsInv == TypeOK /\ NoRevival /\ Network

LEMMA InitInv == Init => EtsInv
<1> SUFFICES ASSUME Init PROVE EtsInv
  OBVIOUS
<1>1. TypeOK
  <2>1. call \in [Tasks -> Calls]
    BY CallKinds DEF Init
  <2>2. {unlockUntil, now} \subseteq 0 .. Span - 1 /\ sinceLoop \in 0 .. Stall
        /\ left \in 0 .. UnlockMs
    BY TimeAssumption DEF Init
  <2>3. QED
    BY <2>1, <2>2 DEF Init, TypeOK
<1>2. QED
  BY <1>1 DEF Init, EtsInv, NoRevival, Network, OwnStores, Bases, Noted, Shut, Opening, ClosesNet, Idle, Tasks

(* store(), step by step.                                                   *)
LEMMA ReopensInNet == ASSUME NEW mask PROVE Reopens(mask) \in SUBSET Net
BY DEF Reopens

LEMMA RamKeeps == ASSUME EtsInv, NEW t \in Tasks, StoreRam(t) PROVE EtsInv'
<1> USE DEF EtsInv
<1> DEFINE op == IF Remembers(call[t]) THEN "keep" ELSE "nvsAllow"
           c == [op |-> op, mask |-> call[t].mask]
<1>1. call[t].mask \subseteq Paths /\ call[t].op = "store"
  BY CallFields DEF TypeOK, StoreRam
<1>2. op \in {"keep", "nvsAllow"} /\ (t = "main" => op = "nvsAllow")
  BY <1>1 DEF Network, OwnStores, Remembers
<1>3. call' = [call EXCEPT ![t] = c]
  BY DEF StoreRam
<1> HIDE DEF op
<1>4. c \in Calls /\ c.op = op
  BY <1>1, <1>2, CallKinds DEF StoreOps
<1> HIDE DEF c
<1>5. /\ call' \in [Tasks -> Calls] /\ call'[t] = c
      /\ \A u \in Tasks \ {t} : call'[u] = call[u]
  BY <1>3, <1>4, CallSet DEF TypeOK
<1>6. TypeOK'
  BY <1>1, <1>5 DEF TypeOK, StoreRam, clock
<1>7. NoRevival'
  BY <1>2, <1>4, <1>5 DEF NoRevival, StoreRam, Tasks
<1>8. Network'
  <2>1. CASE t = "main"
    BY <1>1, <1>2, <1>4, <1>5, <2>1
       DEF Network, OwnStores, Bases, Noted, Shut, Opening, ClosesNet, StoreRam, Tasks
  <2>2. CASE t = "web"
    BY <1>1, <1>2, <1>4, <1>5, <2>2
       DEF Network, OwnStores, Bases, Noted, Shut, Opening, ClosesNet, StoreRam, Tasks
  <2>3. QED
    BY <2>1, <2>2 DEF Tasks
<1>9. QED
  BY <1>6, <1>7, <1>8

LEMMA MemoryKeeps == ASSUME EtsInv, NEW t \in Tasks, StoreMemory(t) PROVE EtsInv'
<1> USE DEF EtsInv
<1> DEFINE c == [op |-> "nvsAllow", mask |-> call[t].mask]
<1>1. /\ call[t].mask \subseteq Paths /\ call[t].op = "keep" /\ t = "web"
      /\ c \in Calls /\ c.op = "nvsAllow"
  <2>1. call[t].mask \subseteq Paths /\ call[t].op = "keep"
    BY CallFields DEF TypeOK, StoreMemory, StoreOps
  <2>2. c \in Calls
    BY <2>1, CallKinds DEF StoreOps
  <2>3. QED
    BY <2>1, <2>2 DEF Network, OwnStores, Tasks
<1>2. call' = [call EXCEPT ![t] = c]
  BY DEF StoreMemory
<1> HIDE DEF c
<1>3. /\ call' \in [Tasks -> Calls] /\ call'["web"] = c /\ call'["main"] = call["main"]
  BY <1>1, <1>2, CallSet DEF TypeOK, Tasks
<1>4. netBefore' \subseteq SUBSET Net /\ netBefore \subseteq netBefore'
      /\ (netBefore # {} => Reopens(call[t].mask) \in netBefore')
      /\ (netBefore = {} => netBefore' = {})
  BY <1>1, ReopensInNet DEF TypeOK, StoreMemory
<1>5. remembered' = call[t].mask /\ UNCHANGED <<allowed, nvs, unlockUntil, left, clock, disturbed>>
  BY DEF StoreMemory
<1>6. TypeOK'
  BY <1>1, <1>3, <1>4, <1>5 DEF TypeOK, clock
<1>7. NoRevival'
  BY <1>3, <1>5 DEF NoRevival
<1>8. Network'
  BY <1>1, <1>3, <1>4, <1>5
     DEF Network, OwnStores, Bases, Noted, Shut, Opening, ClosesNet, Reopens
<1>9. QED
  BY <1>6, <1>7, <1>8

LEMMA StoreKeeps == ASSUME EtsInv, NEW t \in Tasks, StoreStep(t) PROVE EtsInv'
<1> USE DEF EtsInv
<1>1. CASE StoreRam(t) \/ StoreMemory(t)
  BY <1>1, RamKeeps, MemoryKeeps
<1>2. CASE StoreAllow(t) \/ StoreLooksUp(t) \/ StoreRemember(t) \/ StoreRefused(t)
  <2>1. call[t].op \in StoreOps => call[t].mask \subseteq Paths
    BY CallFields DEF TypeOK
  <2>2. PICK c \in Calls : c.op \in {"idle", "nvsRemember", "put"}
                            /\ call' = [call EXCEPT ![t] = c]
    <3>1. remembered \subseteq Paths
      BY DEF TypeOK
    <3>2. QED
      BY <1>2, <2>1, <3>1, CallKinds
         DEF StoreAllow, StoreLooksUp, StoreRemember, StoreRefused, Idle, StoreOps
  <2>3. /\ call' \in [Tasks -> Calls] /\ call'[t] = c
        /\ \A u \in Tasks \ {t} : call'[u] = call[u]
    BY <2>2, CallSet DEF TypeOK
  <2>4. nvs' \in [allow : SUBSET Paths, remember : SUBSET Paths]
    BY <1>2, <2>1
       DEF TypeOK, StoreAllow, StoreLooksUp, StoreRemember, StoreRefused, NvsAfter, settings,
           StoreOps
  <2>5. UNCHANGED <<allowed, remembered, netBefore, unlockUntil, left, clock, disturbed>>
    BY <1>2 DEF StoreAllow, StoreLooksUp, StoreRemember, StoreRefused, settings
  <2>6. TypeOK'
    BY <2>3, <2>4, <2>5 DEF TypeOK, clock
  <2>7. NoRevival'
    BY <2>2, <2>3, <2>5 DEF NoRevival, Tasks
  <2>8. Network'
    <3>1. CASE t = "main"
      <4>1. call["main"].op \in {"nvsAllow", "nvsRemember", "put"}
        BY <1>2, <3>1 DEF StoreAllow, StoreLooksUp, StoreRemember, StoreRefused
      <4>2. QED
        BY <2>2, <2>3, <2>5, <3>1, <4>1
           DEF Network, OwnStores, Bases, Noted, Shut, Opening, ClosesNet, Tasks
    <3>2. CASE t = "web"
      BY <2>2, <2>3, <2>5, <3>2
         DEF Network, OwnStores, Bases, Noted, Shut, Opening, ClosesNet, Tasks
    <3>3. QED
      BY <3>1, <3>2 DEF Tasks
  <2>9. QED
    BY <2>6, <2>7, <2>8
<1>3. QED
  BY <1>1, <1>2 DEF StoreStep

(* A task goes on to a step of a call that lies within the settings.         *)
LEMMA GoesOn ==
  ASSUME EtsInv, NEW t \in Tasks, NEW c \in Calls, c.op \notin {"extend", "write"},
         call' = [call EXCEPT ![t] = c],
         UNCHANGED <<allowed, nvs, unlockUntil, left, clock, disturbed>>,
         remembered' \subseteq Paths, netBefore' \subseteq SUBSET Net
  PROVE  /\ TypeOK' /\ NoRevival'
         /\ call'[t] = c /\ \A u \in Tasks \ {t} : call'[u] = call[u]
<1>1. /\ call' \in [Tasks -> Calls] /\ call'[t] = c
      /\ \A u \in Tasks \ {t} : call'[u] = call[u]
  BY CallSet DEF EtsInv, TypeOK
<1>2. TypeOK'
  BY <1>1 DEF EtsInv, TypeOK, clock
<1>3. NoRevival'
  BY <1>1 DEF EtsInv, NoRevival, Tasks
<1>4. QED
  BY <1>1, <1>2, <1>3

LEMMA SetKeeps ==
  ASSUME EtsInv, NEW mask \in Masks, SetAllowed(mask)
  PROVE  EtsInv'
<1> DEFINE c == Store(mask, TRUE)
<1>1. c \in Calls /\ c.op = "store"
  BY MasksAssumption, CallKinds DEF Store
<1>2. call' = [call EXCEPT !["web"] = c]
  BY DEF SetAllowed
<1> HIDE DEF c
<1>3. TypeOK' /\ NoRevival' /\ call'["web"] = c /\ call'["main"] = call["main"]
  BY <1>1, <1>2, GoesOn DEF SetAllowed, settings, EtsInv, TypeOK, Tasks
<1>4. UNCHANGED <<allowed, remembered, netBefore>>
  BY DEF SetAllowed, settings
<1>5. OwnStores' /\ Bases'
  BY <1>1, <1>3 DEF EtsInv, Network, OwnStores, Bases
<1>6. Noted' /\ Shut' /\ Opening'
  BY <1>3, <1>4 DEF EtsInv, Network, Noted, Shut, Opening
<1>7. QED
  BY <1>3, <1>5, <1>6 DEF EtsInv, Network

(* A button's step ends in a store of the main task.                        *)
LEMMA MainStores ==
  ASSUME EtsInv, NEW mask \in SUBSET Paths, call["main"].op # "keep",
         call' = [call EXCEPT !["main"] = Store(mask, FALSE)],
         UNCHANGED <<allowed, nvs, netBefore, unlockUntil, left, clock, disturbed>>,
         remembered' \subseteq Paths,
         netBefore # {} => Reopens(remembered') \in netBefore,
         netBefore # {} /\ allowed \cap Net # {} => mask \cap Net = {},
         netBefore # {} /\ mask \cap Net # {} => mask \cap Net \in netBefore
  PROVE  EtsInv'
<1> DEFINE c == Store(mask, FALSE)
<1>1. c \in Calls /\ c.op = "store" /\ c.mask = mask /\ ~c.remember
  BY CallKinds DEF Store
<1> HIDE DEF c
<1>2. TypeOK' /\ NoRevival' /\ call'["main"] = c /\ call'["web"] = call["web"]
  <2>1. call' = [call EXCEPT !["main"] = c]
    BY DEF c
  <2>2. QED
    BY <1>1, <2>1, GoesOn DEF Tasks, EtsInv, TypeOK
<1>3. OwnStores' /\ Bases'
  BY <1>1, <1>2 DEF EtsInv, Network, OwnStores, Bases
<1>4. Noted' /\ Shut' /\ Opening'
  <2>1. Noted'
    BY <1>1, <1>2 DEF Noted, Reopens
  <2>2. call'["main"].op = "store" /\ call'["main"].mask = mask
    BY <1>1, <1>2
  <2>3. Shut'
    <3>1. netBefore' # {} /\ allowed' \cap Net # {} => mask \cap Net = {}
      OBVIOUS
    <3>2. QED
      BY <2>2, <3>1 DEF Shut, ClosesNet
  <2>4. Opening'
    <3>1. netBefore' # {} /\ mask \cap Net # {} => mask \cap Net \in netBefore'
      OBVIOUS
    <3>2. QED
      BY <2>2, <3>1 DEF Opening
  <2>5. QED
    BY <2>1, <2>3, <2>4
<1>5. QED
  BY <1>2, <1>3, <1>4 DEF EtsInv, Network

LEMMA TogglesKeep == EtsInv /\ ToggleStep => EtsInv'
<1> SUFFICES ASSUME EtsInv, ToggleStep PROVE EtsInv'
  OBVIOUS
<1>1. /\ allowed \subseteq Paths /\ remembered \subseteq Paths /\ netBefore \subseteq SUBSET Net
      /\ Net \subseteq Paths /\ FoundOpen \subseteq SUBSET Net
  BY DEF EtsInv, TypeOK, Paths, FoundOpen
<1>2. CASE ToggleTp
  <2> DEFINE mask == (allowed \ {"tp"}) \cup ({"tp"} \ allowed)
  <2>1. mask \in SUBSET Paths /\ mask \cap Net = allowed \cap Net
    BY <1>1 DEF Paths, Net
  <2> HIDE DEF mask
  <2>2. /\ call["main"].op = "idle" /\ call' = [call EXCEPT !["main"] = Store(mask, FALSE)]
        /\ UNCHANGED <<settings, unlockUntil, left, clock, disturbed>>
    BY <1>2 DEF ToggleTp, mask, Idle
  <2>3. /\ netBefore # {} => Reopens(remembered) \in netBefore
        /\ netBefore # {} => allowed \cap Net = {}
    BY <2>2 DEF EtsInv, Network, Noted, Shut, ClosesNet
  <2>4. QED
    BY <1>1, <2>1, <2>2, <2>3, MainStores DEF settings
<1>3. CASE (ToggleNet /\ allowed \cap Net # {}) \/ (ToggleAll /\ allowed # {})
  <2>1. PICK mask \in SUBSET Paths :
          /\ mask \cap Net = {} /\ call' = [call EXCEPT !["main"] = Remember(allowed, mask)]
    <3>1. CASE ToggleNet /\ allowed \cap Net # {}
      <4>1. allowed \ Net \in SUBSET Paths /\ (allowed \ Net) \cap Net = {}
        BY <1>1
      <4>2. QED
        BY <3>1, <4>1 DEF ToggleNet
    <3>2. CASE ToggleAll /\ allowed # {}
      BY <3>2 DEF ToggleAll
    <3>3. QED
      BY <1>3, <3>1, <3>2
  <2> DEFINE c == Remember(allowed, mask)
  <2>2. c \in Calls /\ c.op = "remember" /\ c.was = allowed /\ c.mask = mask
    BY <1>1, CallKinds DEF Remember
  <2>3. call' = [call EXCEPT !["main"] = c]
    BY <2>1
  <2> HIDE DEF c
  <2>4. netBefore' = FoundOpen
        /\ UNCHANGED <<allowed, remembered, nvs, unlockUntil, left, clock, disturbed>>
    BY <1>3 DEF ToggleNet, ToggleAll
  <2>5. TypeOK' /\ NoRevival' /\ call'["main"] = c /\ call'["web"] = call["web"]
    BY <1>1, <2>2, <2>3, <2>4, GoesOn DEF Tasks
  <2>6. netBefore' # {} => Reopens(allowed) \in netBefore'
    BY <2>4 DEF FoundOpen, Reopens
  <2>7. Network'
    BY <2>1, <2>2, <2>4, <2>5, <2>6
       DEF EtsInv, Network, OwnStores, Bases, Noted, Shut, Opening, ClosesNet
  <2>8. QED
    BY <2>5, <2>7 DEF EtsInv
<1>4. CASE (ToggleNet /\ allowed \cap Net = {}) \/ (ToggleAll /\ allowed = {})
  <2>1. PICK base \in SUBSET Paths, button \in {"net", "all"} :
          /\ base \cap Net = {} /\ call' = [call EXCEPT !["main"] = Open(base, button)]
    <3>1. CASE ToggleNet /\ allowed \cap Net = {}
      BY <1>1, <3>1 DEF ToggleNet
    <3>2. CASE ToggleAll /\ allowed = {}
      BY <3>2 DEF ToggleAll
    <3>3. QED
      BY <1>4, <3>1, <3>2
  <2> DEFINE c == Open(base, button)
  <2>2. c \in Calls /\ c.op = "open" /\ c.base = base
    BY CallKinds DEF Open
  <2>3. call' = [call EXCEPT !["main"] = c]
    BY <2>1
  <2> HIDE DEF c
  <2>4. /\ UNCHANGED <<allowed, remembered, nvs, netBefore, unlockUntil, left, clock, disturbed>>
        /\ call["main"].op = "idle" /\ allowed \cap Net = {}
    BY <1>4 DEF ToggleNet, ToggleAll, Idle
  <2>5. TypeOK' /\ NoRevival' /\ call'["main"] = c /\ call'["web"] = call["web"]
    BY <1>1, <2>2, <2>3, <2>4, GoesOn DEF Tasks
  <2>6. Network'
    BY <2>1, <2>2, <2>4, <2>5
       DEF EtsInv, Network, OwnStores, Bases, Noted, Shut, Opening, ClosesNet
  <2>7. QED
    BY <2>5, <2>6 DEF EtsInv
<1>5. CASE ToggleNotes
  <2>1. /\ call["main"].op = "remember" /\ call["main"].mask \in SUBSET Paths
        /\ call["main"].was \subseteq Paths /\ call["main"].mask \cap Net = {}
        /\ netBefore # {} => Reopens(call["main"].was) \in netBefore
    BY <1>5, CallFields DEF ToggleNotes, EtsInv, TypeOK, Tasks, Network, Bases, Noted
  <2>2. /\ remembered' = call["main"].was
        /\ call' = [call EXCEPT !["main"] = Store(call["main"].mask, FALSE)]
        /\ UNCHANGED <<allowed, nvs, netBefore, unlockUntil, left, clock, disturbed>>
    BY <1>5 DEF ToggleNotes
  <2>3. QED
    BY <2>1, <2>2, MainStores
<1>6. CASE ToggleOpens
  <2> DEFINE mask == Opened(call["main"])
  <2>1. /\ call["main"].op = "open" /\ call["main"].base \subseteq Paths
        /\ call["main"].base \cap Net = {}
        /\ netBefore # {} => Reopens(remembered) \in netBefore /\ allowed \cap Net = {}
    BY <1>6, CallFields
       DEF ToggleOpens, EtsInv, TypeOK, Tasks, Network, Bases, Noted, Shut, ClosesNet
  <2>2. Reopens(remembered) \subseteq Net
    BY DEF Reopens
  <2>3. mask \in SUBSET Paths /\ (mask \cap Net # {} => mask \cap Net = Reopens(remembered))
    <3>1. CASE call["main"].button = "net"
      BY <1>1, <2>1, <2>2, <3>1 DEF Opened
    <3>2. CASE call["main"].button # "net"
      BY <1>1, <3>2 DEF Opened, Reopens
    <3>3. QED
      BY <3>1, <3>2
  <2> HIDE DEF mask
  <2>4. /\ call' = [call EXCEPT !["main"] = Store(mask, FALSE)]
        /\ UNCHANGED <<settings, unlockUntil, left, clock, disturbed>>
    BY <1>6 DEF ToggleOpens, mask
  <2>5. QED
    BY <1>1, <2>1, <2>3, <2>4, MainStores DEF settings
<1>7. QED
  BY <1>2, <1>3, <1>4, <1>5, <1>6 DEF ToggleStep, ToggleNet, ToggleAll
----------------------------------------------------------------------------
(* The temporary unlock does not touch the settings.                        *)
LEMMA NetworkRests ==
  ASSUME EtsInv, UNCHANGED settings, call'["web"] = call["web"],
         \/ call'["main"] = call["main"]
         \/ call["main"].op \notin {"store", "remember"}
              /\ call'["main"].op \in {"idle", "expire", "extend", "write"}
  PROVE  Network'
BY DEF EtsInv, Network, OwnStores, Bases, Noted, Shut, Opening, ClosesNet, settings

LEMMA UnlockKeeps ==
  ASSUME EtsInv, NEW t \in Tasks, UnlockOn(t) \/ UnlockOff(t)
  PROVE  EtsInv'
<1>1. UNCHANGED <<settings, clock, call>>
  BY DEF UnlockOn, UnlockOff
<1>2. disturbed' \in BOOLEAN
      /\ (t = "web" /\ Deciding => disturbed')
  BY DEF UnlockOn, UnlockOff, UnlockCrosses, EtsInv, TypeOK
<1>3. unlockUntil' \in 0 .. Span - 1 /\ left' \in 0 .. UnlockMs
  <2>1. CASE UnlockOn(t)
    <3>1. After(now, UnlockMs) \in 0 .. Span - 1
      BY AfterInRange, TimesKnown DEF Times, EtsInv, TypeOK
    <3>2. QED
      BY <2>1, <3>1, DeadlineInRange, TimesKnown DEF UnlockOn, Times
  <2>2. CASE UnlockOff(t)
    BY <2>2, TimesKnown DEF UnlockOff, Times
  <2>3. QED
    BY <2>1, <2>2
<1>4. TypeOK'
  BY <1>1, <1>2, <1>3 DEF EtsInv, TypeOK, settings, clock
<1>5. NoRevival'
  <2>1. CASE t = "web"
    BY <1>1, <1>2, <2>1 DEF NoRevival, Deciding
  <2>2. CASE t = "main"
    BY <1>1, <2>2 DEF NoRevival, UnlockOn, UnlockOff, MayUnlock, Idle
  <2>3. QED
    BY <2>1, <2>2 DEF Tasks
<1>6. QED
  BY <1>1, <1>4, <1>5, NetworkRests DEF EtsInv

(* loop() and permits(): calls of the main task that store nothing.         *)
LEMMA MainGoesOn ==
  ASSUME EtsInv, NEW c \in Calls, call' = [call EXCEPT !["main"] = c],
         c.op \in {"idle", "expire", "extend", "write"},
         call["main"].op \in {"idle", "expire", "extend", "write"},
         UNCHANGED <<settings, now, left, disturbed>>, unlockUntil' \in 0 .. Span - 1,
         sinceLoop' \in 0 .. Stall,
         c.op \in {"extend", "write"} /\ unlockUntil' = 0 => disturbed
  PROVE  EtsInv'
<1>1. /\ call' \in [Tasks -> Calls] /\ call'["main"] = c /\ call'["web"] = call["web"]
  BY CallSet DEF EtsInv, TypeOK, Tasks
<1>2. TypeOK'
  BY <1>1 DEF EtsInv, TypeOK, settings
<1>3. NoRevival'
  BY <1>1 DEF NoRevival
<1>4. QED
  BY <1>1, <1>2, <1>3, NetworkRests DEF EtsInv

LEMMA LoopPassKeeps ==
  EtsInv /\ (LoopKeeps \/ LoopExpired \/ LoopClears) => EtsInv'
<1>1. ASSUME EtsInv, LoopKeeps PROVE EtsInv'
  <2>1. TypeOK'
    BY <1>1, TimeAssumption DEF EtsInv, TypeOK, LoopKeeps, settings
  <2>2. QED
    BY <1>1, <2>1, NetworkRests DEF EtsInv, LoopKeeps, NoRevival
<1>2. ASSUME EtsInv, LoopExpired PROVE EtsInv'
  <2> DEFINE c == [op |-> "expire"]
  <2>1. c \in Calls /\ c.op = "expire"
    BY CallKinds
  <2>2. call' = [call EXCEPT !["main"] = c]
    BY <1>2 DEF LoopExpired
  <2> HIDE DEF c
  <2>3. QED
    <3>1. call["main"].op = "idle"
      BY <1>2 DEF LoopExpired, Idle
    <3>2. QED
      BY <1>2, <2>1, <2>2, <3>1, MainGoesOn DEF LoopExpired, EtsInv, TypeOK, clock
<1>3. ASSUME EtsInv, LoopClears PROVE EtsInv'
  <2>1. Idle \in Calls /\ Idle.op = "idle"
    BY CallKinds DEF Idle
  <2>2. 0 \in 0 .. Span - 1 /\ 0 \in 0 .. Stall
    BY TimeAssumption
  <2>3. QED
    BY <1>3, <2>1, <2>2, MainGoesOn DEF LoopClears, settings
<1>4. QED
  BY <1>1, <1>2, <1>3

LEMMA PermitsKeep ==
  ASSUME EtsInv,
         \/ \E path \in Paths : PermitUnlocked(path)
         \/ ExtendCompare \/ ExtendWrite
  PROVE  EtsInv'
<1>1. ASSUME NEW path \in Paths, PermitUnlocked(path) PROVE EtsInv'
  <2> DEFINE c == [op |-> "extend"]
  <2>1. c \in Calls /\ c.op = "extend"
    BY CallKinds
  <2>2. call' = [call EXCEPT !["main"] = c]
    BY <1>1 DEF PermitUnlocked
  <2> HIDE DEF c
  <2>3. QED
    <3>1. call["main"].op = "idle"
      BY <1>1 DEF PermitUnlocked, Idle
    <3>2. QED
      BY <1>1, <2>1, <2>2, <3>1, MainGoesOn
         DEF PermitUnlocked, ByUnlock, EtsInv, TypeOK, clock
<1>2. CASE ExtendCompare
  <2>1. Deadline(AtLeast) \in 0 .. Span - 1
    BY AfterInRange, DeadlineInRange, TimesKnown DEF Times, AtLeast, EtsInv, TypeOK
  <2>2. PICK c \in Calls : c.op \in {"idle", "write"} /\ call' = [call EXCEPT !["main"] = c]
    BY <1>2, <2>1, CallKinds DEF ExtendCompare, Idle
  <2>3. QED
    BY <1>2, <2>2, MainGoesOn DEF ExtendCompare, EtsInv, TypeOK, NoRevival, clock
<1>3. CASE ExtendWrite
  <2>1. unlockUntil' \in 0 .. Span - 1
    BY <1>3, CallFields DEF ExtendWrite, EtsInv, TypeOK, Tasks
  <2>2. Idle \in Calls /\ Idle.op = "idle"
    BY CallKinds DEF Idle
  <2>3. QED
    BY <1>3, <2>1, <2>2, MainGoesOn DEF ExtendWrite, EtsInv, TypeOK, clock
<1>4. QED
  BY <1>1, <1>2, <1>3

(* Time, and a restart.                                                     *)
LEMMA TickKeeps == EtsInv /\ Tick => EtsInv'
<1> SUFFICES ASSUME EtsInv, Tick PROVE EtsInv'
  OBVIOUS
<1>1. now' \in 0 .. Span - 1
  BY AfterInRange DEF Tick, EtsInv, TypeOK
<1>2. sinceLoop' \in 0 .. Stall /\ left' \in 0 .. UnlockMs
  BY TimeAssumption DEF Tick, EtsInv, TypeOK
<1>3. TypeOK'
  BY <1>1, <1>2 DEF Tick, EtsInv, TypeOK, settings
<1>4. QED
  BY <1>3, NetworkRests DEF Tick, EtsInv, NoRevival

LEMMA RestartKeeps == EtsInv /\ Restart => EtsInv'
<1> SUFFICES ASSUME EtsInv, Restart PROVE EtsInv'
  OBVIOUS
<1>1. TypeOK'
  <2>1. call' \in [Tasks -> Calls]
    BY CallKinds DEF Restart
  <2>2. {unlockUntil', now'} \subseteq 0 .. Span - 1 /\ sinceLoop' \in 0 .. Stall
        /\ left' \in 0 .. UnlockMs
    BY TimeAssumption DEF Restart
  <2>3. QED
    BY <2>1, <2>2 DEF Restart, EtsInv, TypeOK
<1>2. QED
  BY <1>1
     DEF Restart, EtsInv, NoRevival, Network, OwnStores, Bases, Noted, Shut, Opening, ClosesNet, Idle, Tasks

LEMMA StepInv == EtsInv /\ [Next]_vars => EtsInv'
<1> SUFFICES ASSUME EtsInv, [Next]_vars PROVE EtsInv'
  OBVIOUS
<1>1. CASE Next
  BY <1>1, SetKeeps, TogglesKeep, UnlockKeeps, PermitsKeep, StoreKeeps, LoopPassKeeps, TickKeeps,
     RestartKeeps DEF Next, MainStep, Tasks
<1>2. CASE UNCHANGED vars
  BY <1>2
     DEF vars, EtsInv, TypeOK, NoRevival, Network, OwnStores, Bases, Noted, Shut, Opening, ClosesNet
<1>3. QED
  BY <1>1, <1>2

LEMMA Invariant == Spec => []EtsInv
<1>1. QED
  BY InitInv, StepInv, PTL DEF Spec
----------------------------------------------------------------------------
(* Masks, deadlines and calls stay in range, for any range of millis().     *)
THEOREM TypeCorrect == Spec => []TypeOK
<1>1. EtsInv => TypeOK
  BY DEF EtsInv
<1>2. QED
  BY <1>1, Invariant, PTL

(* A button that opens the network opens what a button found open when it   *)
(* was pressed to close it, or what the dashboard set while it closed,      *)
(* wherever the dashboard's store() falls between the steps of the buttons  *)
(* (ets_access.cpp:106-128, 177-212).                                       *)
THEOREM NetIsRestored == Spec => NetRestored
<1>1. EtsInv => (StoreRam("main") /\ netBefore # {} /\ allowed' \cap Net # {}
                   => allowed' \cap Net \in netBefore)
  BY DEF EtsInv, Network, Opening, StoreRam
<1>2. QED
  BY <1>1, Invariant, PTL DEF NetRestored

(* permits() never revives an unlock that has ended, unless the dashboard   *)
(* ended it during the extension (ets_access.cpp:222-232).                  *)
THEOREM EndedIsEnded == Spec => EndedStaysEnded
<1>1. EtsInv /\ [Next]_vars =>
        (unlockUntil = 0 /\ unlockUntil' # 0 /\ ~disturbed
           => \E t \in Tasks : UnlockOn(t))
  <2> SUFFICES ASSUME EtsInv, [Next]_vars, unlockUntil = 0, unlockUntil' # 0,
                      ~disturbed
               PROVE  \E t \in Tasks : UnlockOn(t)
    OBVIOUS
  <2>1. ~ExtendWrite
    BY DEF EtsInv, NoRevival, ExtendWrite
  <2>2. QED
    BY <2>1 DEF Next, MainStep, StoreStep, SetAllowed, ToggleStep, ToggleTp, ToggleNet, ToggleAll,
                ToggleNotes, ToggleOpens, UnlockOff, PermitUnlocked, StoreRam, StoreMemory,
                StoreAllow, StoreLooksUp, StoreRemember, StoreRefused, LoopKeeps,
                LoopExpired, LoopClears, ExtendCompare, Tick, Restart, vars
<1>2. QED
  BY <1>1, Invariant, PTL DEF EndedStaysEnded, Spec
----------------------------------------------------------------------------
(* How far a lies ahead of b on the wrapping clock.                         *)
Ahead(a, b) == IF a >= b THEN a - b ELSE a - b + Span

LEMMA WrappedDifference ==
  ASSUME NEW a \in 0 .. Span - 1, NEW b \in 0 .. Span - 1
  PROVE  (a - b) % Span = Ahead(a, b) /\ Ahead(a, b) \in 0 .. Span - 1
BY TimesKnown DEF Times, Ahead

LEMMA WrappedSum ==
  ASSUME NEW t \in 0 .. Span - 1, NEW ms \in 0 .. Span - 1
  PROVE  After(t, ms) = IF t + ms < Span THEN t + ms ELSE t + ms - Span
BY TimesKnown DEF Times, After

(* A deadline set ms from now lies ms ahead, or one more.                   *)
LEMMA DeadlineAhead ==
  ASSUME NEW t \in 0 .. Span - 1, NEW ms \in Nat, ms =< UnlockMs
  PROVE  Ahead(Deadline(After(t, ms)), t) \in ms .. ms + 1
<1>1. UnlockMs + 1 < Span \div 2 /\ Span \in Nat /\ UnlockMs \in Nat /\ Span % 2 = 0
  BY TimeAssumption
<1>2. ms + 1 < Span /\ ms \in 0 .. Span - 1
  BY <1>1
<1> DEFINE a == After(t, ms)
<1>3. a = IF t + ms < Span THEN t + ms ELSE t + ms - Span
  BY <1>2, WrappedSum
<1>4. a \in 0 .. Span - 1 /\ Deadline(a) \in 0 .. Span - 1
  BY <1>1, <1>2, <1>3, DeadlineInRange
<1>5. Deadline(a) \in a .. a + 1
  BY <1>4 DEF Deadline
<1> HIDE DEF a
<1>6. QED
  BY <1>1, <1>2, <1>3, <1>4, <1>5 DEF Ahead, a

(* A deadline ahead within half the range has not expired, and one that is  *)
(* nearer than a new one is what permits() replaces.                        *)
LEMMA NotExpired ==
  ASSUME TypeOK, Ahead(unlockUntil, now) \in 1 .. UnlockMs + 1
  PROVE  ~Expired
<1>1. UnlockMs + 1 < Span \div 2 /\ Span \in Nat /\ UnlockMs \in Nat /\ Span > 0
      /\ Span % 2 = 0
  BY TimeAssumption
<1>2. now \in 0 .. Span - 1 /\ unlockUntil \in 0 .. Span - 1
  BY DEF TypeOK
<1>3. (now - unlockUntil) % Span = Ahead(now, unlockUntil)
  BY <1>2, WrappedDifference
<1>4. Ahead(now, unlockUntil) = Span - Ahead(unlockUntil, now)
  BY <1>1, <1>2 DEF Ahead
<1>5. Ahead(now, unlockUntil) >= Span \div 2 /\ Ahead(now, unlockUntil) < Span
  BY <1>1, <1>2, <1>4 DEF Ahead
<1>6. Signed(now - unlockUntil) = Ahead(now, unlockUntil) - Span
  <2>1. Ahead(now, unlockUntil) \in Int
    BY <1>1, <1>2 DEF Ahead
  <2>2. ~(Ahead(now, unlockUntil) < Span \div 2)
    BY <1>1, <1>5, <2>1
  <2>3. QED
    BY <1>3, <2>2 DEF Signed
<1>7. Ahead(now, unlockUntil) - Span < 0 /\ Ahead(now, unlockUntil) - Span \in Int
  BY <1>1, <1>2, <1>5 DEF Ahead
<1>8. QED
  BY <1>6, <1>7 DEF Expired

LEMMA ExtensionIsLater ==
  ASSUME TypeOK, Ahead(unlockUntil, now) \in 1 .. UnlockMs + 1,
         Signed(AtLeast - unlockUntil) > 0
  PROVE  Ahead(unlockUntil, now) < GraceMs
<1>1. /\ UnlockMs + 1 < Span \div 2 /\ Span \in Nat /\ UnlockMs \in Nat /\ Span > 0
      /\ Span % 2 = 0 /\ GraceMs \in Nat /\ GraceMs =< UnlockMs
  BY TimeAssumption
<1>2. now \in 0 .. Span - 1 /\ unlockUntil \in 0 .. Span - 1 /\ GraceMs \in 0 .. Span - 1
  BY <1>1 DEF TypeOK
<1>3. AtLeast = IF now + GraceMs < Span THEN now + GraceMs ELSE now + GraceMs - Span
  BY <1>2, WrappedSum DEF AtLeast
<1>4. AtLeast \in 0 .. Span - 1
  BY <1>1, <1>2, <1>3
<1>5. (AtLeast - unlockUntil) % Span = Ahead(AtLeast, unlockUntil)
  BY <1>2, <1>4, WrappedDifference
<1>6. Ahead(AtLeast, unlockUntil) > 0 /\ Ahead(AtLeast, unlockUntil) < Span \div 2
  <2>1. Ahead(AtLeast, unlockUntil) \in 0 .. Span - 1
    BY <1>2, <1>4, WrappedDifference
  <2>2. QED
    BY <1>1, <1>5, <2>1 DEF Signed
<1>7. QED
  BY <1>1, <1>2, <1>3, <1>4, <1>6 DEF Ahead

(* The invariant of the period: what is left of it lies before the deadline *)
(* and before the one permits() is about to write.                          *)
Running == left > 0 /\ ~disturbed
Lasting ==
  Running =>
    /\ unlockUntil # 0 /\ Ahead(unlockUntil, now) \in left .. UnlockMs + 1
    /\ call["main"].op # "expire"
    /\ call["main"].op = "write" =>
         call["main"].until # 0 /\ Ahead(call["main"].until, now) \in left .. UnlockMs + 1

LEMMA LastingRests ==
  ASSUME Lasting, UNCHANGED <<unlockUntil, now, left>>,
         disturbed => disturbed',
         call'["main"] = call["main"] \/ call'["main"].op \notin {"write", "expire"}
  PROVE  Lasting'
BY DEF Lasting, Running

(* A store on either task leaves the main task out of the unlock.            *)
LEMMA StoresElsewhere ==
  ASSUME TypeOK,
         \/ \E mask \in Masks : SetAllowed(mask)
         \/ ToggleStep
         \/ \E t \in Tasks : StoreStep(t)
  PROVE  call'["main"] = call["main"] \/ call'["main"].op \notin {"write", "expire"}
<1>1. PICK t \in Tasks : \E c :
        call' = [call EXCEPT ![t] = c] /\ c.op \notin {"write", "expire"}
  <2>1. ASSUME NEW t \in Tasks, StoreStep(t)
        PROVE  \E c : call' = [call EXCEPT ![t] = c] /\ c.op \notin {"write", "expire"}
    BY <2>1 DEF StoreStep, StoreRam, StoreMemory, StoreAllow, StoreLooksUp, StoreRemember,
                StoreRefused, Idle
  <2>2. CASE \E mask \in Masks : SetAllowed(mask)
    <3>1. PICK mask \in Masks : call' = [call EXCEPT !["web"] = Store(mask, TRUE)]
      BY <2>2 DEF SetAllowed
    <3>2. Store(mask, TRUE).op = "store"
      BY DEF Store
    <3>3. QED
      BY <3>1, <3>2 DEF Tasks
  <2>3. CASE ToggleTp \/ ToggleNotes \/ ToggleOpens
    <3>1. PICK mask : call' = [call EXCEPT !["main"] = Store(mask, FALSE)]
      BY <2>3 DEF ToggleTp, ToggleNotes, ToggleOpens
    <3>2. Store(mask, FALSE).op = "store"
      BY DEF Store
    <3>3. QED
      BY <3>1, <3>2 DEF Tasks
  <2>4. CASE ToggleNet \/ ToggleAll
    <3>1. PICK mask, base, button :
            \/ call' = [call EXCEPT !["main"] = Remember(base, mask)]
            \/ call' = [call EXCEPT !["main"] = Open(base, button)]
      BY <2>4 DEF ToggleNet, ToggleAll
    <3>2. Remember(base, mask).op = "remember" /\ Open(base, button).op = "open"
      BY DEF Remember, Open
    <3>3. QED
      BY <3>1, <3>2 DEF Tasks
  <2>5. QED
    BY <2>1, <2>2, <2>3, <2>4 DEF ToggleStep
<1>2. QED
  BY <1>1 DEF TypeOK, Tasks

LEMMA LastingStores ==
  ASSUME TypeOK, Lasting,
         \/ \E mask \in Masks : SetAllowed(mask)
         \/ ToggleStep
         \/ \E t \in Tasks : StoreStep(t)
  PROVE  Lasting'
<1>1. UNCHANGED <<unlockUntil, now, left>>
  BY DEF SetAllowed, ToggleStep, ToggleTp, ToggleNet, ToggleAll, ToggleNotes, ToggleOpens,
         StoreStep, StoreRam, StoreMemory, StoreAllow, StoreLooksUp, StoreRemember, StoreRefused, clock
<1>2. disturbed => disturbed'
  BY DEF SetAllowed, ToggleStep, ToggleTp, ToggleNet, ToggleAll, ToggleNotes, ToggleOpens,
         StoreStep, StoreRam, StoreMemory, StoreAllow, StoreLooksUp, StoreRemember, StoreRefused
<1>3. call'["main"] = call["main"] \/ call'["main"].op \notin {"write", "expire"}
  BY StoresElsewhere
<1>4. QED
  BY <1>1, <1>2, <1>3, LastingRests

LEMMA LastingUnlock ==
  ASSUME EtsInv, Lasting, NEW t \in Tasks, UnlockOn(t) \/ UnlockOff(t)
  PROVE  Lasting'
<1>1. CASE UnlockOff(t)
  <2>1. left' = 0
    BY <1>1 DEF UnlockOff
  <2>2. QED
    BY <2>1 DEF Lasting, Running
<1>2. CASE UnlockOn(t) /\ t = "web" /\ Deciding
  <2>1. disturbed'
    BY <1>2 DEF UnlockOn, UnlockCrosses
  <2>2. QED
    BY <2>1 DEF Lasting, Running
<1>3. CASE UnlockOn(t) /\ ~(t = "web" /\ Deciding)
  <2>1. call["main"].op \notin {"expire", "write"}
    BY <1>3 DEF UnlockOn, MayUnlock, Deciding, Tasks, Idle
  <2>2. now \in 0 .. Span - 1 /\ After(now, UnlockMs) \in 0 .. Span - 1 /\ UnlockMs \in Nat
    BY AfterInRange, TimesKnown DEF Times, EtsInv, TypeOK
  <2>3. Ahead(Deadline(After(now, UnlockMs)), now) \in UnlockMs .. UnlockMs + 1
    BY <2>2, DeadlineAhead
  <2>4. /\ unlockUntil' = Deadline(After(now, UnlockMs)) /\ left' = UnlockMs
        /\ UNCHANGED <<now, call>>
    BY <1>3 DEF UnlockOn, clock
  <2>5. unlockUntil' # 0
    BY <2>2, <2>4, DeadlineInRange
  <2>6. (Ahead(unlockUntil, now) \in left .. UnlockMs + 1)'
    BY <2>3, <2>4 DEF Ahead
  <2>7. QED
    BY <2>1, <2>4, <2>5, <2>6 DEF Lasting
<1>4. QED
  BY <1>1, <1>2, <1>3

LEMMA LastingMain ==
  ASSUME EtsInv, Lasting,
         \/ LoopKeeps \/ LoopExpired \/ LoopClears
         \/ \E path \in Paths : PermitUnlocked(path)
         \/ ExtendCompare \/ ExtendWrite
  PROVE  Lasting'
<1>1. /\ TypeOK /\ left \in Nat /\ left =< UnlockMs /\ UnlockMs \in Nat
      /\ GraceMs \in Nat /\ GraceMs =< UnlockMs
  BY TimeAssumption DEF EtsInv, TypeOK
<1>2. Running => Ahead(unlockUntil, now) \in 1 .. UnlockMs + 1
  BY <1>1 DEF Lasting, Running
<1>3. CASE LoopKeeps
  BY <1>3, LastingRests DEF LoopKeeps
<1>4. CASE LoopExpired
  <2>1. ~Running
    BY <1>1, <1>2, <1>4, NotExpired DEF LoopExpired
  <2>2. QED
    BY <1>4, <2>1 DEF Lasting, Running, LoopExpired
<1>5. CASE LoopClears
  BY <1>5 DEF LoopClears, Lasting, Running
<1>6. CASE \E path \in Paths : PermitUnlocked(path)
  <2>1. call'["main"].op = "extend"
    BY <1>1, <1>6 DEF PermitUnlocked, TypeOK, Tasks
  <2>2. UNCHANGED <<unlockUntil, now, left, disturbed>>
    BY <1>6 DEF PermitUnlocked, clock
  <2>3. QED
    BY <2>1, <2>2, LastingRests
<1>7. CASE ExtendCompare
  <2>1. UNCHANGED <<unlockUntil, now, left, disturbed>>
    BY <1>7 DEF ExtendCompare, clock
  <2>2. CASE Signed(AtLeast - unlockUntil) > 0
    <3>1. call'["main"] = [op |-> "write", until |-> Deadline(AtLeast)]
      BY <1>1, <1>7, <2>2 DEF ExtendCompare, TypeOK, Tasks
    <3>2. Running => Ahead(unlockUntil, now) < GraceMs
      BY <1>1, <1>2, <2>2, ExtensionIsLater
    <3>3. Ahead(Deadline(AtLeast), now) \in GraceMs .. GraceMs + 1
      BY <1>1, DeadlineAhead DEF AtLeast, TypeOK
    <3>4. Running => Ahead(Deadline(AtLeast), now) \in left .. UnlockMs + 1
      BY <1>1, <3>2, <3>3 DEF Lasting, TypeOK
    <3>5. (Running => /\ call["main"].until # 0
                      /\ Ahead(call["main"].until, now) \in left .. UnlockMs + 1)'
      <4>1. AtLeast \in 0 .. Span - 1
        BY <1>1, AfterInRange, TimesKnown DEF AtLeast, Times, TypeOK
      <4>2. Deadline(AtLeast) # 0
        BY <4>1, DeadlineInRange
      <4>3. QED
        BY <2>1, <3>1, <3>4, <4>2 DEF Running, Ahead
    <3>6. QED
      BY <2>1, <3>1, <3>5 DEF Lasting, Running, Ahead
  <2>3. CASE ~(Signed(AtLeast - unlockUntil) > 0)
    <3>1. call'["main"].op = "idle"
      BY <1>1, <1>7, <2>3 DEF ExtendCompare, TypeOK, Tasks, Idle
    <3>2. QED
      BY <2>1, <3>1, LastingRests
  <2>4. QED
    BY <2>2, <2>3
<1>8. CASE ExtendWrite
  <2>1. /\ unlockUntil' = call["main"].until /\ call["main"].op = "write"
        /\ UNCHANGED <<now, left, disturbed>> /\ call'["main"].op = "idle"
    BY <1>1, <1>8 DEF ExtendWrite, clock, TypeOK, Tasks, Idle
  <2>2. Running => Ahead(unlockUntil', now) \in left .. UnlockMs + 1
    BY <2>1 DEF Lasting
  <2>3. Running => unlockUntil' # 0
    BY <2>1 DEF Lasting
  <2>4. QED
    BY <2>1, <2>2, <2>3 DEF Lasting, Running, Ahead
<1>9. QED
  BY <1>3, <1>4, <1>5, <1>6, <1>7, <1>8

(* A millisecond brings a deadline that lies ahead nearer by one.           *)
LEMMA TickNears ==
  ASSUME NEW a \in 0 .. Span - 1, NEW t \in 0 .. Span - 1, Ahead(a, t) >= 1
  PROVE  Ahead(a, After(t, 1)) = Ahead(a, t) - 1
<1>1. Span \in Nat /\ 1 \in 0 .. Span - 1
  BY TimeAssumption
<1>2. After(t, 1) = IF t + 1 < Span THEN t + 1 ELSE t + 1 - Span
  BY <1>1, WrappedSum
<1>3. QED
  BY <1>1, <1>2 DEF Ahead

LEMMA LastingTick ==
  ASSUME EtsInv, Lasting, Tick
  PROVE  Lasting'
<1>1. TypeOK
  BY DEF EtsInv
<1>2. /\ now' = After(now, 1) /\ left' = IF left = 0 THEN 0 ELSE left - 1
      /\ UNCHANGED <<unlockUntil, call, disturbed>>
  BY DEF Tick
<1>3. left \in 0 .. UnlockMs /\ UnlockMs \in Nat /\ now \in 0 .. Span - 1
      /\ unlockUntil \in 0 .. Span - 1
  BY <1>1, TimeAssumption DEF TypeOK
<1>4. SUFFICES ASSUME Running' PROVE Lasting'
  BY DEF Lasting
<1>5. Running /\ left' = left - 1 /\ left >= 1
  BY <1>2, <1>3, <1>4 DEF Running
<1>6. /\ unlockUntil # 0 /\ Ahead(unlockUntil, now) \in left .. UnlockMs + 1
      /\ call["main"].op # "expire"
      /\ call["main"].op = "write" =>
           call["main"].until # 0 /\ Ahead(call["main"].until, now) \in left .. UnlockMs + 1
  BY <1>5 DEF Lasting
<1>7. Ahead(unlockUntil, now') \in left - 1 .. UnlockMs + 1
  <2>1. Ahead(unlockUntil, now') = Ahead(unlockUntil, now) - 1
    BY <1>2, <1>3, <1>5, <1>6, TickNears
  <2>2. QED
    BY <1>3, <1>6, <2>1
<1>8. call["main"].op = "write" => Ahead(call["main"].until, now') \in left - 1 .. UnlockMs + 1
  <2> SUFFICES ASSUME call["main"].op = "write"
               PROVE  Ahead(call["main"].until, now') \in left - 1 .. UnlockMs + 1
    OBVIOUS
  <2>1. call["main"].until \in 0 .. Span - 1
    BY <1>1, CallFields DEF TypeOK, Tasks
  <2>2. Ahead(call["main"].until, now') = Ahead(call["main"].until, now) - 1
    BY <1>2, <1>3, <1>5, <1>6, <2>1, TickNears
  <2>3. QED
    BY <1>3, <1>6, <2>2
<1>9. QED
  BY <1>2, <1>5, <1>6, <1>7, <1>8 DEF Lasting, Ahead

LEMMA LastingStep ==
  ASSUME EtsInv, Lasting, [Next]_vars
  PROVE  Lasting'
<1>1. CASE Restart
  BY <1>1 DEF Restart, Lasting, Running
<1>2. CASE UNCHANGED vars
  BY <1>2, LastingRests DEF vars
<1>3. CASE \E t \in Tasks : UnlockOn(t) \/ UnlockOff(t)
  BY <1>3, LastingUnlock
<1>4. CASE Tick
  BY <1>4, LastingTick
<1>5. CASE \/ \E mask \in Masks : SetAllowed(mask)
           \/ ToggleStep
           \/ \E t \in Tasks : StoreStep(t)
  BY <1>5, LastingStores DEF EtsInv
<1>6. CASE \/ LoopKeeps \/ LoopExpired \/ LoopClears
           \/ \E path \in Paths : PermitUnlocked(path)
           \/ ExtendCompare \/ ExtendWrite
  BY <1>6, LastingMain
<1>7. QED
  BY <1>1, <1>2, <1>3, <1>4, <1>5, <1>6 DEF Next, MainStep, Tasks

(* Time does not shorten an unlock, for any range of millis(), any length   *)
(* of the period and of the extension (ets_access.cpp:70-80, 150, 222-232).    *)
THEOREM UnlockIsWhole == Spec => []UnlockLasts
<1>1. Init => Lasting
  BY DEF Init, Lasting, Running
<1>2. Lasting /\ EtsInv => UnlockLasts
  BY DEF Lasting, Running, UnlockLasts
<1>3. EtsInv /\ Lasting /\ [Next]_vars => Lasting'
  BY LastingStep
<1>4. Spec => []Lasting
  BY <1>1, <1>3, Invariant, PTL DEF Spec
<1>5. QED
  BY <1>2, <1>4, Invariant, PTL
----------------------------------------------------------------------------
(* How long an unlock stays open                                            *)
(* A deadline u at time t, s after the last pass of loop(): it lies ahead,  *)
(* nearer for every tick q without a grant, or passed since that pass.      *)
Near(u, t, s, q) ==
  \/ Ahead(u, t) >= 1 /\ Ahead(u, t) + q =< UnlockMs + 1
  \/ Ahead(t, u) =< s /\ q =< UnlockMs + 1 + Ahead(t, u)

Nearing ==
  /\ quiet \in 0 .. Longest + 1
  /\ unlockUntil # 0 => Near(unlockUntil, now, sinceLoop, quiet)
  /\ call["main"].op = "write" => Near(call["main"].until, now, sinceLoop, 0)

LEMMA Limits ==
  /\ UnlockMs \in Nat /\ UnlockMs >= 1 /\ GraceMs \in Nat /\ GraceMs >= 1
  /\ GraceMs =< UnlockMs /\ Stall \in Nat /\ Stall >= 1
  /\ Span \in Nat /\ Span > 0 /\ Span % 2 = 0
  /\ UnlockMs + 1 < Span \div 2 /\ 2 * Stall < Span \div 2
BY TimeAssumption

LEMMA AheadInRange ==
  ASSUME NEW a \in 0 .. Span - 1, NEW b \in 0 .. Span - 1
  PROVE  Ahead(a, b) \in 0 .. Span - 1
BY WrappedDifference

(* A deadline passed for no longer than a stall reads as passed.            *)
LEMMA PassedExpired ==
  ASSUME TypeOK, Ahead(now, unlockUntil) =< Stall
  PROVE  Expired
<1>1. now \in 0 .. Span - 1 /\ unlockUntil \in 0 .. Span - 1
  BY DEF TypeOK
<1>2. (now - unlockUntil) % Span = Ahead(now, unlockUntil)
  BY <1>1, WrappedDifference
<1>3. Ahead(now, unlockUntil) \in Nat
  BY <1>1, AheadInRange, Limits
<1>4. Ahead(now, unlockUntil) < Span \div 2
  <2>1. Stall < Span \div 2
    BY Limits
  <2>2. QED
    BY <1>3, <2>1, Limits
<1>5. Signed(now - unlockUntil) = Ahead(now, unlockUntil)
  BY <1>2, <1>4 DEF Signed
<1>6. QED
  BY <1>3, <1>5 DEF Expired

(* A new deadline is near, and a tick keeps one near.                       *)
LEMMA NewIsNear ==
  ASSUME NEW t \in 0 .. Span - 1, NEW ms \in Nat, 1 =< ms, ms =< UnlockMs, NEW s \in Nat
  PROVE  Near(Deadline(After(t, ms)), t, s, 0)
<1> DEFINE a == Ahead(Deadline(After(t, ms)), t)
<1>1. a \in ms .. ms + 1
  BY DeadlineAhead
<1> HIDE DEF a
<1>2. a >= 1 /\ a + 0 =< UnlockMs + 1
  BY <1>1, Limits
<1>3. QED
  BY <1>2 DEF Near, a

LEMMA TickPasses ==
  ASSUME NEW u \in 0 .. Span - 1, NEW t \in 0 .. Span - 1, Ahead(t, u) < Span - 1
  PROVE  Ahead(After(t, 1), u) = Ahead(t, u) + 1
<1>1. Span \in Nat /\ 1 \in 0 .. Span - 1
  BY TimeAssumption
<1>2. After(t, 1) = IF t + 1 < Span THEN t + 1 ELSE t + 1 - Span
  BY <1>1, WrappedSum
<1>3. QED
  BY <1>1, <1>2 DEF Ahead

LEMMA TickKeepsNear ==
  ASSUME NEW u \in 0 .. Span - 1, NEW t \in 0 .. Span - 1, NEW s \in Nat, s < Stall,
         NEW q \in Nat, Near(u, t, s, q), NEW r \in Nat, r =< q + 1
  PROVE  Near(u, After(t, 1), s + 1, r)
<1> DEFINE n == After(t, 1)
           a == Ahead(u, t)
           b == Ahead(t, u)
           an == Ahead(u, n)
           bn == Ahead(n, u)
<1>1. n \in 0 .. Span - 1
  BY AfterInRange, Limits
<1>2. a \in 0 .. Span - 1 /\ b \in 0 .. Span - 1 /\ an \in 0 .. Span - 1 /\ bn \in 0 .. Span - 1
  BY <1>1, AheadInRange
<1>3. a >= 1 => an = a - 1
  BY TickNears
<1>4. an = 0 => bn = 0
  BY <1>1, Limits DEF Ahead
<1>5. b < Span - 1 => bn = b + 1
  BY TickPasses
<1>6. \/ a >= 1 /\ a + q =< UnlockMs + 1
      \/ b =< s /\ q =< UnlockMs + 1 + b
  BY DEF Near
<1>7. \/ an >= 1 /\ an + r =< UnlockMs + 1
      \/ bn =< s + 1 /\ r =< UnlockMs + 1 + bn
  <2> HIDE DEF n, a, b, an, bn
  <2>1. CASE a >= 1 /\ a + q =< UnlockMs + 1
    BY <1>2, <1>3, <1>4, <2>1, Limits
  <2>2. CASE b =< s /\ q =< UnlockMs + 1 + b
    <3>1. Stall < Span - 1
      BY Limits
    <3>2. bn = b + 1
      BY <1>2, <1>5, <2>2, <3>1, Limits
    <3>3. QED
      BY <1>2, <2>2, <3>2, Limits
  <2>3. QED
    BY <1>6, <2>1, <2>2
<1>8. QED
  BY <1>7 DEF Near

(* What the clock of the window does in a step.                             *)
LEMMA QuietSteps ==
  ASSUME quiet \in 0 .. Longest + 1, quiet' = Quieter
  PROVE  /\ quiet' \in 0 .. Longest + 1
         /\ now' = now => quiet' \in {0, quiet}
         /\ unlockUntil' # unlockUntil => quiet' = 0
         /\ quiet' =< quiet + 1
BY Limits DEF Quieter, Granted, Longest

(* A step that leaves the clock alone, and gives at most a deadline that is *)
(* near.                                                                    *)
LEMMA NearingRests ==
  ASSUME Nearing, quiet' = Quieter, UNCHANGED <<now, sinceLoop>>,
         \/ unlockUntil' \in {0, unlockUntil}
         \/ Near(unlockUntil', now, sinceLoop, 0),
         \/ call'["main"] = call["main"]
         \/ call'["main"].op # "write"
         \/ Near(call'["main"].until, now, sinceLoop, 0)
  PROVE  Nearing'
<1>1. /\ quiet' \in 0 .. Longest + 1 /\ quiet' \in {0, quiet}
      /\ unlockUntil' # unlockUntil => quiet' = 0
  BY QuietSteps DEF Nearing
<1>2. unlockUntil' # 0 => Near(unlockUntil', now, sinceLoop, quiet')
  <2>1. CASE unlockUntil' = unlockUntil /\ unlockUntil # 0
    <3>1. Near(unlockUntil, now, sinceLoop, quiet)
      BY <2>1 DEF Nearing
    <3>2. quiet' = quiet
      BY <2>1 DEF Quieter, Granted
    <3>3. QED
      BY <2>1, <3>1, <3>2
  <2>2. CASE unlockUntil' # unlockUntil
    BY <1>1, <2>2
  <2>3. QED
    BY <2>1, <2>2
<1>3. call'["main"].op = "write" => Near(call'["main"].until, now, sinceLoop, 0)
  BY DEF Nearing
<1>4. QED
  BY <1>1, <1>2, <1>3 DEF Nearing, Near, Longest

LEMMA NearingSettings ==
  ASSUME EtsInv, Nearing, quiet' = Quieter,
         \/ \E mask \in Masks : SetAllowed(mask)
         \/ ToggleStep
         \/ \E t \in Tasks : StoreStep(t)
  PROVE  Nearing'
<1>1. UNCHANGED <<unlockUntil, now, sinceLoop>>
  BY DEF SetAllowed, ToggleStep, ToggleTp, ToggleNet, ToggleAll, ToggleNotes, ToggleOpens,
         StoreStep, StoreRam, StoreMemory, StoreAllow, StoreLooksUp, StoreRemember, StoreRefused, clock
<1>2. call'["main"] = call["main"] \/ call'["main"].op \notin {"write", "expire"}
  BY StoresElsewhere DEF EtsInv
<1>3. QED
  BY <1>1, <1>2, NearingRests

LEMMA NearingUnlock ==
  ASSUME EtsInv, Nearing, quiet' = Quieter, NEW t \in Tasks, UnlockOn(t) \/ UnlockOff(t)
  PROVE  Nearing'
<1>1. now \in 0 .. Span - 1 /\ sinceLoop \in Nat
  BY Limits DEF EtsInv, TypeOK
<1>2. CASE UnlockOff(t)
  BY <1>2, NearingRests DEF UnlockOff, clock
<1>3. CASE UnlockOn(t)
  <2>1. Near(Deadline(After(now, UnlockMs)), now, sinceLoop, 0)
    BY <1>1, NewIsNear, Limits
  <2>2. QED
    BY <1>3, <2>1, NearingRests DEF UnlockOn, clock
<1>4. QED
  BY <1>2, <1>3

(* A pass of loop() leaves no deadline behind it that has passed.           *)
LEMMA NearingLoop ==
  ASSUME EtsInv, Nearing, quiet' = Quieter, LoopKeeps \/ LoopExpired \/ LoopClears
  PROVE  Nearing'
<1>1. TypeOK /\ sinceLoop \in 0 .. Stall
  BY DEF EtsInv, TypeOK
<1>2. CASE LoopKeeps
  <2>1. UNCHANGED <<unlockUntil, now, call>> /\ sinceLoop' = 0 /\ call["main"].op = "idle"
    BY <1>2 DEF LoopKeeps, Idle
  <2>2. quiet' \in 0 .. Longest + 1 /\ (unlockUntil # 0 => quiet' = quiet)
    BY <2>1, QuietSteps DEF Nearing, Quieter, Granted
  <2>3. unlockUntil # 0 => Near(unlockUntil, now, 0, quiet)
    <3> SUFFICES ASSUME unlockUntil # 0 PROVE Near(unlockUntil, now, 0, quiet)
      OBVIOUS
    <3>1. ~Expired
      BY <1>2 DEF LoopKeeps
    <3>2. ~(Ahead(now, unlockUntil) =< sinceLoop)
      <4>1. now \in 0 .. Span - 1 /\ unlockUntil \in 0 .. Span - 1
        BY <1>1 DEF TypeOK
      <4>2. Ahead(now, unlockUntil) \in 0 .. Span - 1
        BY <4>1, AheadInRange
      <4>3. ~(Ahead(now, unlockUntil) =< Stall)
        BY <1>1, <3>1, PassedExpired
      <4>4. QED
        BY <1>1, <4>2, <4>3, Limits
    <3>3. QED
      BY <3>2 DEF Nearing, Near
  <2>4. QED
    BY <2>1, <2>2, <2>3 DEF Nearing, Near, Longest
<1>3. CASE LoopExpired
  <2>1. call'["main"].op = "expire"
    BY <1>1, <1>3 DEF LoopExpired, TypeOK, Tasks
  <2>2. QED
    BY <1>3, <2>1, NearingRests DEF LoopExpired, clock
<1>4. CASE LoopClears
  <2>1. unlockUntil' = 0 /\ call'["main"].op = "idle"
    BY <1>1, <1>4 DEF LoopClears, TypeOK, Tasks, Idle
  <2>2. quiet' \in 0 .. Longest + 1
    BY QuietSteps DEF Nearing
  <2>3. QED
    BY <2>1, <2>2 DEF Nearing, Longest
<1>5. QED
  BY <1>2, <1>3, <1>4

LEMMA NearingPermits ==
  ASSUME EtsInv, Nearing, quiet' = Quieter,
         (\E path \in Paths : PermitUnlocked(path)) \/ ExtendCompare \/ ExtendWrite
  PROVE  Nearing'
<1>1. TypeOK /\ now \in 0 .. Span - 1 /\ sinceLoop \in Nat
  BY Limits DEF EtsInv, TypeOK
<1>2. CASE \E path \in Paths : PermitUnlocked(path)
  <2>1. call'["main"].op = "extend"
    BY <1>1, <1>2 DEF PermitUnlocked, TypeOK, Tasks
  <2>2. UNCHANGED <<unlockUntil, now, sinceLoop>>
    BY <1>2 DEF PermitUnlocked, clock
  <2>3. QED
    BY <2>1, <2>2, NearingRests
<1>3. CASE ExtendCompare
  <2>1. UNCHANGED <<unlockUntil, now, sinceLoop>>
    BY <1>3 DEF ExtendCompare, clock
  <2>2. \/ call'["main"].op # "write"
        \/ call'["main"].until = Deadline(AtLeast)
    BY <1>1, <1>3 DEF ExtendCompare, TypeOK, Tasks, Idle
  <2>3. Near(Deadline(AtLeast), now, sinceLoop, 0)
    BY <1>1, NewIsNear, Limits DEF AtLeast
  <2>4. QED
    BY <2>1, <2>2, <2>3, NearingRests
<1>4. CASE ExtendWrite
  <2>1. /\ unlockUntil' = call["main"].until /\ call["main"].op = "write"
        /\ UNCHANGED <<now, sinceLoop>> /\ call'["main"].op = "idle"
    BY <1>1, <1>4 DEF ExtendWrite, clock, TypeOK, Tasks, Idle
  <2>2. Near(unlockUntil', now, sinceLoop, 0)
    BY <2>1 DEF Nearing
  <2>3. QED
    BY <2>1, <2>2, NearingRests
<1>5. QED
  BY <1>2, <1>3, <1>4

LEMMA NearingTick ==
  ASSUME EtsInv, Nearing, quiet' = Quieter, Tick
  PROVE  Nearing'
<1>1. /\ TypeOK /\ now \in 0 .. Span - 1 /\ unlockUntil \in 0 .. Span - 1
      /\ sinceLoop \in Nat /\ sinceLoop < Stall
  BY Limits DEF EtsInv, TypeOK, Tick
<1>2. now' = After(now, 1) /\ sinceLoop' = sinceLoop + 1 /\ UNCHANGED <<unlockUntil, call>>
  BY DEF Tick
<1>3. /\ quiet \in Nat /\ quiet' \in 0 .. Longest + 1 /\ quiet' \in Nat /\ quiet' =< quiet + 1
  BY QuietSteps, Limits DEF Nearing, Longest
<1>4. unlockUntil # 0 => Near(unlockUntil, After(now, 1), sinceLoop + 1, quiet')
  BY <1>1, <1>3, TickKeepsNear DEF Nearing
<1>5. call["main"].op = "write" => Near(call["main"].until, After(now, 1), sinceLoop + 1, 0)
  <2> SUFFICES ASSUME call["main"].op = "write"
               PROVE  Near(call["main"].until, After(now, 1), sinceLoop + 1, 0)
    OBVIOUS
  <2>1. call["main"].until \in 0 .. Span - 1
    BY <1>1, CallFields DEF TypeOK, Tasks
  <2>2. Near(call["main"].until, now, sinceLoop, 0)
    BY DEF Nearing
  <2>3. QED
    BY <1>1, <2>1, <2>2, TickKeepsNear
<1>6. QED
  BY <1>2, <1>3, <1>4, <1>5 DEF Nearing, Near, Ahead, Longest

LEMMA NearingStep ==
  ASSUME EtsInv, Nearing, [WindowNext]_<<vars, quiet>>
  PROVE  Nearing'
<1>1. CASE UNCHANGED <<vars, quiet>>
  BY <1>1 DEF vars, clock, Nearing, Near, Ahead, Longest
<1>2. CASE WindowNext
  <2>1. Next /\ quiet' = Quieter
    BY <1>2 DEF WindowNext
  <2>2. CASE Restart
    <3>1. unlockUntil' = 0 /\ call'["main"].op = "idle"
      BY <2>2 DEF Restart, Tasks, Idle
    <3>2. quiet' \in 0 .. Longest + 1
      BY <2>1, QuietSteps DEF Nearing
    <3>3. QED
      BY <3>1, <3>2 DEF Nearing, Longest
  <2>3. CASE \E t \in Tasks : UnlockOn(t) \/ UnlockOff(t)
    BY <2>1, <2>3, NearingUnlock
  <2>4. CASE Tick
    BY <2>1, <2>4, NearingTick
  <2>5. CASE \/ \E mask \in Masks : SetAllowed(mask)
             \/ ToggleStep
             \/ \E t \in Tasks : StoreStep(t)
    BY <2>1, <2>5, NearingSettings
  <2>6. CASE LoopKeeps \/ LoopExpired \/ LoopClears
    BY <2>1, <2>6, NearingLoop
  <2>7. CASE (\E path \in Paths : PermitUnlocked(path)) \/ ExtendCompare \/ ExtendWrite
    BY <2>1, <2>7, NearingPermits
  <2>8. QED
    BY <2>1, <2>2, <2>3, <2>4, <2>5, <2>6, <2>7 DEF Next, MainStep, Tasks
<1>3. QED
  BY <1>1, <1>2

(* An unlock nobody renews is over a stall after its period, for any range  *)
(* of millis() more than four stalls wide and twice the period, and any     *)
(* interleaving of the two tasks (ets_access.cpp:70-80, 222-232).           *)
THEOREM WindowIsBounded == WindowSpec => []WindowBounded
<1>1. WindowInit => EtsInv /\ Nearing
  BY InitInv, Limits DEF WindowInit, Init, Nearing, Longest, Idle, Tasks
<1>2. [WindowNext]_<<vars, quiet>> => [Next]_vars
  BY DEF WindowNext
<1>3. EtsInv /\ Nearing /\ [WindowNext]_<<vars, quiet>> => EtsInv' /\ Nearing'
  BY <1>2, StepInv, NearingStep
<1>4. EtsInv /\ Nearing => WindowBounded
  <2> SUFFICES ASSUME EtsInv, Nearing, unlockUntil # 0 PROVE quiet =< Longest
    BY DEF WindowBounded
  <2>1. /\ now \in 0 .. Span - 1 /\ unlockUntil \in 0 .. Span - 1 /\ sinceLoop \in 0 .. Stall
        /\ quiet \in 0 .. Longest + 1
    BY DEF EtsInv, TypeOK, Nearing
  <2>2. Ahead(now, unlockUntil) \in 0 .. Span - 1 /\ Ahead(unlockUntil, now) \in 0 .. Span - 1
    BY <2>1, AheadInRange
  <2>3. Near(unlockUntil, now, sinceLoop, quiet)
    BY DEF Nearing
  <2>4. QED
    BY <2>1, <2>2, <2>3, Limits DEF Near, Longest
<1>5. QED
  BY <1>1, <1>3, <1>4, PTL DEF WindowSpec
=============================================================================
