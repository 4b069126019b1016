----------------------------- MODULE LogBuffer ------------------------------
(* The log (log_buffer.cpp): one ring for the dashboard, a small one in RTC *)
(* memory that a reset leaves alone, and the hook of the ESP-IDF log, which *)
(* stores a repeated line only as a count. Every task logs; a reader copies *)
(* the ring out piece by piece.                                             *)
(*                                                                          *)
(* A character is one token: the stamp, the text of a line, a count. The    *)
(* window of the repeats and the time of their summary are not measured: a  *)
(* line may or may not be too old, a summary may or may not be due.         *)
EXTENDS Integers, Sequences, SequencesExt

CONSTANTS
  Tasks,       \* tasks that log through the hook
  Lines,       \* texts they log
  SmallRing,   \* characters of the ring begin() allocates
  FullRing,    \* characters of the ring of the profile
  RtcRing,     \* characters of the ring in RTC memory
  CarryMax,    \* the most resize() takes across
  Piece,       \* the most a reader copies at a time
  MaxLogEvents \* bound on calls of the hook, own lines, clears, resets, settings

VARIABLES
  main,        \* the ring: cells, head, filled
  written,     \* _written
  rtcLog,      \* the ring in RTC memory, and whether s_rtcMagic marks it
  toRtc, storedToRtc,
  recent,      \* s_recentHash, newest first
  suppressed,  \* s_suppressed
  hook,        \* task |-> where it is in idfHook() or in write()
  carried,     \* resize(): where it is, how much it takes, from where, what it
               \* has copied, and what had been written when it began
  logged, mirrored,             \* text since clear(), since power came on
  gap,         \* history: how far the text reaches that a swap put out of place
  bitten,      \* history: the character of mirrored a reset cut in the cells
  seenLines, keptLines, counted, \* calls of the hook; in the ring; in counts
  logEvents

ringVars == <<main, written, rtcLog, logged, mirrored, gap, bitten>>
repeatVars == <<recent, suppressed, hook, seenLines, keptLines, counted>>
keepVars == <<toRtc, storedToRtc>>
logVars == <<ringVars, repeatVars, keepVars, carried, logEvents>>

NoText == "none"
Stamp == "12:00"
Mark == "restart"
NotResized == [at |-> "before", want |-> 0, start |-> 0, text |-> <<>>, since |-> 0]
Resized == [NotResized EXCEPT !.at = "done"]
Idle == [at |-> "idle", line |-> NoText, report |-> 0]
Count(n) == <<"repeated", n>>

(* The sizes have an order: what survives in RTC memory and the mark below  *)
(* it fit the ring of begin() (log_buffer.cpp:24-44).                        *)
ASSUME LogAssumption ==
  /\ IsFiniteSet(Tasks) /\ Lines \cap {NoText, "own"} = {}
  /\ {SmallRing, FullRing, RtcRing, Piece} \subseteq Nat \ {0} /\ CarryMax \in Nat
  /\ RtcRing < SmallRing

(* Rings. A ring of n characters has the cells 0..n-1.                      *)
(* The text goes in at the head and around the end, the newest character    *)
(* just before the new head.                                                *)
SizeOf(r) == Cardinality(DOMAIN r.cells)
EmptyRing(size) == [cells |-> [i \in 0..(size - 1) |-> <<NoText>>], head |-> 0, filled |-> 0]
PutAll(r, text) ==
  LET size == SizeOf(r)
      head == (r.head + Len(text)) % size
      back(i) == (head + size - 1 - i) % size
  IN [cells |-> [i \in DOMAIN r.cells |->
                   IF back(i) < Len(text) THEN text[Len(text) - back(i)] ELSE r.cells[i]],
      head |-> head, filled |-> Min({size, r.filled + Len(text)})]
Put(r, c) == PutAll(r, <<c>>)
CellsFrom(r, start, n) == [i \in 1..n |-> r.cells[(start + i - 1) % SizeOf(r)]]
Newest(r, n) == CellsFrom(r, r.head + SizeOf(r) - n, n)
Start(r) == (r.head + SizeOf(r) - r.filled) % SizeOf(r)
Noise == [cells |-> [i \in 0..(RtcRing - 1) |-> <<NoText>>], head |-> 0, filled |-> RtcRing]
Survived(r) == r.magic
RtcTail(r) == IF Survived(r) THEN Newest(r.ring, r.ring.filled) ELSE <<>>

(* A line as store() puts it down: the stamp of local time, then the text.  *)
Stored(c) == <<<<Stamp>>, c>>
StoreText(text) ==
  /\ main' = PutAll(main, text)
  /\ written' = written + Len(text) /\ logged' = logged \o text
  /\ IF toRtc THEN /\ rtcLog' = [rtcLog EXCEPT !.ring = PutAll(rtcLog.ring, text)]
                   /\ mirrored' = mirrored \o text
     ELSE UNCHANGED <<rtcLog, mirrored>>
  /\ UNCHANGED <<gap, bitten>>

(* begin(): what survived comes first; it is not mirrored once more.        *)
Begins(rtcNow, keep) ==
  LET tail == RtcTail(rtcNow)
      text == IF tail = <<>> THEN <<>> ELSE tail \o <<<<Mark>>>>
  IN /\ main' = PutAll(EmptyRing(SmallRing), text)
     /\ written' = Len(text) /\ logged' = text /\ gap' = 0
     /\ rtcLog' = IF Survived(rtcNow) THEN rtcNow
                  ELSE [magic |-> TRUE, ring |-> EmptyRing(RtcRing)]
     /\ toRtc' = keep

LogInit ==
  /\ main = EmptyRing(SmallRing) /\ written = 0 /\ logged = <<>> /\ gap = 0
  /\ rtcLog = [magic |-> TRUE, ring |-> EmptyRing(RtcRing)] /\ mirrored = <<>>
  /\ bitten = 0
  /\ storedToRtc = TRUE /\ toRtc = TRUE
  /\ recent = <<>> /\ suppressed = 0 /\ hook = [t \in Tasks |-> Idle]
  /\ carried = NotResized /\ logEvents = 0
  /\ seenLines = 0 /\ keptLines = 0 /\ counted = 0

LogEvent == logEvents < MaxLogEvents /\ logEvents' = logEvents + 1
---------------------------------------------------------------------------
(* idfHook(): the decision under s_repeatLock, the stores after it.         *)
SlotsAfter(line) == SubSeq(<<line>> \o recent, 1, IF recent = <<>> THEN 1 ELSE 2)

HookRepeat(t, line) ==
  /\ line \in ToSet(recent)
  /\ \/ /\ suppressed' = suppressed + 1 /\ UNCHANGED hook
     \/ /\ suppressed # 0 /\ suppressed' = 0
        /\ hook' = [hook EXCEPT ![t] = [at |-> "count", line |-> NoText,
                                       report |-> suppressed + 1]]
  /\ UNCHANGED recent

HookNew(t, line) ==
  /\ suppressed' = 0 /\ recent' = SlotsAfter(line)
  /\ hook' = [hook EXCEPT ![t] = [at |-> IF suppressed > 0 THEN "count" ELSE "line",
                                 line |-> line, report |-> suppressed]]

Hook(t, line) ==
  /\ LogEvent /\ hook[t].at = "idle"
  /\ seenLines' = seenLines + 1
  /\ HookRepeat(t, line) \/ HookNew(t, line)
  /\ UNCHANGED <<ringVars, keepVars, keptLines, counted, carried>>

(* write() at the start of a line: a peek without the lock, then the count. *)
WritePeek(t) ==
  /\ LogEvent /\ hook[t].at = "idle"
  /\ hook' = [hook EXCEPT ![t] = [at |-> IF suppressed = 0 THEN "own" ELSE "flush",
                                 line |-> "own", report |-> suppressed]]
  /\ UNCHANGED <<ringVars, keepVars, recent, suppressed, seenLines, keptLines, counted,
                 carried>>

FlushedAsPeeked(t) == hook[t].report
Flushed(t) == suppressed

FlushRepeats(t) ==
  /\ hook[t].at = "flush"
  /\ suppressed' = 0
  /\ hook' = [hook EXCEPT ![t] = [at |-> IF Flushed(t) > 0 THEN "count" ELSE "own",
                                 line |-> hook[t].line, report |-> Flushed(t)]]
  /\ UNCHANGED <<ringVars, keepVars, recent, seenLines, keptLines, counted, carried, logEvents>>

StoreRepeatCount(t) ==
  /\ hook[t].at = "count"
  /\ StoreText(Stored(Count(hook[t].report)))
  /\ counted' = counted + hook[t].report
  /\ hook' = [hook EXCEPT ![t] = [at |-> CASE hook[t].line = NoText -> "idle"
                                         [] hook[t].line = "own" -> "own" [] OTHER -> "line",
                                 line |-> hook[t].line, report |-> 0]]
  /\ UNCHANGED <<keepVars, recent, suppressed, seenLines, keptLines, carried, logEvents>>

StoreLine(t) ==
  /\ hook[t].at \in {"line", "own"}
  /\ StoreText(Stored(<<hook[t].line>>))
  /\ keptLines' = IF hook[t].at = "line" THEN keptLines + 1 ELSE keptLines
  /\ hook' = [hook EXCEPT ![t] = Idle]
  /\ UNCHANGED <<keepVars, recent, suppressed, seenLines, counted, carried, logEvents>>
---------------------------------------------------------------------------
(* resize(), once in setup(): without memory, or with the size it has, the  *)
(* ring stays. Else the newest is copied without the lock, cell by cell from *)
(* where the head was, and put in place with it: what other tasks stored in *)
(* the meantime is lost, but counts as written.                             *)
ResizeSizes ==
  /\ carried.at = "before"
  /\ \/ carried' = [at |-> "sized", want |-> Min({main.filled, FullRing, CarryMax}),
                     start |-> 0, text |-> <<>>, since |-> written]
     \/ carried' = Resized
  /\ UNCHANGED <<ringVars, repeatVars, keepVars, logEvents>>

ResizeStarts ==
  /\ carried.at = "sized"
  /\ carried' = [carried EXCEPT !.at = "copying",
                   !.start = (main.head + SizeOf(main) - carried.want) % SizeOf(main)]
  /\ UNCHANGED <<ringVars, repeatVars, keepVars, logEvents>>

CopyCell ==
  /\ carried.at = "copying" /\ Len(carried.text) < carried.want
  /\ carried' = [carried EXCEPT
                   !.text = Append(@, main.cells[(carried.start + Len(@)) % SizeOf(main)])]
  /\ UNCHANGED <<ringVars, repeatVars, keepVars, logEvents>>

ResizeSwap ==
  /\ carried.at = "copying" /\ Len(carried.text) = carried.want
  /\ main' = PutAll(EmptyRing(FullRing), carried.text)
  /\ gap' = IF written = carried.since THEN gap ELSE written
  /\ carried' = Resized
  /\ UNCHANGED <<written, logged, rtcLog, mirrored, bitten, repeatVars, keepVars, logEvents>>

Resize == ResizeSizes \/ ResizeStarts \/ CopyCell \/ ResizeSwap

(* copyFrom(): what a reader at a position gets next, and from where.       *)
Oldest == written - main.filled
AtUnclamped(at) == at
AtClamped(at) == IF at < Oldest THEN Oldest ELSE at

CopyFrom(at) ==
  LET from == AtClamped(at)
      n == IF from < written THEN Min({written - from, Piece}) ELSE 0
      start == (from + SizeOf(main) + Start(main) - Oldest) % SizeOf(main)
  IN [from |-> from, text |-> CellsFrom(main, start, n)]

LogClear ==
  /\ LogEvent /\ carried = Resized /\ logged # <<>>
  /\ main' = [cells |-> main.cells, head |-> 0, filled |-> 0]
  /\ written' = 0 /\ logged' = <<>> /\ gap' = 0
  /\ UNCHANGED <<rtcLog, mirrored, bitten, repeatVars, keepVars, carried>>

KeepAcrossReset(keep) ==
  /\ LogEvent /\ keep # toRtc
  /\ toRtc' = keep /\ storedToRtc' = keep
  /\ UNCHANGED <<ringVars, repeatVars, carried>>

(* A reset catches a task anywhere, in store() between two characters, or   *)
(* between the cell, the head and the count of the ring in RTC memory: in a  *)
(* full ring the cell was the oldest character's. Without power the cells    *)
(* hold noise.                                                              *)
CellPut(r, c) == [r EXCEPT !.cells[r.head] = c]
TornPut(r, c) == [Put(r, c) EXCEPT !.filled = r.filled]
CaughtText(t) ==
  Stored(IF hook[t].at = "count" THEN Count(hook[t].report) ELSE <<hook[t].line>>)
Caught == {t \in Tasks : toRtc /\ hook[t].at \in {"count", "line", "own"}}
RebootFrom(ring, text) ==
  Begins([rtcLog EXCEPT !.ring = ring], storedToRtc) /\ mirrored' = mirrored \o text

LogReset ==
  LET ring == rtcLog.ring IN
  /\ LogEvent
  /\ \/ RebootFrom(ring, <<>>) /\ bitten' = bitten
     \/ \E t \in Caught, n \in 1..2 :
          LET text == SubSeq(CaughtText(t), 1, n)
              first == SubSeq(text, 1, n - 1)
              before == PutAll(ring, first)
          IN \/ /\ RebootFrom(CellPut(before, text[n]), first)
                /\ bitten' = IF before.filled = RtcRing
                             THEN Len(mirrored \o first) + 1 - RtcRing ELSE bitten
             \/ /\ \/ RebootFrom(TornPut(before, text[n]), text)
                   \/ RebootFrom(Put(before, text[n]), text)
                /\ bitten' = bitten
     \/ /\ Begins([magic |-> FALSE, ring |-> Noise], storedToRtc)
        /\ mirrored' = <<>> /\ bitten' = 0
  /\ recent' = <<>> /\ suppressed' = 0 /\ hook' = [t \in Tasks |-> Idle]
  /\ carried' = NotResized
  /\ seenLines' = 0 /\ keptLines' = 0 /\ counted' = 0
  /\ UNCHANGED storedToRtc

LogNext ==
  \/ \E t \in Tasks :
       \/ \E line \in Lines : Hook(t, line)
       \/ WritePeek(t) \/ FlushRepeats(t) \/ StoreRepeatCount(t) \/ StoreLine(t)
  \/ Resize \/ LogClear \/ LogReset
  \/ \E keep \in BOOLEAN : KeepAcrossReset(keep)

LogSpec == LogInit /\ [][LogNext]_logVars
---------------------------------------------------------------------------
(* Whichever task drops a repeated line and whichever reports the count, no *)
(* line is lost from both and none is reported twice (log_buffer.cpp:       *)
(* 48-60, 336-404).                                                         *)
InHand(t) == hook[t].report + IF hook[t].at \in {"count", "line"} /\ hook[t].line \in Lines
                              THEN 1 ELSE 0
Reporting(t) == IF hook[t].at = "flush" THEN 0 ELSE InHand(t)
InHands == UNION {{t} \X (1..Reporting(t)) : t \in Tasks}
LinesConserved == seenLines = keptLines + counted + suppressed + Cardinality(InHands)

(* Wherever a reader stands, the next piece is the text logged since the    *)
(* last clear() from that position on, or from the oldest still held when   *)
(* it was overtaken: across the wrap, resize() and clear(). Only what was   *)
(* written before a swap is not promised, and only if a line was stored     *)
(* while resize() copied: it may be lost, or be read a second time further  *)
(* on (log_buffer.h:60-78, log_buffer.cpp:165-216, 543-593).                *)
ReadsWhatWasLogged ==
  \A at \in 0..(written + 2) :
    LET piece == CopyFrom(at) IN
    /\ piece.from = IF at < Oldest THEN Oldest ELSE at
    /\ \A i \in 1..Len(piece.text) :
         piece.from + i > gap => piece.text[i] = logged[piece.from + i]
    /\ at < written /\ main.filled > 0 => piece.text # <<>>

(* What a restart shows of the time before is the end of what was mirrored, *)
(* without a gap, wherever the reset struck - but that a reset between cell *)
(* and head costs a full ring its oldest character, and shows the one being *)
(* written in its place (log_buffer.cpp:14-29, 289-308, 483-488).           *)
TailSuffix ==
  LET tail == Newest(rtcLog.ring, rtcLog.ring.filled)
      older == Len(mirrored) - Len(tail)
  IN IsSuffix(IF bitten > older THEN Tail(tail) ELSE tail, mirrored)

(* Both ways to read the log give what was logged, in its order and without *)
(* a gap but for those two: the ring to the dashboard, the one in RTC       *)
(* memory to the next start (log_buffer.h:60-78).                           *)
LogExact == ReadsWhatWasLogged /\ TailSuffix
=============================================================================
