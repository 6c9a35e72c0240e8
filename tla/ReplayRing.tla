----------------------------- MODULE ReplayRing -----------------------------
(* The replay ring (mediaway-container, replay.rs): the last encoded packets *)
(* of several streams, evicted by whole GOPs of the anchor stream, from      *)
(* which a clip is cut at an anchor keyframe. Stream 1 is the anchor.        *)
(*                                                                           *)
(* A payload is its size. Times are ticks of each stream's timebase; "nanos" *)
(* are units of a common axis, coarse enough here for conversions to round.  *)
(* The eviction loop is given in closed form: how many GOPs it drops, and    *)
(* what is left then. `log` is a history variable, everything the ring ever  *)
(* accepted; the ring is compared with what could be cut from it.            *)
EXTENDS Integers, Sequences, FiniteSets, SequencesExt, SequenceSums

CONSTANTS Others,       \* how many streams the anchor can be joined by
          Num, Den,     \* Num[s] / Den[s]: nanos per tick of stream s
          Window,       \* the window, in nanos
          Ceilings,     \* byte ceilings to try; NoCeiling is one
          NoCeiling,
          Steps,        \* bound: dts from one packet of a stream to the next
          Delays,       \* bound: pts - dts; a packet never presents before it decodes
          MaxPackets    \* bound: packets accepted

ASSUME OthersAssumption == Others \in Nat

Anchor == 1
Streams == 1 .. Others + 1

ASSUME TimeAssumption == \A s \in Streams : Num[s] \in Nat \ {0} /\ Den[s] \in Nat \ {0}
ASSUME BoundAssumption == /\ Window \in Nat /\ MaxPackets \in Nat
                          /\ Steps \subseteq Nat /\ Delays \subseteq Nat
ASSUME CeilingAssumption == Ceilings \ {NoCeiling} \subseteq Nat

VARIABLES
  tracks,   \* tracks[s]: the entries held of stream s, of those added so far
  cuts,     \* the anchor's cut points
  bytes,    \* payload bytes held
  newest,   \* newest decode time pushed, NoTime before
  ceiling,  \* max_bytes
  log       \* history: every packet accepted, in order

vars == <<tracks, cuts, bytes, newest, ceiling, log>>

NoTime == -1
Entry == [n : Nat, dts : Nat, pts : Nat, key : BOOLEAN, size : Nat]

TypeOK ==
  /\ tracks \in Seq(Seq(Entry)) /\ Len(tracks) \in Streams
  /\ cuts \in Seq([dts : Nat, pts : Nat])
  /\ bytes \in Nat /\ newest \in Nat \cup {NoTime} /\ ceiling \in Ceilings

\* for_payload, then with_max_bytes or not.
Init == /\ tracks = << <<>> >> /\ cuts = <<>> /\ bytes = 0
        /\ newest = NoTime /\ ceiling \in Ceilings /\ log = <<>>

-----------------------------------------------------------------------------
\* to_nanos rounds down; to_ticks rounds to nearest.
ToNanos(ticks, s) == (ticks * Num[s]) \div Den[s]
ToTicks(nanos, s) == (nanos * Den[s] + Num[s] \div 2) \div Num[s]

Larger(a, b) == IF a < b THEN b ELSE a
SizeOf(entries) == Total([i \in DOMAIN entries |-> entries[i].size])

\* A queue popped from the front until one of the positions in `kept` is there.
From(q, kept) == IF kept = {} THEN <<>> ELSE SubSeq(q, Min(kept), Len(q))

\* The anchor's entries that do not survive a cut at c.
BeforeCut(e, c) == e.dts < c.dts

\* A ring [tracks, cuts, bytes] after evict has dropped k GOPs. The others are
\* trimmed to each dropped-to keyframe's presentation in turn.
After(ring, k) ==
  LET start == Max({ToNanos(ring.cuts[j].pts, Anchor) : j \in 2 .. k + 1})
      Stays(s, e) == IF s = Anchor THEN ~BeforeCut(e, ring.cuts[k + 1])
                                   ELSE ToNanos(e.pts, s) >= start
      left == [s \in DOMAIN ring.tracks |->
                 From(ring.tracks[s],
                      {i \in DOMAIN ring.tracks[s] : Stays(s, ring.tracks[s][i])})]
      popped == [s \in DOMAIN left |-> SizeOf(ring.tracks[s]) - SizeOf(left[s])]
  IN IF k = 0 THEN ring
     ELSE [tracks |-> left, cuts |-> SubSeq(ring.cuts, k + 1, Len(ring.cuts)),
           bytes |-> ring.bytes - Total(popped)]

\* A front GOP goes when the next cut point is old enough to start a clip of
\* the whole window, or the ring is over its ceiling.
OutOfWindow_Mutant(ring, now) == now - ToNanos(ring.cuts[1].dts, Anchor) >= Window
OutOfWindow(ring, now) == now - ToNanos(ring.cuts[2].dts, Anchor) >= Window
OverBudget(ring) == ceiling # NoCeiling /\ ring.bytes > ceiling
MustDrop(ring, now) ==
  Len(ring.cuts) > 1 /\ (OutOfWindow(ring, now) \/ OverBudget(ring))

Evicted(ring, now) ==
  LET dropped == CHOOSE k \in 0 .. Len(ring.cuts) :
                   /\ ~MustDrop(After(ring, k), now)
                   /\ \A j \in 0 .. k - 1 : MustDrop(After(ring, j), now)
  IN After(ring, dropped)

-----------------------------------------------------------------------------
\* add_stream; a duplicate or a degenerate timebase is refused.
AddStream ==
  /\ Len(tracks) <= Others
  /\ tracks' = Append(tracks, <<>>)
  /\ UNCHANGED <<cuts, bytes, newest, ceiling, log>>

\* The dts a stream's packets carry on from, for the caller: its last one.
LastDts(s) == Max({0} \cup {log[i].dts : i \in {j \in DOMAIN log : log[j].stream = s}})

\* push_entry refuses a dts below the last one held on the stream.
OutOfOrder(s, dts) == tracks[s] # <<>> /\ dts < Last(tracks[s]).dts

\* An anchor packet before the first keyframe is dropped, without an error.
Undecodable(s, key) == s = Anchor /\ ~key /\ cuts = <<>>

\* bytes as push_entry leaves it, before evict.
Counted_Mutant(s, e) == bytes + IF s = Anchor THEN e.size ELSE 0   \* mutant
Counted(s, e) == bytes + e.size

Push(s, e) ==
  /\ ~OutOfOrder(s, e.dts) /\ ~Undecodable(s, e.key)
  /\ LET cut == IF s = Anchor /\ e.key THEN <<[dts |-> e.dts, pts |-> e.pts]>> ELSE <<>>
         now == Larger(newest, ToNanos(e.dts, s))
         ring == Evicted([tracks |-> [tracks EXCEPT ![s] = Append(@, e)],
                          cuts |-> cuts \o cut,
                          bytes |-> Counted(s, e)], now)
     IN /\ tracks' = ring.tracks /\ cuts' = ring.cuts /\ bytes' = ring.bytes
        /\ newest' = now
  /\ log' = Append(log, [stream |-> s, n |-> e.n, dts |-> e.dts, pts |-> e.pts, key |-> e.key])
  /\ UNCHANGED ceiling

\* The packets an encoder emits next on stream s: keyframes of the anchor are
\* heavier, and presented after all that was decoded before them; every packet
\* of another stream is one to start from.
Emitted(s) ==
  LET shown == {log[i].pts : i \in {j \in 1 .. Len(log) : log[j].stream = Anchor}}
      decoded == {LastDts(s) + d : d \in Steps}
      Packet(d, delay, k) == [n |-> Len(log) + 1, dts |-> d, pts |-> d + delay, key |-> k,
                              size |-> IF s = Anchor /\ k THEN 2 ELSE 1]
  IN IF s # Anchor THEN {Packet(d, 0, TRUE) : d \in decoded}
     ELSE {e \in {Packet(d, delay, k) : d \in decoded, delay \in Delays, k \in BOOLEAN} :
             e.key => \A p \in shown : p < e.pts}

Next == \/ AddStream
        \/ \E s \in DOMAIN tracks : \E e \in Emitted(s) : Len(log) < MaxPackets /\ Push(s, e)

Spec == Init /\ [][Next]_vars

-----------------------------------------------------------------------------
(* clip_last and Clip::entries.                                              *)

\* The cut point a clip of `span` starts from.
CutFor(span) ==
  LET early == {i \in 1 .. Len(cuts) : ToNanos(cuts[i].dts, Anchor) <= newest - span}
  IN cuts[Larger(Cardinality(early), 1)]

\* A leading picture of the cut: its references may have been cut away.
Leading(e, c) == e.pts < c.pts

\* What the iterator yields, by stream and position: from each stream's cursor.
Yielded(c) ==
  {x \in UNION {{<<s, i>> : i \in 1 .. Len(tracks[s])} : s \in DOMAIN tracks} :
     LET e == tracks[x[1]][x[2]]
     IN IF x[1] = Anchor THEN ~BeforeCut(e, c) /\ ~Leading(e, c)
                         ELSE ToNanos(e.dts, x[1]) >= ToNanos(c.pts, Anchor)}

\* Its order: by decode time, then stream, then position.
YieldedBefore(x, y) ==
  LET At(z) == ToNanos(tracks[z[1]][z[2]].dts, z[1])
  IN \/ At(x) < At(y)
     \/ At(x) = At(y) /\ (x[1] < y[1] \/ (x[1] = y[1] /\ x[2] < y[2]))

\* What comes out of it is rebased so that the cut keyframe decodes at zero.
Offset_Mutant(c, s) == c.dts                  \* mutant: the anchor's ticks for all
Offset(c, s) == IF s = Anchor THEN c.dts ELSE ToTicks(ToNanos(c.dts, Anchor), s)
Rebased(c, x) ==
  LET e == tracks[x[1]][x[2]]
  IN [e EXCEPT !.dts = @ - Offset(c, x[1]), !.pts = @ - Offset(c, x[1])]

-----------------------------------------------------------------------------
(* Properties.                                                               *)

Spans == 0 .. Window + 1

\* Keyframes of the anchor in the log, and the packets a clip from the one
\* numbered k has to hold, by the definition of adr/0004 ("Cut").
Keyframes == {n \in 1 .. Len(log) : log[n].stream = Anchor /\ log[n].key}
Wanted(k) ==
  {n \in 1 .. Len(log) :
     IF log[n].stream = Anchor
       THEN log[n].dts >= log[k].dts /\ log[n].pts >= log[k].pts
       ELSE ToNanos(log[n].dts, log[n].stream) >= ToNanos(log[k].pts, Anchor)}
Time(k) == ToNanos(log[k].dts, Anchor)
Latest(K) == CHOOSE k \in K : \A j \in K : j <= k

\* The keyframe a clip of `span` should start from: the latest old enough, or
\* the oldest the ring still has.
StartFor(span) ==
  LET held == {k \in Keyframes : log[k].pts >= Head(cuts).pts}
      early == {k \in Keyframes : Time(k) <= newest - span}
  IN IF early \cap held # {} THEN Latest(early \cap held)
     ELSE CHOOSE k \in held : \A j \in held : k <= j

\* Nothing a clip needs has been evicted and nothing it must not have is in it: a
\* clip is exactly what would be cut from everything ever pushed. It starts with
\* its keyframe at time zero, and no stream has a packet that decodes or presents
\* before zero in its own timebase (clip_last, Clip::entries).
StartsAtZero(c) ==
  LET first == CHOOSE x \in Yielded(c) : \A y \in Yielded(c) \ {x} : YieldedBefore(x, y)
  IN /\ first[1] = Anchor /\ Rebased(c, first).key /\ Rebased(c, first).dts = 0
     /\ \A x \in Yielded(c) : LET e == Rebased(c, x) IN e.dts >= 0 /\ e.pts >= e.dts
ClipFaithful ==
  cuts # <<>> => \A span \in Spans :
    /\ {tracks[x[1]][x[2]].n : x \in Yielded(CutFor(span))} = Wanted(StartFor(span))
    /\ StartsAtZero(CutFor(span))

\* evict drops neither too much nor too little. Without a ceiling a full window can
\* always be cut: the oldest keyframe held is old enough, unless the stream itself is
\* not. With one, only the newest GOP may exceed it, by the bytes really held: the
\* counter the ring decides by is exact, whatever was evicted of which stream.
BytesHeld == Total([s \in DOMAIN tracks |-> SizeOf(tracks[s])])
WindowKept ==
  cuts # <<>> =>
    IF ceiling # NoCeiling THEN BytesHeld > ceiling => Len(cuts) = 1
    ELSE \/ ToNanos(Head(cuts).dts, Anchor) <= newest - Window
         \/ \A k \in Keyframes : Time(k) >= ToNanos(Head(cuts).dts, Anchor)
=============================================================================
