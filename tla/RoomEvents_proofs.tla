-------------------------- MODULE RoomEvents_proofs --------------------------
(* The event window is contiguous for every window size, and a replay is   *)
(* exactly the part of the revisions that the client has not seen.  For    *)
(* any number of subscribers, any window and any number of restarts: a     *)
(* stream has no gap, and a connected client with nothing under way shows  *)
(* the current state unless it resumed from an earlier life.               *)
EXTENDS RoomEvents, Lists_proofs, FiniteSetTheorems

-----------------------------------------------------------------------------
(* The window.                                                             *)

\* What commit() does to a contiguous window, entry by entry.
LEMMA PublishKeepsContiguous ==
    ASSUME WindowContiguous, Publish
    PROVE  WindowContiguous'
<1> DEFINE longer == Append(window, revision + 1)
           len == Len(window)
           kept == Len(window')
<1>1. /\ revision \in Nat /\ window \in Seq(Nat) /\ len \in Nat
      /\ EventWindowSize \in Nat
      /\ len = IF revision <= EventWindowSize THEN revision ELSE EventWindowSize
    BY WindowAssumption, LenProperties DEF WindowContiguous
<1>2. \A k \in 1..len : window[k] = revision - len + k
    BY DEF WindowContiguous
<1>3. revision' = revision + 1 /\ window' = Newest(longer, EventWindowSize)
    BY DEF Publish
<1>4. /\ longer \in Seq(Nat) /\ Len(longer) = len + 1
      /\ \A k \in 1..len : longer[k] = window[k]
      /\ longer[len + 1] = revision + 1
    <2>1. revision + 1 \in Nat
        BY <1>1
    <2> QED BY <1>1, <2>1, AppendProperties
<1> HIDE DEF longer
<1>5. /\ window' \in Seq(Nat)
      /\ kept = IF Len(longer) <= EventWindowSize THEN Len(longer) ELSE EventWindowSize
      /\ \A k \in 1..kept : window'[k] = longer[Len(longer) - kept + k]
    <2>1. longer \in Seq(Nat) /\ EventWindowSize \in Nat
        BY <1>1, <1>4
    <2>2. /\ Newest(longer, EventWindowSize) \in Seq(Nat)
          /\ Len(Newest(longer, EventWindowSize))
                 = IF Len(longer) <= EventWindowSize THEN Len(longer) ELSE EventWindowSize
          /\ \A k \in 1..Len(Newest(longer, EventWindowSize)) :
                Newest(longer, EventWindowSize)[k]
                    = longer[Len(longer) - Len(Newest(longer, EventWindowSize)) + k]
        BY <2>1, NewestProperties, ZenonT(60)
    <2> QED BY <1>3, <2>2, ZenonT(60)
<1> HIDE DEF len, kept
<1>6. \A k \in 1..len + 1 : longer[k] = revision - len + k
    <2> SUFFICES ASSUME NEW k \in 1..len + 1
                 PROVE  longer[k] = revision - len + k
        OBVIOUS
    <2>1. CASE k = len + 1
        BY <1>1, <1>4, <2>1
    <2>2. CASE k # len + 1
        <3>1. k \in 1..len
            BY <1>1, <2>2
        <3> QED BY <1>2, <1>4, <3>1
    <2> QED BY <2>1, <2>2
<1>7. kept = IF revision' <= EventWindowSize THEN revision' ELSE EventWindowSize
    BY <1>1, <1>3, <1>4, <1>5
<1>8. ASSUME NEW k \in 1..kept
      PROVE  window'[k] = revision' - kept + k
    <2>1. /\ kept \in Nat /\ kept <= len + 1
          /\ len + 1 - kept + k \in 1..len + 1
          /\ revision - len + (len + 1 - kept + k) = revision' - kept + k
        BY <1>1, <1>3, <1>4, <1>5
    <2>2. window'[k] = longer[Len(longer) - kept + k]
        BY <1>5
    <2>3. Len(longer) - kept + k = len + 1 - kept + k
        BY <1>1, <1>4, <2>1
    <2> QED BY <1>6, <2>1, <2>2, <2>3
<1>9. revision' \in Nat
    BY <1>1, <1>3
<1> QED BY <1>5, <1>7, <1>8, <1>9, ZenonT(60) DEF WindowContiguous, kept

LEMMA InitContiguous == WindowInit => WindowContiguous
BY WindowAssumption DEF WindowInit, WindowContiguous

\* Every room's window is contiguous, whatever its size (RoomStore.commit()).
THEOREM WindowIsContiguous == WindowSpec => []WindowContiguous
<1>1. WindowContiguous /\ UNCHANGED windowVars => WindowContiguous'
    BY DEF WindowContiguous, windowVars
<1> QED BY InitContiguous, PublishKeepsContiguous, <1>1, PTL DEF WindowSpec

-----------------------------------------------------------------------------
\* The replay of a client that the window still reaches: exactly the
\* revisions after point, up to the current one.
LEMMA ReplayIsSuffix ==
    ASSUME WindowContiguous, NEW point \in Nat,
           point < revision, ~WindowMiss(point)
    PROVE  /\ EventsAfter(point) \in Seq(Nat)
           /\ Len(EventsAfter(point)) = revision - point
           /\ \A k \in 1..Len(EventsAfter(point)) : EventsAfter(point)[k] = point + k
<1> DEFINE len == Len(window)
           n == point - (revision - len)
<1>1. /\ revision \in Nat /\ window \in Seq(Nat) /\ len \in Nat /\ len <= revision
    BY WindowAssumption, LenProperties DEF WindowContiguous
<1>2. \A k \in 1..len : window[k] = revision - len + k
    BY DEF WindowContiguous
<1>3. window # <<>> /\ ~(point < Head(window) - 1)
    BY DEF WindowMiss
<1>4. Head(window) = window[1] /\ 1 \in 1..len
    BY <1>1, <1>3, EmptySeq
<1> HIDE DEF len
<1>5. Head(window) = revision - len + 1
    BY <1>2, <1>4
<1>6. n \in 0..len /\ n \in Int
    BY <1>1, <1>3, <1>5
<1>7. {k \in 1..len : window[k] <= point} = 1..n
    <2>1. ASSUME NEW k \in 1..len
          PROVE  window[k] <= point <=> k \in 1..n
        BY <1>1, <1>2
    <2>2. \A k \in 1..n : k \in 1..len
        BY <1>1, <1>6
    <2> HIDE DEF n
    <2> QED BY <2>1, <2>2
<1> HIDE DEF n
<1>8. Cardinality(1..n) = n
    <2>1. Cardinality(1..n) = IF 1 > n THEN 0 ELSE n - 1 + 1
        BY <1>6, FS_Interval
    <2> QED BY <1>1, <1>6, <2>1
<1>9. EventsAfter(point) = SubSeq(window, n + 1, len)
    BY <1>7, <1>8, ZenonT(60) DEF EventsAfter, len
<1>10. n + 1 \in Int /\ len \in Int /\ \A i \in n + 1..len : window[i] \in Nat
    <2>1. \A i \in 1..len : window[i] \in Nat
        BY <1>1, ElementOfSeq DEF len
    <2> QED BY <1>1, <1>6, <2>1
<1>11. /\ EventsAfter(point) \in Seq(Nat)
       /\ Len(EventsAfter(point)) = IF n + 1 <= len THEN len - (n + 1) + 1 ELSE 0
       /\ \A i \in 1..len - (n + 1) + 1 : EventsAfter(point)[i] = window[n + 1 + i - 1]
    <2> DEFINE t == SubSeq(window, n + 1, len)
    <2>1. /\ t \in Seq(Nat)
          /\ Len(t) = IF n + 1 <= len THEN len - (n + 1) + 1 ELSE 0
          /\ \A i \in 1..len - (n + 1) + 1 : t[i] = window[n + 1 + i - 1]
        BY <1>10, SubSeqProperties
    <2> QED BY <1>9, <2>1, ZenonT(60)
<1>12. Len(EventsAfter(point)) = revision - point
    BY <1>1, <1>6, <1>11 DEF n
<1>13. ASSUME NEW k \in 1..revision - point
       PROVE  EventsAfter(point)[k] = point + k
    <2>1. /\ k \in 1..len - (n + 1) + 1 /\ n + 1 + k - 1 = n + k
          /\ n + k \in 1..len /\ revision - len + (n + k) = point + k
        BY <1>1, <1>6 DEF n
    <2>2. EventsAfter(point)[k] = window[n + k]
        BY <1>11, <2>1
    <2> QED BY <1>2, <2>1, <2>2
<1> QED BY <1>11, <1>12, <1>13

-----------------------------------------------------------------------------
(* The streams.                                                            *)

\* The inductive invariant.
StreamInvariant ==
    /\ TypeOK
    /\ WindowContiguous
    /\ StreamGapFree
    /\ PointsInOrder
    /\ UpToDate

-----------------------------------------------------------------------------
\* What getReplayEvents() returns: a run of revisions up to the current one,
\* after the client's point, and nothing only if that point is not behind.
LEMMA ReplayShape ==
    ASSUME TypeOK, WindowContiguous, NEW h \in Host
    PROVE  /\ Replay(h) \in Seq(Nat)
           /\ \A k \in 1..Len(Replay(h)) : Replay(h)[k] = revision - Len(Replay(h)) + k
           /\ Replay(h) = <<>> => Resume(h) # Nothing /\ Resume(h).revision >= revision
           /\ Resume(h) # Nothing /\ Resume(h).revision <= revision =>
                  Resume(h).revision <= revision - Len(Replay(h))
<1> DEFINE p == Resume(h)
<1>1. revision \in Nat /\ (p # Nothing => p.revision \in Nat)
    BY EventsAssumption DEF TypeOK, Resume, Point
<1>2. <<revision>> \in Seq(Nat) /\ Len(<<revision>>) = 1 /\ <<revision>>[1] = revision
    BY <1>1
<1>3. CASE p = Nothing
    BY <1>1, <1>2, <1>3 DEF Replay
<1>4. CASE p # Nothing /\ p.revision >= revision
    <2>1. Replay(h) = <<>>
        BY <1>4 DEF Replay
    <2>2. <<>> \in Seq(Nat) /\ Len(<<>>) = 0
        BY EmptySeq
    <2> HIDE DEF p
    <2> QED BY <1>1, <1>4, <2>1, <2>2 DEF p
<1>5. CASE p # Nothing /\ p.revision < revision /\ WindowMiss(p.revision)
    BY <1>1, <1>2, <1>5 DEF Replay
<1>6. CASE p # Nothing /\ p.revision < revision /\ ~WindowMiss(p.revision)
    <2> DEFINE r == p.revision
    <2>1. /\ EventsAfter(r) \in Seq(Nat)
          /\ Len(EventsAfter(r)) = revision - r
          /\ \A k \in 1..Len(EventsAfter(r)) : EventsAfter(r)[k] = r + k
        BY <1>1, <1>6, ReplayIsSuffix
    <2>2. Replay(h) = EventsAfter(r)
        BY <1>1, <1>6 DEF Replay
    <2> DEFINE n == Len(EventsAfter(r))
    <2>3. r \in Nat /\ n = revision - r /\ revision - n = r /\ n # 0
        BY <1>1, <1>6, <2>1
    <2>4. EventsAfter(r) # <<>>
        BY <2>3, EmptySeq
    <2>5. \A k \in 1..n : EventsAfter(r)[k] = revision - n + k
        BY <2>1, <2>3
    <2>6. p.revision <= revision - n
        BY <2>3
    <2> QED BY <2>1, <2>2, <2>4, <2>5, <2>6
<1> QED BY <1>1, <1>3, <1>4, <1>5, <1>6

-----------------------------------------------------------------------------
LEMMA InitInvariant == Init => StreamInvariant
<1> SUFFICES ASSUME Init PROVE StreamInvariant
    OBVIOUS
<1>1. WindowContiguous
    BY InitContiguous DEF Init
<1>2. TypeOK
    BY EventsAssumption DEF Init, WindowInit, TypeOK, Phase
<1>3. StreamGapFree /\ PointsInOrder /\ UpToDate
    BY EventsAssumption DEF Init, StreamGapFree, PointsInOrder, UpToDate, Outlived, Streaming
<1> QED BY <1>1, <1>2, <1>3 DEF StreamInvariant

LEMMA CommitKeeps == StreamInvariant /\ Commit => StreamInvariant'
<1> SUFFICES ASSUME StreamInvariant, Commit PROVE StreamInvariant'
    OBVIOUS
<1>1. WindowContiguous'
    BY PublishKeepsContiguous DEF StreamInvariant, Commit
<1>2. /\ revision \in Nat /\ revision' = revision + 1
      /\ queue \in [Host -> Seq(Nat)]
      /\ queue' = [h \in Host |-> IF Streaming(h) THEN Append(queue[h], revision + 1)
                                  ELSE queue[h]]
      /\ UNCHANGED <<life, exists, phase, since, shown, drops>>
    BY DEF StreamInvariant, TypeOK, Commit, Publish, Broadcast
<1>3. ASSUME NEW h \in Host, Streaming(h)
      PROVE  /\ queue'[h] \in Seq(Nat)
             /\ Len(queue'[h]) = Len(queue[h]) + 1
             /\ queue'[h] # <<>>
             /\ \A k \in 1..Len(queue[h]) : queue'[h][k] = queue[h][k]
             /\ queue'[h][Len(queue[h]) + 1] = revision + 1
    <2>1. queue'[h] = Append(queue[h], revision + 1) /\ revision + 1 \in Nat
        BY <1>2, <1>3
    <2>2. /\ Append(queue[h], revision + 1) \in Seq(Nat)
          /\ Len(Append(queue[h], revision + 1)) = Len(queue[h]) + 1
          /\ \A k \in 1..Len(queue[h]) : Append(queue[h], revision + 1)[k] = queue[h][k]
          /\ Append(queue[h], revision + 1)[Len(queue[h]) + 1] = revision + 1
        BY <1>2, <2>1, AppendProperties
    <2>3. Len(queue[h]) \in Nat
        BY <1>2, LenProperties
    <2> QED BY <2>1, <2>2, <2>3, EmptySeq
<1>4. ASSUME NEW h \in Host
      PROVE  /\ Streaming(h)' <=> Streaming(h)
             /\ ~Streaming(h) => queue'[h] = queue[h]
             /\ Len(queue[h]) \in Nat
    BY <1>2, LenProperties DEF Streaming
<1>5. TypeOK'
    <2>1. queue' \in [Host -> Seq(Nat)]
        BY <1>2, <1>3, <1>4
    <2>2. window' \in Seq(Nat) /\ revision' \in Nat
        BY <1>1 DEF WindowContiguous
    <2>3. \A h \in Host : queue'[h] # <<>> => Streaming(h)'
        BY <1>3, <1>4 DEF StreamInvariant, TypeOK
    <2> QED BY <1>2, <2>1, <2>2, <2>3 DEF StreamInvariant, TypeOK, Point
<1>6. StreamGapFree'
    <2> SUFFICES ASSUME NEW h \in Host, Streaming(h)', NEW k \in 1..Len(queue'[h])
                 PROVE  queue'[h][k] = revision' - Len(queue'[h]) + k
        BY DEF StreamGapFree
    <2> DEFINE len == Len(queue[h])
           longer == Len(queue'[h])
    <2>1. /\ len \in Nat /\ longer = len + 1
          /\ queue'[h][len + 1] = revision + 1
        BY <1>3, <1>4
    <2>2. \A j \in 1..len : queue'[h][j] = revision - len + j
        BY <1>3, <1>4 DEF StreamInvariant, StreamGapFree
    <2>3. revision \in Nat /\ revision' = revision + 1
        BY <1>2
    <2> HIDE DEF len, longer
    <2>4. revision' - longer + k = revision - len + k /\ k \in 1..len + 1
        BY <2>1, <2>3 DEF longer
    <2>5. CASE k = len + 1
        <3>1. revision - len + k = revision + 1
            BY <2>1, <2>3, <2>5
        <3> QED BY <2>1, <2>4, <2>5, <3>1 DEF longer
    <2>6. CASE k # len + 1
        <3>1. k \in 1..len
            BY <2>1, <2>4, <2>6
        <3> QED BY <2>2, <2>4, <3>1 DEF longer
    <2> QED BY <2>5, <2>6
<1>7. PointsInOrder'
    <2>1. \A h \in Host : \A p \in {since'[h], shown'[h]} \ {Nothing} :
              /\ p.life <= life'
              /\ p.life = life' => p.revision <= revision'
        BY <1>2 DEF StreamInvariant, PointsInOrder, TypeOK, Point
    <2>2. ASSUME NEW h \in Pinned, since'[h] # Nothing
          PROVE  /\ shown'[h] # Nothing
                 /\ since'[h].life <= shown'[h].life
                 /\ since'[h].life = shown'[h].life =>
                        since'[h].revision <= shown'[h].revision
                 /\ Streaming(h)' /\ since'[h].life = life' =>
                        since'[h].revision <= revision' - Len(queue'[h])
        <3>1. h \in Host
            BY EventsAssumption
        <3> QED BY <1>2, <1>3, <1>4, <2>2, <3>1 DEF StreamInvariant, PointsInOrder
    <2> QED BY <2>1, <2>2 DEF PointsInOrder
<1>8. UpToDate'
    BY <1>3, <1>4 DEF UpToDate, Outlived
<1> QED BY <1>1, <1>5, <1>6, <1>7, <1>8 DEF StreamInvariant

\* The other handlers leave the room alone: the window stays as it is.
LEMMA WindowKept ==
    ASSUME WindowContiguous, UNCHANGED windowVars
    PROVE  WindowContiguous' /\ revision' = revision /\ window' = window
BY DEF WindowContiguous, windowVars

LEMMA OpenKeeps ==
    ASSUME StreamInvariant, NEW g \in Host, Open(g)
    PROVE  StreamInvariant'
<1>1. WindowContiguous' /\ revision' = revision /\ window' = window
    BY WindowKept DEF StreamInvariant, Open
<1>2. /\ UNCHANGED <<life, since, shown, queue, drops>>
      /\ phase' \in [Host -> Phase] /\ exists' \in BOOLEAN
      /\ \A h \in Host : Streaming(h)' <=> Streaming(h)
    BY DEF Open, StreamInvariant, TypeOK, Phase, Streaming
<1>3. TypeOK' /\ StreamGapFree' /\ PointsInOrder' /\ UpToDate'
  <2>1. TypeOK'
      BY <1>1, <1>2 DEF StreamInvariant, TypeOK, Point
  <2>2. StreamGapFree' /\ UpToDate'
      BY <1>1, <1>2 DEF StreamInvariant, StreamGapFree, UpToDate, Outlived, Resume, Now
  <2>3. PointsInOrder'
      BY <1>1, <1>2, EventsAssumption DEF StreamInvariant, PointsInOrder
  <2> QED BY <2>1, <2>2, <2>3
<1> QED BY <1>1, <1>3 DEF StreamInvariant

LEMMA SnapshotKeeps ==
    ASSUME StreamInvariant, NEW g \in Host, Snapshot(g)
    PROVE  StreamInvariant'
<1>1. WindowContiguous' /\ revision' = revision /\ window' = window
    BY WindowKept DEF StreamInvariant, Snapshot
<1>2. /\ life' = life /\ queue' = queue /\ drops' = drops
      /\ phase[g] = "opening" /\ phase' \in [Host -> Phase]
      /\ phase'[g] \in {"connecting", "refused"}
      /\ \A h \in Host \ {g} : phase'[h] = phase[h]
    BY DEF Snapshot, StreamInvariant, TypeOK, Phase
<1>3. Now \in Point /\ Now.life = life /\ Now.revision = revision /\ Now # Nothing
    BY EventsAssumption DEF StreamInvariant, TypeOK, Now, Point
<1>4. \/ exists /\ since' = [since EXCEPT ![g] = Now] /\ shown' = [shown EXCEPT ![g] = Now]
      \/ ~exists /\ since' = since /\ shown' = shown
    BY DEF Snapshot
<1> HIDE DEF Now
<1>5. TypeOK'
    <2>1. phase' \in [Host -> Phase] /\ exists' \in BOOLEAN
        BY <1>2 DEF StreamInvariant, TypeOK, Snapshot
    <2>2. /\ since' \in [Host -> Point \cup {Nothing}]
          /\ shown' \in [Host -> Point \cup {Nothing}]
        BY <1>3, <1>4 DEF StreamInvariant, TypeOK
    <2>3. \A h \in Host : queue'[h] # <<>> => Streaming(h)'
        BY <1>2 DEF StreamInvariant, TypeOK, Streaming
    <2> QED BY <1>1, <1>2, <2>1, <2>2, <2>3 DEF StreamInvariant, TypeOK, Point
<1>6. \A h \in Host : /\ Streaming(h)' => h # g /\ Streaming(h)
                      /\ h # g => phase'[h] = phase[h]
    BY <1>2 DEF StreamInvariant, TypeOK, Streaming
<1>7. StreamGapFree'
    BY <1>1, <1>2, <1>6 DEF StreamInvariant, StreamGapFree
<1>8. \A h \in Host : h # g => since'[h] = since[h] /\ shown'[h] = shown[h]
    BY <1>4 DEF StreamInvariant, TypeOK
<1>9. exists => since'[g] = Now /\ shown'[g] = Now
    BY <1>4 DEF StreamInvariant, TypeOK
<1>10. PointsInOrder'
    <2>1. ASSUME NEW h \in Host, NEW p \in {since'[h], shown'[h]} \ {Nothing}
          PROVE  p.life <= life' /\ (p.life = life' => p.revision <= revision')
        <3>1. life \in Nat /\ revision \in Nat
            BY DEF StreamInvariant, TypeOK
        <3>2. CASE h = g /\ exists
            BY <1>1, <1>2, <1>3, <1>9, <3>1, <3>2
        <3>3. CASE ~(h = g /\ exists)
            <4>1. since'[h] = since[h] /\ shown'[h] = shown[h]
                BY <1>4, <1>8, <3>3
            <4> QED BY <1>1, <1>2, <4>1 DEF StreamInvariant, PointsInOrder
        <3> QED BY <3>2, <3>3
    <2>2. ASSUME NEW h \in Pinned, since'[h] # Nothing
          PROVE  /\ shown'[h] # Nothing
                 /\ since'[h].life <= shown'[h].life
                 /\ since'[h].life = shown'[h].life =>
                        since'[h].revision <= shown'[h].revision
                 /\ Streaming(h)' /\ since'[h].life = life' =>
                        since'[h].revision <= revision' - Len(queue'[h])
        <3>1. h \in Host /\ life \in Nat /\ revision \in Nat
            BY EventsAssumption DEF StreamInvariant, TypeOK
        <3>2. CASE h = g /\ exists
            BY <1>3, <1>6, <1>9, <3>1, <3>2
        <3>3. CASE ~(h = g /\ exists)
            BY <1>1, <1>2, <1>4, <1>6, <1>8, <2>2, <3>1, <3>3 DEF StreamInvariant, PointsInOrder
        <3> QED BY <3>2, <3>3
    <2> QED BY <2>1, <2>2 DEF PointsInOrder
<1>11. UpToDate'
    BY <1>1, <1>2, <1>6, <1>8 DEF StreamInvariant, UpToDate, Outlived, Resume, Now
<1> QED BY <1>1, <1>5, <1>7, <1>10, <1>11 DEF StreamInvariant

\* Actions that end a connection, or find that there is none to be had.
LEMMA DisconnectKeeps ==
    ASSUME StreamInvariant, NEW g \in Host,
           ConnectRefused(g) \/ Drop(g) \/ Close(g)
    PROVE  StreamInvariant'
<1>1. WindowContiguous' /\ revision' = revision /\ window' = window
    BY WindowKept DEF StreamInvariant, ConnectRefused, Drop, Close
<1>0. /\ phase \in [Host -> Phase] /\ drops \in Nat
      /\ since \in [Host -> Point \cup {Nothing}]
      /\ shown \in [Host -> Point \cup {Nothing}]
      /\ queue \in [Host -> Seq(Nat)]
    BY DEF StreamInvariant, TypeOK
<1>2. /\ life' = life /\ exists' = exists
      /\ drops' \in Nat
      /\ phase' \in [Host -> Phase]
      /\ since' \in [Host -> Point \cup {Nothing}]
      /\ shown' \in [Host -> Point \cup {Nothing}]
    <2> USE DEF Phase
    <2>1. CASE ConnectRefused(g)
        BY <1>0, <2>1 DEF ConnectRefused
    <2>2. CASE Drop(g)
        BY <1>0, <2>2 DEF Drop
    <2>3. CASE Close(g)
        BY <1>0, <2>3 DEF Close
    <2> QED BY <2>1, <2>2, <2>3
<1>3. /\ ~Streaming(g)'
      /\ \/ queue' = [queue EXCEPT ![g] = <<>>]
         \/ queue' = queue /\ ~Streaming(g)
      /\ \/ since'[g] = Nothing /\ shown'[g] = Nothing
         \/ since'[g] = since[g] /\ shown'[g] = shown[g]
    <2>1. CASE ConnectRefused(g)
        BY <1>0, <2>1 DEF ConnectRefused, Streaming
    <2>2. CASE Drop(g)
        BY <1>0, <2>2 DEF Drop, Streaming
    <2>3. CASE Close(g)
        BY <1>0, <2>3 DEF Close, Streaming
    <2> QED BY <2>1, <2>2, <2>3
<1>4. \A h \in Host \ {g} : /\ phase'[h] = phase[h] /\ queue'[h] = queue[h]
                            /\ since'[h] = since[h] /\ shown'[h] = shown[h]
                            /\ Streaming(h)' <=> Streaming(h)
    BY DEF StreamInvariant, TypeOK, ConnectRefused, Drop, Close, Streaming
<1>5. queue' \in [Host -> Seq(Nat)] /\ queue'[g] = <<>>
    BY <1>3, EmptySeq DEF StreamInvariant, TypeOK
<1>6. TypeOK'
    <2>1. \A h \in Host : queue'[h] # <<>> => Streaming(h)'
        BY <1>4, <1>5 DEF StreamInvariant, TypeOK
    <2> QED BY <1>1, <1>2, <1>5, <2>1 DEF StreamInvariant, TypeOK, Point
<1>7. StreamGapFree'
    BY <1>1, <1>3, <1>4 DEF StreamInvariant, StreamGapFree
<1>8. PointsInOrder'
    <2>1. ASSUME NEW h \in Host, NEW p \in {since'[h], shown'[h]} \ {Nothing}
          PROVE  p.life <= life' /\ (p.life = life' => p.revision <= revision')
        <3>1. since'[h] \in {since[h], Nothing} /\ shown'[h] \in {shown[h], Nothing}
            BY <1>3, <1>4
        <3> QED BY <1>1, <1>2, <3>1 DEF StreamInvariant, PointsInOrder
    <2>2. ASSUME NEW h \in Pinned, since'[h] # Nothing
          PROVE  /\ shown'[h] # Nothing
                 /\ since'[h].life <= shown'[h].life
                 /\ since'[h].life = shown'[h].life =>
                        since'[h].revision <= shown'[h].revision
                 /\ Streaming(h)' /\ since'[h].life = life' =>
                        since'[h].revision <= revision' - Len(queue'[h])
        <3>1. h \in Host
            BY EventsAssumption
        <3>2. CASE h = g
            BY <1>3, <2>2, <3>1, <3>2 DEF StreamInvariant, PointsInOrder
        <3>3. CASE h # g
            BY <1>1, <1>2, <1>4, <2>2, <3>1, <3>3 DEF StreamInvariant, PointsInOrder
        <3> QED BY <3>2, <3>3
    <2> QED BY <2>1, <2>2 DEF PointsInOrder
<1>9. UpToDate'
    BY <1>1, <1>2, <1>3, <1>4 DEF StreamInvariant, UpToDate, Outlived, Resume, Now
<1> QED BY <1>1, <1>6, <1>7, <1>8, <1>9 DEF StreamInvariant

LEMMA PointIsNow ==
    ASSUME NEW p \in Point, p.life = life, p.revision = revision
    PROVE  p = Now
BY DEF Point, Now

\* Replay and subscription happen in one step: what is written to the client
\* is the replay, and the client is up to date if that is empty.
LEMMA ConnectKeeps ==
    ASSUME StreamInvariant, NEW g \in Host, Connect(g)
    PROVE  StreamInvariant'
<1>1. WindowContiguous' /\ revision' = revision /\ window' = window
    BY WindowKept DEF StreamInvariant, Connect
<1>2. /\ phase \in [Host -> Phase] /\ queue \in [Host -> Seq(Nat)]
      /\ life \in Nat /\ revision \in Nat
      /\ \A h \in Host : /\ since[h] \in Point \cup {Nothing}
                         /\ shown[h] \in Point \cup {Nothing}
      /\ \A h \in Host : queue[h] # <<>> => Streaming(h)
    BY DEF StreamInvariant, TypeOK
<1>3. /\ life' = life /\ exists' = exists /\ drops' = drops
      /\ since' = since /\ shown' = shown
      /\ phase' = [phase EXCEPT ![g] = "streaming"] /\ phase[g] = "connecting"
      /\ queue' = [queue EXCEPT ![g] = Replay(g)]
    BY DEF Connect
<1>4. /\ Replay(g) \in Seq(Nat) /\ Len(Replay(g)) \in Nat
      /\ \A k \in 1..Len(Replay(g)) : Replay(g)[k] = revision - Len(Replay(g)) + k
      /\ Replay(g) = <<>> => Resume(g) # Nothing /\ Resume(g).revision >= revision
      /\ Resume(g) # Nothing /\ Resume(g).revision <= revision =>
             Resume(g).revision <= revision - Len(Replay(g))
    BY ReplayShape, LenProperties DEF StreamInvariant
<1>5. /\ queue'[g] = Replay(g) /\ Streaming(g)' /\ phase'[g] # "off"
      /\ \A h \in Host \ {g} : /\ phase'[h] = phase[h] /\ queue'[h] = queue[h]
                               /\ Streaming(h)' <=> Streaming(h)
    BY <1>2, <1>3 DEF Streaming
<1>6. TypeOK'
    <2>1. phase' \in [Host -> Phase] /\ queue' \in [Host -> Seq(Nat)]
        BY <1>2, <1>3, <1>4 DEF Phase
    <2>2. \A h \in Host : queue'[h] # <<>> => Streaming(h)'
        BY <1>2, <1>5
    <2> QED BY <1>1, <1>3, <2>1, <2>2 DEF StreamInvariant, TypeOK, Point
<1>7. StreamGapFree'
    <2> SUFFICES ASSUME NEW h \in Host, Streaming(h)', NEW k \in 1..Len(queue'[h])
                 PROVE  queue'[h][k] = revision' - Len(queue'[h]) + k
        BY DEF StreamGapFree
    <2>1. CASE h = g
        BY <1>1, <1>4, <1>5, <2>1
    <2>2. CASE h # g
        BY <1>1, <1>5, <2>2 DEF StreamInvariant, StreamGapFree
    <2> QED BY <2>1, <2>2
<1>8. PointsInOrder'
    <2>1. \A h \in Host : \A p \in {since'[h], shown'[h]} \ {Nothing} :
              p.life <= life' /\ (p.life = life' => p.revision <= revision')
        BY <1>1, <1>3 DEF StreamInvariant, PointsInOrder
    <2>2. ASSUME NEW h \in Pinned, since'[h] # Nothing
          PROVE  /\ shown'[h] # Nothing
                 /\ since'[h].life <= shown'[h].life
                 /\ since'[h].life = shown'[h].life =>
                        since'[h].revision <= shown'[h].revision
                 /\ Streaming(h)' /\ since'[h].life = life' =>
                        since'[h].revision <= revision' - Len(queue'[h])
        <3>1. h \in Host
            BY EventsAssumption
        <3>2. since[h] # Nothing
            BY <1>3, <2>2
        <3>3. /\ since[h] # Nothing /\ shown[h] # Nothing
              /\ since[h].life <= shown[h].life
              /\ since[h].life = shown[h].life => since[h].revision <= shown[h].revision
            BY <3>2 DEF StreamInvariant, PointsInOrder
        <3>4. ASSUME h = g, since[h].life = life
              PROVE  since[h].revision <= revision - Len(Replay(g))
            <4>1. since[h].revision <= revision
                BY <3>1, <3>3, <3>4 DEF StreamInvariant, PointsInOrder
            <4>2. Resume(g) = since[h]
                BY <3>4 DEF Resume
            <4> QED BY <1>4, <3>3, <4>1, <4>2
        <3>5. ASSUME h # g, Streaming(h), since[h].life = life
              PROVE  since[h].revision <= revision - Len(queue[h])
            BY <3>2, <3>5 DEF StreamInvariant, PointsInOrder
        <3> QED BY <1>1, <1>3, <1>5, <3>1, <3>3, <3>4, <3>5
    <2> QED BY <2>1, <2>2 DEF PointsInOrder
<1>9. UpToDate'
    <2> SUFFICES ASSUME NEW h \in Host, Streaming(h)', queue'[h] = <<>>
                 PROVE  \/ shown[h] = Now
                        \/ /\ Resume(h) # Nothing /\ Resume(h).life # life
                           /\ revision <= Resume(h).revision
        BY <1>1, <1>3 DEF UpToDate, Outlived, Resume, Now
    <2>1. CASE h # g
        BY <1>5, <2>1 DEF StreamInvariant, UpToDate, Outlived
    <2>2. CASE h = g /\ Resume(g).life # life
        BY <1>2, <1>4, <1>5, <2>2 DEF Resume, Point
    <2>3. CASE h = g /\ Resume(g).life = life
        <3>1. Resume(g) # Nothing /\ Resume(g).revision >= revision
            BY <1>4, <1>5, <2>3
        <3>2. CASE g \in Pinned
            <4>1. /\ since[g].life = life /\ since[g].revision >= revision
                  /\ since[g] # Nothing /\ shown[g] # Nothing
                  /\ since[g].life <= shown[g].life
                  /\ since[g].life = shown[g].life =>
                         since[g].revision <= shown[g].revision
                BY <1>3, <2>3, <3>1, <3>2 DEF Resume, StreamInvariant, PointsInOrder
            <4>2. /\ shown[g].life <= life
                  /\ shown[g].life = life => shown[g].revision <= revision
                BY <4>1 DEF StreamInvariant, PointsInOrder
            <4>3. /\ since[g].revision \in Nat
                  /\ shown[g].life \in Nat /\ shown[g].revision \in Nat
                BY <1>2, <4>1 DEF Point
            <4>4. shown[g].life = life /\ shown[g].revision = revision
                BY <1>2, <4>1, <4>2, <4>3
            <4> QED BY <1>2, <2>3, <4>1, <4>4, PointIsNow
        <3>3. CASE g \notin Pinned
            <4>1. Resume(g) = shown[g]
                BY <3>3 DEF Resume
            <4>2. shown[g].life = life /\ shown[g].revision >= revision /\ shown[g] \in Point
                BY <1>2, <2>3, <3>1, <4>1
            <4>3. shown[g].revision <= revision /\ shown[g].revision \in Nat
                BY <3>1, <4>1, <4>2 DEF StreamInvariant, PointsInOrder, Point
            <4>4. shown[g].revision = revision
                BY <1>2, <4>2, <4>3
            <4> QED BY <2>3, <4>2, <4>4, PointIsNow
        <3> QED BY <3>2, <3>3
    <2> QED BY <2>1, <2>2, <2>3
<1> QED BY <1>1, <1>6, <1>7, <1>8, <1>9 DEF StreamInvariant

\* A delivered event is the oldest of the run, so the last one is the present.
LEMMA DeliverKeeps ==
    ASSUME StreamInvariant, NEW g \in Host, Deliver(g)
    PROVE  StreamInvariant'
<1> DEFINE len == Len(queue[g])
           event == [life |-> life, revision |-> Head(queue[g])]
<1>1. WindowContiguous' /\ revision' = revision /\ window' = window
    BY WindowKept DEF StreamInvariant, Deliver
<1>2. /\ phase \in [Host -> Phase] /\ queue \in [Host -> Seq(Nat)]
      /\ life \in Nat /\ revision \in Nat
      /\ shown \in [Host -> Point \cup {Nothing}]
      /\ \A h \in Host : since[h] \in Point \cup {Nothing}
      /\ \A h \in Host : queue[h] # <<>> => Streaming(h)
    BY DEF StreamInvariant, TypeOK
<1>3. /\ life' = life /\ exists' = exists /\ drops' = drops
      /\ since' = since /\ phase' = phase
      /\ shown' = [shown EXCEPT ![g] = event]
      /\ queue' = [queue EXCEPT ![g] = Tail(queue[g])]
      /\ Streaming(g) /\ queue[g] # <<>> /\ queue[g] \in Seq(Nat)
    BY <1>2 DEF Deliver
<1>4. /\ Head(queue[g]) = queue[g][1] /\ Head(queue[g]) \in Nat
      /\ Tail(queue[g]) \in Seq(Nat) /\ Len(Tail(queue[g])) = len - 1
      /\ \A k \in 1..Len(Tail(queue[g])) : Tail(queue[g])[k] = queue[g][k + 1]
      /\ len \in Nat /\ len >= 1
    BY <1>3, HeadTailProperties, EmptySeq, LenProperties
<1>5. \A k \in 1..len : queue[g][k] = revision - len + k
    BY <1>3 DEF StreamInvariant, StreamGapFree
<1> HIDE DEF len
<1>6. Head(queue[g]) = revision - len + 1
    <2>1. 1 \in 1..len
        BY <1>4
    <2> QED BY <1>4, <1>5, <2>1
<1>7. /\ event \in Point /\ event # Nothing
      /\ event.life = life /\ event.revision = revision - len + 1
    BY <1>2, <1>4, <1>6, EventsAssumption DEF Point
<1> HIDE DEF event
<1>8. /\ queue'[g] = Tail(queue[g]) /\ shown'[g] = event
      /\ \A h \in Host \ {g} : queue'[h] = queue[h] /\ shown'[h] = shown[h]
      /\ \A h \in Host : Streaming(h)' <=> Streaming(h)
    BY <1>2, <1>3 DEF Streaming
<1>9. TypeOK'
    <2>1. /\ queue' \in [Host -> Seq(Nat)]
          /\ shown' \in [Host -> Point \cup {Nothing}]
        BY <1>2, <1>3, <1>4, <1>7
    <2>2. \A h \in Host : queue'[h] # <<>> => Streaming(h)'
        BY <1>2, <1>3, <1>8
    <2> QED BY <1>1, <1>3, <2>1, <2>2 DEF StreamInvariant, TypeOK, Point
<1>10. StreamGapFree'
    <2> SUFFICES ASSUME NEW h \in Host, Streaming(h)', NEW k \in 1..Len(queue'[h])
                 PROVE  queue'[h][k] = revision' - Len(queue'[h]) + k
        BY DEF StreamGapFree
    <2>1. CASE h = g
        <3>0. Len(queue'[g]) = len - 1 /\ k \in 1..Len(queue'[g])
            BY <1>4, <1>8, <2>1
        <3>1. k \in 1..len - 1 /\ k + 1 \in 1..len /\ Len(queue'[g]) = len - 1
            BY <1>4, <3>0
        <3>2. queue'[g][k] = revision - len + (k + 1)
            BY <1>4, <1>5, <1>8, <3>1
        <3>3. revision - len + (k + 1) = revision - (len - 1) + k
            BY <1>2, <1>4
        <3> QED BY <1>1, <2>1, <3>1, <3>2, <3>3
    <2>2. CASE h # g
        BY <1>1, <1>8, <2>2 DEF StreamInvariant, StreamGapFree
    <2> QED BY <2>1, <2>2
<1>11. PointsInOrder'
    <2>1. ASSUME NEW h \in Host, NEW p \in {since'[h], shown'[h]} \ {Nothing}
          PROVE  p.life <= life' /\ (p.life = life' => p.revision <= revision')
        <3>1. p = event \/ p \in {since[h], shown[h]} \ {Nothing}
            BY <1>3, <1>8
        <3>2. CASE p = event
            BY <1>1, <1>2, <1>3, <1>4, <1>7, <3>2
        <3>3. CASE p \in {since[h], shown[h]} \ {Nothing}
            BY <1>1, <1>3, <3>3 DEF StreamInvariant, PointsInOrder
        <3> QED BY <3>1, <3>2, <3>3
    <2>2. ASSUME NEW h \in Pinned, since'[h] # Nothing
          PROVE  /\ shown'[h] # Nothing
                 /\ since'[h].life <= shown'[h].life
                 /\ since'[h].life = shown'[h].life =>
                        since'[h].revision <= shown'[h].revision
                 /\ Streaming(h)' /\ since'[h].life = life' =>
                        since'[h].revision <= revision' - Len(queue'[h])
        <3>1. h \in Host /\ since[h] # Nothing /\ since'[h] = since[h]
            BY <1>3, <2>2, EventsAssumption
        <3>2. /\ since[h] # Nothing /\ shown[h] # Nothing
              /\ since[h].life <= life
              /\ Streaming(h) /\ since[h].life = life =>
                     since[h].revision <= revision - Len(queue[h])
            BY <3>1 DEF StreamInvariant, PointsInOrder
        <3>3. since[h].life \in Nat /\ since[h].revision \in Nat
            BY <1>2, <3>1, <3>2 DEF Point
        <3>4. CASE h = g
            <4>1. since[g].life = life => since[g].revision <= revision - len
                BY <1>3, <3>2, <3>4 DEF len
            <4>2. Len(queue'[g]) = len - 1
                BY <1>4, <1>8
            <4> QED BY <1>1, <1>2, <1>3, <1>4, <1>7, <1>8, <3>2, <3>3, <3>4, <4>1, <4>2
        <3>5. CASE h # g
            <4>1. queue'[h] = queue[h] /\ shown'[h] = shown[h]
                BY <1>8, <3>1, <3>5
            <4> QED BY <1>1, <1>3, <1>8, <3>1, <4>1 DEF StreamInvariant, PointsInOrder
        <3> QED BY <3>4, <3>5
    <2> QED BY <2>1, <2>2 DEF PointsInOrder
<1>12. UpToDate'
    <2> SUFFICES ASSUME NEW h \in Host, Streaming(h)', queue'[h] = <<>>
                 PROVE  \/ shown'[h] = Now
                        \/ /\ h # g
                           /\ Resume(h) # Nothing /\ Resume(h).life # life
                           /\ revision <= Resume(h).revision
        <3>1. ASSUME NEW h \in Host, h # g
              PROVE  Resume(h)' = Resume(h)
            BY <1>3, <1>8, <3>1 DEF Resume
        <3>2. Now' = Now
            BY <1>1, <1>3 DEF Now
        <3> QED BY <1>1, <1>3, <3>1, <3>2 DEF UpToDate, Outlived
    <2>1. CASE h = g
        <3>0. Tail(queue[g]) = <<>>
            BY <1>8, <2>1
        <3>1. len = 1
            <4>1. Len(<<>>) = len - 1 /\ len \in Nat
                BY <1>4, <3>0, ZenonT(60)
            <4>2. Len(<<>>) = 0
                BY EmptySeq
            <4>3. len - 1 = 0
                BY <4>1, <4>2, ZenonT(60)
            <4> QED BY <4>1, <4>3
        <3>2. event.revision = revision
            BY <1>2, <1>7, <3>1
        <3> QED BY <1>7, <1>8, <2>1, <3>2, PointIsNow
    <2>2. CASE h # g
        BY <1>8, <2>2 DEF StreamInvariant, UpToDate, Outlived
    <2> QED BY <2>1, <2>2
<1> QED BY <1>1, <1>9, <1>10, <1>11, <1>12 DEF StreamInvariant

\* A restart leaves nobody streaming, and every point in an earlier life.
LEMMA RestartKeeps ==
    ASSUME StreamInvariant, Restart
    PROVE  StreamInvariant'
<1>1. /\ phase \in [Host -> Phase] /\ queue \in [Host -> Seq(Nat)]
      /\ life \in Nat
      /\ \A h \in Host : /\ since[h] \in Point \cup {Nothing}
                         /\ shown[h] \in Point \cup {Nothing}
    BY DEF StreamInvariant, TypeOK
<1>2. /\ life' = life + 1 /\ exists' \in BOOLEAN /\ drops' = drops
      /\ since' = since /\ shown' = shown
      /\ revision' = 0 /\ window' = <<>>
      /\ queue' = [h \in Host |-> <<>>]
      /\ phase' = [h \in Host |-> IF Streaming(h) THEN "connecting" ELSE phase[h]]
    BY EventsAssumption DEF Restart
<1>3. \A h \in Host : ~Streaming(h)' /\ queue'[h] = <<>>
    BY <1>1, <1>2 DEF Streaming
<1>4. WindowContiguous'
    BY <1>2, WindowAssumption DEF WindowContiguous
<1>5. TypeOK'
    <2>1. phase' \in [Host -> Phase] /\ queue' \in [Host -> Seq(Nat)]
        BY <1>1, <1>2, EmptySeq DEF Phase
    <2>2. life' \in Nat /\ revision' \in Nat /\ window' \in Seq(Nat)
        BY <1>1, <1>2, EmptySeq
    <2> QED BY <1>2, <1>3, <2>1, <2>2 DEF StreamInvariant, TypeOK, Point
<1>6. StreamGapFree' /\ UpToDate'
    BY <1>3 DEF StreamGapFree, UpToDate, Outlived
<1>7. PointsInOrder'
    <2>1. ASSUME NEW h \in Host, NEW p \in {since[h], shown[h]} \ {Nothing}
          PROVE  p.life <= life + 1 /\ p.life # life + 1
        <3>1. p.life \in Nat /\ p.life <= life
            BY <1>1 DEF Point, StreamInvariant, PointsInOrder
        <3> QED BY <1>1, <3>1
    <2>2. \A h \in Pinned : h \in Host
        BY EventsAssumption
    <2> QED BY <1>2, <1>3, <2>1, <2>2 DEF StreamInvariant, PointsInOrder
<1> QED BY <1>4, <1>5, <1>6, <1>7 DEF StreamInvariant

LEMMA StutterKeeps ==
    ASSUME StreamInvariant, UNCHANGED vars
    PROVE  StreamInvariant'
<1>1. WindowContiguous' /\ TypeOK'
    BY DEF StreamInvariant, vars, windowVars, connVars, WindowContiguous, TypeOK,
           Point, Streaming
<1>2. StreamGapFree' /\ PointsInOrder' /\ UpToDate'
    BY DEF StreamInvariant, vars, windowVars, connVars, StreamGapFree, PointsInOrder,
           UpToDate, Outlived, Streaming, Resume, Now
<1> QED BY <1>1, <1>2 DEF StreamInvariant

LEMMA NextKeeps == StreamInvariant /\ [Next]_vars => StreamInvariant'
<1> SUFFICES ASSUME StreamInvariant, [Next]_vars PROVE StreamInvariant'
    OBVIOUS
<1>1. CASE Commit
    BY <1>1, CommitKeeps
<1>2. CASE Restart
    BY <1>2, RestartKeeps
<1>3. CASE \E h \in Host : Open(h)
    BY <1>3, OpenKeeps
<1>8. CASE \E h \in Host : Snapshot(h)
    BY <1>8, SnapshotKeeps
<1>4. CASE \E h \in Host : Connect(h)
    BY <1>4, ConnectKeeps
<1>5. CASE \E h \in Host : Deliver(h)
    BY <1>5, DeliverKeeps
<1>6. CASE \E h \in Host : ConnectRefused(h) \/ Drop(h) \/ Close(h)
    BY <1>6, DisconnectKeeps
<1>7. CASE UNCHANGED vars
    BY <1>7, StutterKeeps
<1> QED BY <1>1, <1>2, <1>3, <1>4, <1>5, <1>6, <1>7, <1>8 DEF Next

-----------------------------------------------------------------------------
THEOREM StreamInvariance == Spec => []StreamInvariant
BY InitInvariant, NextKeeps, PTL DEF Spec

\* The types of the stream's state (parseSinceRevision(), the events handler).
THEOREM StreamTypes == Spec => []TypeOK
<1>1. StreamInvariant => TypeOK
    BY DEF StreamInvariant
<1> QED BY <1>1, StreamInvariance, PTL

\* No stream ever has a gap or a repetition in what is on its way
\* (server.ts:177-206, commit(), getReplayEvents()).
THEOREM StreamsHaveNoGap == Spec => []StreamGapFree
<1>1. StreamInvariant => StreamGapFree
    BY DEF StreamInvariant
<1> QED BY <1>1, StreamInvariance, PTL

\* A connected client that has handled everything shows the current state, or
\* resumed from a revision of an earlier life that the room has not passed.
THEOREM ClientsAreUpToDate == Spec => []UpToDate
<1>1. StreamInvariant => UpToDate
    BY DEF StreamInvariant
<1> QED BY <1>1, StreamInvariance, PTL

\* A host canvas never shows a state older than its snapshot.
THEOREM HostsNeverBeforeSnapshot == Spec => []NeverBeforeSnapshot
<1>1. StreamInvariant => NeverBeforeSnapshot
    BY EventsAssumption DEF StreamInvariant, PointsInOrder, NeverBeforeSnapshot
<1> QED BY <1>1, StreamInvariance, PTL
=============================================================================
