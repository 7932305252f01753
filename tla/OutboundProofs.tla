---------------------------- MODULE OutboundProofs ----------------------------
(***************************************************************************)
(* The outbound side, for every set of destinations, requests, tasks,       *)
(* association ids and sockets, every size of the channel and of the caches *)
(* and every time to live.  First UdpOutbound: a session's socket is listened *)
(* to, a reader task ends with its session, what is counted for the client is *)
(* what it was given, and the cleanup closes no session in use; then Dial:  *)
(* names stay behind the proxy, lookups are shared and have a leader, and no *)
(* stale answer is taken; last the two together.  The inductive invariants  *)
(* are IInv of UdpOutbound and D!IInv of Dial.                              *)
(***************************************************************************)
EXTENDS Outbound, FiniteSetTheorems, TLAPS

\* A session table and the reader tasks, in the middle of a step of the handler: each
\* session has a socket of its own whose reader runs, or was ended by an empty datagram
\* or a broken stream, and no other reader runs.
TableOK(tbl, rdr, sil) ==
    /\ \A k \in Keys : tbl[k] # None =>
          rdr[tbl[k]] # None /\ (rdr[tbl[k]] = "run" \/ tbl[k] \in sil \/ broken)
    /\ \A k, l \in Keys : tbl[k] # None /\ tbl[k] = tbl[l] => k = l
    /\ \A s \in Socks : rdr[s] = "run" => \E k \in Keys : tbl[k] = s

TableTypes(tbl, rdr, sil) ==
    /\ tbl \in [Keys -> Socks \union {None}]
    /\ rdr \in [Socks -> {None, "run", "done"}]
    /\ sil \subseteq Socks

\* While there is a handler the invariant is about its table.
LEMMA TableOfIInv ==
    ASSUME IInv, Alive
    PROVE  TableOK(sessions, reader, silenced) /\ TableTypes(sessions, reader, silenced)
<1>1. TableTypes(sessions, reader, silenced)
  BY DEF IInv, TypeOK, TableTypes
<1>2. pc # "kicked"
  BY DEF Alive
<1>. QED
  BY <1>1, <1>2 DEF IInv, SessionsListen, ReadersOwned, TableSound, TableOK, Open

\* The cleanup closes idle sessions, with their readers, and keeps the others.
LEMMA CleanupTable ==
    ASSUME UdpAssumption, NEW tbl, NEW rdr, NEW act,
           TableTypes(tbl, rdr, silenced), TableOK(tbl, rdr, silenced),
           Cleanup(tbl, rdr, act)
    PROVE  /\ TableTypes(sessions', reader', silenced')
           /\ TableOK(sessions', reader', silenced')
           /\ lastCleanup' \in {lastCleanup, now}
           /\ \A k \in Keys : sessions'[k] = None /\ tbl[k] # None =>
                 mode # "standard" /\ now - act[tbl[k]] > IdleLimit
<1>. DEFINE idle == {k \in Keys : tbl[k] # None /\ now - act[tbl[k]] > IdleLimit}
            gone == {tbl[k] : k \in idle}
            due  == mode # "standard" /\ now - lastCleanup > CleanupEvery
<1>1. CASE due
  <2>1. /\ sessions' = [k \in Keys |-> IF k \in idle THEN None ELSE tbl[k]]
        /\ reader' = [s \in Socks |-> IF s \in gone THEN None ELSE rdr[s]]
        /\ silenced' = silenced \ gone /\ lastCleanup' = now
    BY <1>1 DEF Cleanup, Aborted
  <2>2. \A k \in Keys : k \in idle <=> tbl[k] # None /\ now - act[tbl[k]] > IdleLimit
    OBVIOUS
  <2>3. \A k \in Keys : tbl[k] # None /\ k \notin idle => tbl[k] \notin gone
    BY DEF TableOK
  <2>4. \A k \in idle : tbl[k] \in gone
    OBVIOUS
  <2>5. \A k \in Keys : tbl[k] # None => tbl[k] \in Socks
    BY DEF TableTypes
  <2>. HIDE DEF idle, gone
  <2>6. TableTypes(sessions', reader', silenced')
    BY <2>1 DEF TableTypes
  <2>7. \A k \in Keys : sessions'[k] # None =>
            tbl[k] # None /\ sessions'[k] = tbl[k] /\ k \notin idle /\ tbl[k] \notin gone
    BY <2>1, <2>3
  <2>8. \A k \in Keys : sessions'[k] # None =>
            /\ reader'[sessions'[k]] # None
            /\ reader'[sessions'[k]] = "run" \/ sessions'[k] \in silenced' \/ broken
    BY <2>1, <2>5, <2>7 DEF TableOK
  <2>9. \A k, l \in Keys : sessions'[k] # None /\ sessions'[k] = sessions'[l] => k = l
    BY <2>7 DEF TableOK
  <2>10. \A s \in Socks : reader'[s] = "run" => \E k \in Keys : sessions'[k] = s
    <3>. SUFFICES ASSUME NEW s \in Socks, reader'[s] = "run" PROVE \E k \in Keys : sessions'[k] = s
      OBVIOUS
    <3>1. s \notin gone /\ rdr[s] = "run"
      BY <2>1 DEF None
    <3>2. PICK k \in Keys : tbl[k] = s
      BY <3>1 DEF TableOK
    <3>3. k \notin idle
      BY <2>4, <3>1, <3>2
    <3>. QED
      BY <2>1, <3>2, <3>3
  <2>11. TableOK(sessions', reader', silenced')
    BY <2>8, <2>9, <2>10 DEF TableOK
  <2>12. \A k \in Keys : sessions'[k] = None /\ tbl[k] # None => k \in idle
    BY <2>1
  <2>. QED
    BY <1>1, <2>1, <2>2, <2>6, <2>11, <2>12
<1>2. CASE ~due
  <2>1. sessions' = tbl /\ reader' = rdr /\ silenced' = silenced /\ lastCleanup' = lastCleanup
    BY <1>2 DEF Cleanup
  <2>. QED
    BY <2>1
<1>. QED
  BY <1>1, <1>2

\* A session that the table has after an action that leaves the handler running.
LEMMA TableToIInv ==
    ASSUME UdpAssumption, Alive', broken' = broken,
           TableTypes(sessions', reader', silenced'), TableOK(sessions', reader', silenced')
    PROVE  SessionsListen' /\ ReadersOwned' /\ TableSound'
<1>1. SessionsListen'
  BY DEF SessionsListen, TableOK, Open
<1>2. ReadersOwned'
  <2>. SUFFICES ASSUME NEW s \in Socks, reader'[s] = "run"
                PROVE  \E k \in Open' : sessions'[k] = s
    BY DEF ReadersOwned
  <2>1. PICK k \in Keys : sessions'[k] = s
    BY DEF TableOK
  <2>2. s # None
    BY DEF UdpAssumption
  <2>. QED
    BY <2>1, <2>2 DEF Open
<1>3. TableSound'
  BY DEF TableSound, TableOK, Open
<1>. QED
  BY <1>1, <1>2, <1>3

\* The handler sends on a session of a sound table, counts and cleans up.
LEMMA SendOnStep ==
    ASSUME UdpAssumption, IInv, Alive, NEW k \in Keys, NEW tbl, NEW rdr,
           TableTypes(tbl, rdr, silenced), TableOK(tbl, rdr, silenced), tbl[k] # None,
           \A j \in Keys : sessions[j] # None => tbl[j] = sessions[j],
           SendOn(k, tbl, rdr),
           UNCHANGED <<mode, proxy, now, channel, writer, broken, rx, given, lookups>>
    PROVE  IInv' /\ KeepsActive
<1>. DEFINE act == [active EXCEPT ![tbl[k]] = now]
<1>1. /\ active' = act /\ used' = [used EXCEPT ![tbl[k]] = now]
      /\ Cleanup(tbl, rdr, act) /\ pc' = "read" /\ frame' = NoFrame
  BY DEF SendOn
<1>2. /\ TypeOK /\ now \in Nat /\ lastCleanup \in 0..now /\ IdleLimit \in Nat
      /\ active \in [Socks -> 0..now] /\ used \in [Socks -> 0..now]
  BY DEF IInv, TypeOK, UdpAssumption
<1>3. tbl[k] \in Socks /\ now \in 0..now
  BY <1>2 DEF TableTypes
<1>4. /\ act \in [Socks -> 0..now] /\ used' \in [Socks -> 0..now]
      /\ act[tbl[k]] = now
      /\ \A s \in Socks : s # tbl[k] => act[s] = active[s]
      /\ mode # "standard" => act = used'
  BY <1>1, <1>2, <1>3 DEF IInv, ActiveExact
<1>. HIDE DEF act
<1>5. /\ TableTypes(sessions', reader', silenced')
      /\ TableOK(sessions', reader', silenced')
      /\ lastCleanup' \in {lastCleanup, now}
      /\ \A j \in Keys : sessions'[j] = None /\ tbl[j] # None =>
            mode # "standard" /\ now - act[tbl[j]] > IdleLimit
  BY <1>1, CleanupTable
<1>6. Alive' /\ pc' = "read"
  BY <1>1 DEF Alive
<1>7. TypeOK'
  <2>1. lastCleanup' \in 0..now'
    BY <1>2, <1>3, <1>5
  <2>2. frame' \in {NoFrame}
    BY <1>1
  <2>3. sessions' \in [Keys -> Socks \union {None}] /\ reader' \in [Socks -> {None, "run", "done"}]
        /\ silenced' \subseteq Socks
    BY <1>5 DEF TableTypes
  <2>. QED
    BY <1>1, <1>2, <1>4, <1>6, <2>1, <2>2, <2>3 DEF TypeOK
<1>8. SessionsListen' /\ ReadersOwned' /\ TableSound'
  BY <1>5, <1>6, TableToIInv
<1>9. DownlinkCounted' /\ DatagramNamesLeft' /\ FrameFits'
  BY <1>6 DEF IInv, DownlinkCounted, DatagramNamesLeft, FrameFits
<1>10. WriterSound' /\ ActiveExact'
  BY <1>1, <1>4, <1>6 DEF IInv, WriterSound, ActiveExact
<1>11. KeepsActive
  <2>. SUFFICES ASSUME NEW j \in Keys, sessions[j] # None, sessions'[j] = None
                PROVE  now - used[sessions[j]] > IdleLimit
    BY DEF KeepsActive, Open
  <2>1. tbl[j] = sessions[j] /\ sessions[j] \in Socks
    BY DEF TableTypes
  <2>2. mode # "standard" /\ now - act[tbl[j]] > IdleLimit
    BY <1>5, <2>1
  <2>3. tbl[j] # tbl[k]
    BY <1>2, <1>4, <2>2
  <2>4. act[tbl[j]] = used[sessions[j]]
    BY <1>4, <2>1, <2>2, <2>3 DEF IInv, ActiveExact
  <2>. QED
    BY <2>1, <2>2, <2>4
<1>. QED
  BY <1>7, <1>8, <1>9, <1>10, <1>11 DEF IInv

\* The frames that a handler of the framing reads.
Fits(f) == f \in (IF mode = "multiplexed" THEN MultiplexedFrames ELSE PacketaddrFrames)

\* The fields of a frame that fits.
LEMMA FitsFacts ==
    ASSUME NEW f, Fits(f)
    PROVE  KeyOf(f) \in Keys /\ f.dest \in Dests /\ f \in PacketaddrFrames \union MultiplexedFrames \union {NoFrame}
BY DEF Fits, KeyOf, Keys, MultiplexedFrames, PacketaddrFrames

\* A frame for a session goes out; one without a session waits for a socket.
LEMMA DeliverStep ==
    ASSUME UdpAssumption, IInv, Alive, NEW f, Fits(f), Deliver(f),
           UNCHANGED <<mode, proxy, now, channel, writer, broken, rx, given, lookups>>
    PROVE  IInv' /\ KeepsActive
<1>1. KeyOf(f) \in Keys /\ f \in PacketaddrFrames \union MultiplexedFrames \union {NoFrame}
  BY FitsFacts
<1>2. TableOK(sessions, reader, silenced) /\ TableTypes(sessions, reader, silenced)
  BY TableOfIInv
<1>3. CASE sessions[KeyOf(f)] # None
  <2>1. SendOn(KeyOf(f), sessions, reader)
    BY <1>3 DEF Deliver
  <2>. QED
    BY <1>1, <1>2, <1>3, <2>1, SendOnStep
<1>4. CASE sessions[KeyOf(f)] = None
  <2>1. /\ pc' = "open" /\ frame' = f
        /\ UNCHANGED <<sessions, reader, active, lastCleanup, silenced, used>>
    BY <1>4 DEF Deliver
  <2>2. Alive'
    BY <2>1 DEF Alive
  <2>3. TypeOK'
    BY <1>1, <2>1 DEF IInv, TypeOK
  <2>4. SessionsListen' /\ ReadersOwned' /\ TableSound'
    BY <1>2, <2>1, <2>2, TableToIInv
  <2>5. DownlinkCounted' /\ DatagramNamesLeft' /\ ActiveExact'
    BY <2>1 DEF IInv, DownlinkCounted, DatagramNamesLeft, ActiveExact
  <2>6. KeyOf(frame)' = KeyOf(f)
    BY <2>1 DEF KeyOf
  <2>7. FrameFits'
    BY <1>4, <2>1, <2>6 DEF FrameFits, Fits
  <2>8. WriterSound'
    BY <2>2 DEF IInv, WriterSound
  <2>9. KeepsActive
    BY <2>1 DEF KeepsActive
  <2>. QED
    BY <2>3, <2>4, <2>5, <2>7, <2>8, <2>9 DEF IInv
<1>. QED
  BY <1>3, <1>4

\* A handler that gives up its frame, or waits for the resolver, leaves the rest.
LEMMA WaitStep ==
    ASSUME UdpAssumption, IInv, Alive,
           \/ pc' = "read" /\ frame' = NoFrame /\ lookups' = lookups
           \/ /\ pc' = "resolve" /\ Fits(frame') /\ Resolves(frame')
              /\ lookups' = lookups \union {<<frame'.dest, proxy>>},
           UNCHANGED <<mode, proxy, now, sessions, reader, active, lastCleanup, channel,
                       writer, broken, rx, given, silenced, used>>
    PROVE  IInv' /\ KeepsActive
<1>1. Alive' /\ pc' \in {"read", "resolve"}
  BY DEF Alive
<1>2. TableOK(sessions, reader, silenced) /\ TableTypes(sessions, reader, silenced)
  BY TableOfIInv
<1>3. frame' \in PacketaddrFrames \union MultiplexedFrames \union {NoFrame}
  <2>1. CASE frame' = NoFrame
    BY <2>1
  <2>2. CASE Fits(frame')
    BY <2>2, FitsFacts
  <2>. QED
    BY <2>1, <2>2
<1>4. lookups' \subseteq (Dests \X BOOLEAN) /\ DatagramNamesLeft'
  <2>1. lookups \subseteq (Dests \X BOOLEAN) /\ proxy \in BOOLEAN /\ DatagramNamesLeft
    BY DEF IInv, TypeOK
  <2>2. CASE lookups' = lookups
    BY <2>1, <2>2 DEF DatagramNamesLeft
  <2>3. CASE Fits(frame') /\ Resolves(frame') /\ lookups' = lookups \union {<<frame'.dest, proxy>>}
    <3>1. frame'.dest \in Dests
      BY <2>3, FitsFacts
    <3>2. <<frame'.dest, proxy>> \in Dests \X BOOLEAN /\ <<frame'.dest, proxy>>[2] = proxy
      BY <2>1, <3>1
    <3>3. proxy => mode = "multiplexed"
      BY <2>3 DEF Resolves
    <3>. QED
      BY <2>1, <2>3, <3>2, <3>3 DEF DatagramNamesLeft
  <2>. QED
    BY <2>2, <2>3
<1>5. TypeOK'
  BY <1>1, <1>3, <1>4 DEF IInv, TypeOK
<1>6. SessionsListen' /\ ReadersOwned' /\ TableSound'
  BY <1>1, <1>2, TableToIInv
<1>7. DownlinkCounted' /\ ActiveExact' /\ WriterSound'
  BY <1>1 DEF IInv, DownlinkCounted, ActiveExact, WriterSound
<1>8. FrameFits'
  BY DEF FrameFits, Fits
<1>9. KeepsActive
  BY DEF KeepsActive, Open
<1>. QED
  BY <1>4, <1>5, <1>6, <1>7, <1>8, <1>9 DEF IInv

\* The handler ends: every reader with it.
LEMMA EndStep ==
    ASSUME UdpAssumption, IInv, Alive, End
    PROVE  IInv' /\ KeepsActive
<1>1. /\ pc' = "ended" /\ frame' = NoFrame
      /\ reader' = [s \in Socks |-> IF s \in {sessions[k] : k \in Open} THEN None ELSE reader[s]]
      /\ sessions' = [k \in Keys |-> None] /\ silenced' = {}
      /\ UNCHANGED <<mode, proxy, now, active, lastCleanup, channel, writer, broken, rx, given, used, lookups>>
  BY DEF End, Aborted
<1>2. ~Alive' /\ Open' = {}
  BY <1>1 DEF Alive, Open
<1>3. \A s \in Socks : reader'[s] # "run"
  <2>. SUFFICES ASSUME NEW s \in Socks, reader'[s] = "run" PROVE FALSE
    OBVIOUS
  <2>1. s \notin {sessions[k] : k \in Open} /\ reader[s] = "run"
    BY <1>1 DEF None
  <2>2. pc # "kicked"
    BY DEF Alive
  <2>. QED
    BY <2>1, <2>2 DEF IInv, ReadersOwned
<1>4. TypeOK'
  <2>1. sessions' \in [Keys -> Socks \union {None}] /\ silenced' \subseteq Socks
    BY <1>1
  <2>2. reader' \in [Socks -> {None, "run", "done"}]
    BY <1>1 DEF IInv, TypeOK
  <2>3. pc' \in {"read", "resolve", "open", "ended", "kicked"} /\ frame' \in {NoFrame}
    BY <1>1
  <2>. QED
    BY <1>1, <2>1, <2>2, <2>3 DEF IInv, TypeOK
<1>5. SessionsListen' /\ ReadersOwned' /\ TableSound'
  BY <1>2, <1>3 DEF SessionsListen, ReadersOwned, TableSound
<1>6. DownlinkCounted' /\ DatagramNamesLeft' /\ ActiveExact' /\ FrameFits' /\ WriterSound'
  BY <1>1, <1>2 DEF IInv, DownlinkCounted, DatagramNamesLeft, ActiveExact, FrameFits, WriterSound
<1>7. KeepsActive
  BY <1>1 DEF KeepsActive
<1>. QED
  BY <1>4, <1>5, <1>6, <1>7 DEF IInv

\* A socket is opened for the frame in hand: no session had it, and the frame's key
\* had no session.
LEMMA OpenedStep ==
    ASSUME UdpAssumption, IInv, NEW s \in Socks, Opened(s)
    PROVE  IInv' /\ KeepsActive
<1>. DEFINE k == KeyOf(frame)
            tbl == [sessions EXCEPT ![k] = s]
            rdr == [reader EXCEPT ![s] = "run"]
<1>1. /\ pc = "open" /\ reader[s] = None /\ SendOn(k, tbl, rdr)
      /\ UNCHANGED <<mode, proxy, now, channel, writer, broken, rx, given, lookups>>
  BY DEF Opened, Free
<1>2. Alive
  BY <1>1 DEF Alive
<1>3. TableOK(sessions, reader, silenced) /\ TableTypes(sessions, reader, silenced)
  BY <1>2, TableOfIInv
<1>4. k \in Keys /\ sessions[k] = None
  <2>1. Fits(frame)
    BY <1>1 DEF IInv, FrameFits, Fits
  <2>. QED
    BY <1>1, <2>1, FitsFacts DEF IInv, FrameFits
<1>. HIDE DEF k
<1>5. s # None
  BY DEF UdpAssumption
<1>6. /\ TableTypes(tbl, rdr, silenced)
      /\ tbl[k] = s /\ \A j \in Keys : j # k => tbl[j] = sessions[j]
      /\ rdr[s] = "run" /\ \A t \in Socks : t # s => rdr[t] = reader[t]
  BY <1>3, <1>4 DEF TableTypes
<1>7. \A j \in Keys : sessions[j] # None => sessions[j] # s /\ sessions[j] \in Socks
  BY <1>1, <1>3 DEF TableOK, TableTypes
<1>. HIDE DEF tbl, rdr
<1>8. \A j \in Keys : tbl[j] # None =>
          rdr[tbl[j]] # None /\ (rdr[tbl[j]] = "run" \/ tbl[j] \in silenced \/ broken)
  <2>1. "run" # None
    BY DEF None
  <2>. QED
    BY <1>3, <1>6, <1>7, <2>1 DEF TableOK
<1>9. \A j, l \in Keys : tbl[j] # None /\ tbl[j] = tbl[l] => j = l
  BY <1>3, <1>6, <1>7 DEF TableOK
<1>10. \A t \in Socks : rdr[t] = "run" => \E j \in Keys : tbl[j] = t
  <2>. SUFFICES ASSUME NEW t \in Socks, rdr[t] = "run", t # s PROVE \E j \in Keys : tbl[j] = t
    BY <1>4, <1>6
  <2>1. PICK j \in Keys : sessions[j] = t
    BY <1>3, <1>6 DEF TableOK
  <2>2. j # k
    BY <1>4, <2>1 DEF UdpAssumption
  <2>. QED
    BY <1>6, <2>1, <2>2
<1>11. TableOK(tbl, rdr, silenced)
  BY <1>8, <1>9, <1>10 DEF TableOK
<1>12. \A j \in Keys : sessions[j] # None => tbl[j] = sessions[j]
  BY <1>4, <1>6
<1>. QED
  BY <1>1, <1>2, <1>4, <1>5, <1>6, <1>11, <1>12, SendOnStep

\* Every step of the handler.
LEMMA HandlerStep ==
    ASSUME UdpAssumption, IInv,
           ReadPacketaddr \/ ReadMultiplexed \/ ReadStandard \/ ReadEnd \/ Resolved \/ OpenFails
    PROVE  IInv' /\ KeepsActive
<1>1. Alive
  BY DEF Alive, ReadPacketaddr, ReadMultiplexed, ReadFrame, ReadStandard, ReadEnd, Resolved, OpenFails
<1>2. ASSUME NEW f, Fits(f), ReadFrame(f) PROVE IInv' /\ KeepsActive
  <2>1. UNCHANGED <<mode, proxy, now, channel, writer, broken, rx, given>>
    BY <1>2 DEF ReadFrame
  <2>2. CASE Resolves(f)
    <3>1. /\ pc' = "resolve" /\ frame' = f /\ lookups' = lookups \union {<<f.dest, proxy>>}
          /\ UNCHANGED <<sessions, reader, active, lastCleanup, silenced, used>>
      BY <1>2, <2>2 DEF ReadFrame
    <3>2. Fits(frame') /\ Resolves(frame') /\ lookups' = lookups \union {<<frame'.dest, proxy>>}
      BY <1>2, <2>2, <3>1
    <3>. QED
      BY <1>1, <2>1, <3>1, <3>2, WaitStep
  <2>3. CASE ~Resolves(f)
    <3>1. Deliver(f) /\ lookups' = lookups
      BY <1>2, <2>3 DEF ReadFrame
    <3>. QED
      BY <1>1, <1>2, <2>1, <3>1, DeliverStep
  <2>. QED
    BY <2>2, <2>3
<1>3. CASE ReadPacketaddr
  <2>1. PICK f \in PacketaddrFrames : ReadFrame(f)
    BY <1>3 DEF ReadPacketaddr
  <2>2. Fits(f)
    BY <1>3 DEF ReadPacketaddr, Fits
  <2>. QED
    BY <1>2, <2>1, <2>2
<1>4. CASE ReadMultiplexed
  <2>1. PICK f \in MultiplexedFrames : ReadFrame(f)
    BY <1>4 DEF ReadMultiplexed
  <2>2. Fits(f)
    BY <1>4 DEF ReadMultiplexed, Fits
  <2>. QED
    BY <1>2, <2>1, <2>2
<1>5. CASE ReadStandard
  <2>1. PICK k \in Open : SendOn(k, sessions, reader)
    BY <1>5 DEF ReadStandard
  <2>2. UNCHANGED <<mode, proxy, now, channel, writer, broken, rx, given, lookups>>
    BY <1>5 DEF ReadStandard
  <2>3. TableOK(sessions, reader, silenced) /\ TableTypes(sessions, reader, silenced)
    BY <1>1, TableOfIInv
  <2>4. k \in Keys /\ sessions[k] # None
    BY DEF Open
  <2>. QED
    BY <1>1, <2>1, <2>2, <2>3, <2>4, SendOnStep
<1>6. CASE ReadEnd
  BY <1>1, <1>6, EndStep DEF ReadEnd
<1>7. CASE Resolved
  <2>1. UNCHANGED <<mode, proxy, now, channel, writer, broken, rx, given, lookups>>
    BY <1>7 DEF Resolved
  <2>2. CASE Deliver(frame)
    <3>1. Fits(frame)
      BY <1>7 DEF Resolved, IInv, FrameFits, Fits
    <3>. QED
      BY <1>1, <2>1, <2>2, <3>1, DeliverStep
  <2>3. CASE /\ pc' = "read" /\ frame' = NoFrame
             /\ UNCHANGED <<sessions, reader, active, lastCleanup, silenced, used>>
    BY <1>1, <2>1, <2>3, WaitStep
  <2>. QED
    BY <1>7, <2>2, <2>3 DEF Resolved
<1>8. CASE OpenFails
  <2>1. CASE mode = "standard"
    BY <1>1, <1>8, <2>1, EndStep DEF OpenFails
  <2>2. CASE mode # "standard"
    <3>1. /\ pc' = "read" /\ frame' = NoFrame
          /\ UNCHANGED <<mode, proxy, now, sessions, reader, active, lastCleanup, channel, writer,
                         broken, rx, given, silenced, used, lookups>>
      BY <1>8, <2>2 DEF OpenFails, tasks
    <3>. QED
      BY <1>1, <3>1, WaitStep
  <2>. QED
    BY <2>1, <2>2
<1>. QED
  BY <1>3, <1>4, <1>5, <1>6, <1>7, <1>8

\* A reader that goes on, or that ends for a reason the invariant knows.
LEMMA ReaderStep ==
    ASSUME UdpAssumption, IInv, NEW s \in Socks, reader[s] = "run",
           UNCHANGED <<mode, proxy, now, pc, frame, sessions, lastCleanup, writer, lookups>>,
           \/ reader' = reader
           \/ reader' = [reader EXCEPT ![s] = Exit] /\ (Alive => s \in silenced' \/ broken'),
           silenced \subseteq silenced', silenced' \subseteq Socks, broken => broken'
    PROVE  /\ reader' \in [Socks -> {None, "run", "done"}]
           /\ SessionsListen' /\ ReadersOwned' /\ TableSound' /\ FrameFits' /\ DatagramNamesLeft' /\ KeepsActive
<1>1. /\ sessions \in [Keys -> Socks \union {None}] /\ reader \in [Socks -> {None, "run", "done"}]
      /\ SessionsListen /\ ReadersOwned /\ TableSound
  BY DEF IInv, TypeOK
<1>2. Alive' = Alive /\ Open' = Open
  BY DEF Alive, Open
<1>3. /\ reader' \in [Socks -> {None, "run", "done"}]
      /\ \A t \in Socks : t # s => reader'[t] = reader[t]
      /\ reader'[s] = "run" \/ (reader'[s] = Exit /\ (Alive => s \in silenced' \/ broken'))
  BY <1>1 DEF Exit
<1>4. \A k \in Open : k \in Keys /\ sessions[k] \in Socks
  BY <1>1 DEF Open
<1>5. ~Alive => Open = {}
  BY <1>1 DEF TableSound
<1>6. SessionsListen'
  BY <1>1, <1>2, <1>3, <1>4, <1>5 DEF SessionsListen
<1>7. ReadersOwned'
  BY <1>1, <1>2, <1>3 DEF ReadersOwned
<1>8. TableSound'
  <2>1. Alive => Exit # None
    BY DEF Exit, None
  <2>2. "run" # None
    BY DEF None
  <2>3. \A k \in Open : reader'[sessions[k]] # None
    BY <1>1, <1>3, <1>4, <1>5, <2>1, <2>2 DEF TableSound
  <2>. QED
    BY <1>1, <1>2, <2>3 DEF TableSound
<1>9. FrameFits' /\ DatagramNamesLeft'
  BY DEF IInv, FrameFits, DatagramNamesLeft, KeyOf
<1>10. KeepsActive
  BY DEF KeepsActive, Open
<1>. QED
  BY <1>3, <1>6, <1>7, <1>8, <1>9, <1>10

\* A datagram arrives: empty, malformed, or one that is framed for the client.
LEMMA ReceiveStep ==
    ASSUME UdpAssumption, IInv, NEW s \in Socks,
           \/ ReceiveEmpty(s) \/ ReceiveJunk(s) \/ ReceivePacketaddr(s) \/ ReceiveMultiplexed(s)
           \/ ReceiveStandard(s)
    PROVE  IInv' /\ KeepsActive
<1>1. /\ reader[s] = "run" /\ rx < MaxDatagrams
      /\ UNCHANGED <<mode, proxy, now, pc, frame, sessions, lastCleanup, writer, lookups>>
  BY DEF Receive, ReceiveEmpty, ReceiveJunk, ReceivePacketaddr, ReceiveMultiplexed, ReceiveStandard
<1>2. /\ TypeOK /\ now \in Nat /\ now \in 0..now /\ active \in [Socks -> 0..now] /\ used \in [Socks -> 0..now]
      /\ channel \in Seq(Socks) /\ Len(channel) \in Nat /\ Len(channel) <= ChannelSize /\ ChannelSize \in Nat
      /\ rx \in 0..MaxDatagrams /\ given \in 0..MaxDatagrams /\ MaxDatagrams \in Nat
      /\ silenced \subseteq Socks /\ broken \in BOOLEAN
  BY SMTT(40) DEF IInv, TypeOK, UdpAssumption
<1>3. Alive' = Alive
  BY <1>1 DEF Alive
<1>4. SUFFICES
        /\ \/ reader' = reader
           \/ reader' = [reader EXCEPT ![s] = Exit] /\ (Alive => s \in silenced' \/ broken')
        /\ silenced \subseteq silenced' /\ silenced' \subseteq Socks /\ (broken => broken')
        /\ broken' \in BOOLEAN
        /\ active' \in [Socks -> 0..now] /\ used' \in [Socks -> 0..now] /\ ActiveExact'
        /\ channel' \in Seq(Socks) /\ Len(channel') <= ChannelSize
        /\ rx' \in 0..MaxDatagrams /\ given' \in 0..MaxDatagrams /\ DownlinkCounted'
        /\ broken' = broken \/ mode = "standard"
  <2>1. /\ reader' \in [Socks -> {None, "run", "done"}]
        /\ SessionsListen' /\ ReadersOwned' /\ TableSound' /\ FrameFits' /\ DatagramNamesLeft' /\ KeepsActive
    BY <1>1, <1>4, ReaderStep
  <2>2. TypeOK'
    BY <1>1, <1>2, <1>4, <2>1 DEF TypeOK
  <2>3. WriterSound'
    <3>1. CASE broken' = broken
      BY <1>1, <1>3, <3>1 DEF IInv, WriterSound
    <3>2. CASE mode = "standard"
      BY <1>1, <3>2 DEF IInv, WriterSound, None
    <3>. QED
      BY <1>4, <3>1, <3>2
  <2>. QED
    BY <1>4, <2>1, <2>2, <2>3 DEF IInv
<1>5. CASE ReceiveEmpty(s)
  <2>1. /\ reader' = [reader EXCEPT ![s] = Exit]
        /\ silenced' = IF Alive THEN silenced \union {s} ELSE silenced
        /\ UNCHANGED <<active, channel, broken, rx, given, used>>
    BY <1>5 DEF ReceiveEmpty
  <2>2. silenced \subseteq silenced' /\ silenced' \subseteq Socks /\ (Alive => s \in silenced')
    BY <1>2, <2>1
  <2>3. ActiveExact' /\ DownlinkCounted'
    BY <1>1, <2>1 DEF IInv, ActiveExact, DownlinkCounted
  <2>. QED
    BY <1>2, <2>1, <2>2, <2>3
<1>6. CASE ReceiveJunk(s)
  <2>1. /\ active' = [active EXCEPT ![s] = now] /\ used' = [used EXCEPT ![s] = now]
        /\ UNCHANGED <<reader, channel, broken, rx, given, silenced>>
    BY <1>6 DEF ReceiveJunk, Touched
  <2>2. active' \in [Socks -> 0..now] /\ used' \in [Socks -> 0..now]
    BY <1>2, <2>1
  <2>3. ActiveExact' /\ DownlinkCounted'
    BY <1>1, <2>1 DEF IInv, ActiveExact, DownlinkCounted
  <2>. QED
    BY <1>2, <2>1, <2>2, <2>3
<1>7. CASE ReceivePacketaddr(s) \/ ReceiveMultiplexed(s)
  <2>1. /\ active' = [active EXCEPT ![s] = now] /\ used' = [used EXCEPT ![s] = now]
        /\ rx' = (IF HasRoom THEN rx + 1 ELSE rx)
        /\ channel' = (IF HasRoom THEN Append(channel, s) ELSE channel)
        /\ reader' = (IF writer = "run" THEN reader ELSE [reader EXCEPT ![s] = Exit])
        /\ UNCHANGED <<broken, given, silenced>> /\ mode # "standard"
    BY <1>7 DEF ReceivePacketaddr, ReceiveMultiplexed, Receive, ReceiveFrom, Touched, Counted
  <2>2. active' \in [Socks -> 0..now] /\ used' \in [Socks -> 0..now]
    BY <1>2, <2>1
  <2>3. ActiveExact'
    BY <1>1, <2>1 DEF IInv, ActiveExact
  <2>4. writer = "run" \/ (Alive => broken)
    BY <1>2, <2>1 DEF IInv, WriterSound, TypeOK
  <2>5. /\ channel' \in Seq(Socks) /\ Len(channel') <= ChannelSize /\ rx' \in 0..MaxDatagrams
        /\ rx' - rx = Len(channel') - Len(channel)
    <3>1. CASE HasRoom
      <4>1. channel' = Append(channel, s) /\ rx' = rx + 1 /\ Len(channel) < ChannelSize
        BY <2>1, <3>1 DEF HasRoom
      <4>2. channel' \in Seq(Socks) /\ Len(channel') = Len(channel) + 1
        BY <1>2, <4>1
      <4>. QED
        BY <1>1, <1>2, <4>1, <4>2
    <3>2. CASE ~HasRoom
      BY <1>2, <2>1, <3>2
    <3>. QED
      BY <3>1, <3>2
  <2>6. Len(channel') \in Nat
    BY <2>5
  <2>7. DownlinkCounted'
    BY <1>2, <2>1, <2>5, <2>6 DEF IInv, DownlinkCounted
  <2>. QED
    BY <1>2, <2>1, <2>2, <2>3, <2>4, <2>5, <2>7
<1>8. CASE ReceiveStandard(s)
  <2>1. /\ used' = [used EXCEPT ![s] = now] /\ mode = "standard"
        /\ UNCHANGED <<active, channel, silenced>>
    BY <1>8 DEF ReceiveStandard, Receive
  <2>2. used' \in [Socks -> 0..now] /\ ActiveExact'
    BY <1>1, <1>2, <2>1 DEF ActiveExact
  <2>3. CASE ~broken /\ given' = given + 1 /\ rx' = rx + 1 /\ UNCHANGED <<reader, broken>>
    <3>1. rx = given + Len(channel)
      BY <2>3 DEF IInv, DownlinkCounted
    <3>2. rx' \in 0..MaxDatagrams /\ given' \in 0..MaxDatagrams /\ DownlinkCounted'
      BY <1>1, <1>2, <2>1, <2>3, <3>1 DEF DownlinkCounted
    <3>. QED
      BY <1>2, <2>1, <2>2, <2>3, <3>2
  <2>4. CASE broken' = TRUE /\ reader' = [reader EXCEPT ![s] = Exit] /\ UNCHANGED <<given, rx>>
    <3>1. DownlinkCounted'
      BY <2>4 DEF DownlinkCounted
    <3>. QED
      BY <1>2, <2>1, <2>2, <2>4, <3>1
  <2>. QED
    BY <1>8, <2>3, <2>4 DEF ReceiveStandard
<1>. QED
  BY <1>5, <1>6, <1>7, <1>8

\* The writer task.
LEMMA WriterStep ==
    ASSUME UdpAssumption, IInv, WriterWrites \/ WriterFails \/ WriterEnds
    PROVE  IInv' /\ KeepsActive
<1>1. /\ UNCHANGED <<mode, proxy, now, pc, frame, sessions, reader, active, lastCleanup, rx,
                     silenced, used, lookups>>
      /\ writer = "run"
  BY DEF WriterWrites, WriterFails, WriterEnds
<1>2. /\ TypeOK /\ channel \in Seq(Socks) /\ Len(channel) \in Nat /\ Len(channel) <= ChannelSize
      /\ rx \in 0..MaxDatagrams /\ given \in 0..MaxDatagrams /\ MaxDatagrams \in Nat /\ ChannelSize \in Nat
      /\ ~broken /\ rx = given + Len(channel) /\ mode # "standard"
  BY <1>1 DEF IInv, TypeOK, UdpAssumption, WriterSound, DownlinkCounted, None
<1>3. Alive' = Alive /\ Open' = Open
  BY <1>1 DEF Alive, Open
<1>4. /\ writer' \in {"run", "ended"} /\ broken' \in BOOLEAN /\ (broken => broken')
      /\ (writer' = "run" => ~broken') /\ (writer' = "ended" /\ Alive => broken')
  <2>1. CASE WriterWrites
    <3>1. writer' = "run" /\ broken' = broken
      BY <1>1, <2>1 DEF WriterWrites
    <3>2. broken \in BOOLEAN
      BY <1>2, Zenon DEF TypeOK
    <3>. QED
      BY <1>2, <3>1, <3>2, Zenon
  <2>2. CASE WriterFails
    BY <2>2 DEF WriterFails
  <2>3. CASE WriterEnds
    <3>1. writer' = "ended" /\ broken' = broken /\ ~Alive
      BY <2>3 DEF WriterEnds
    <3>2. broken \in BOOLEAN
      BY <1>2, Zenon DEF TypeOK
    <3>. QED
      BY <1>2, <3>1, <3>2, Zenon
  <2>. QED
    BY <2>1, <2>2, <2>3
<1>5. /\ channel' \in Seq(Socks) /\ Len(channel') <= ChannelSize /\ given' \in 0..MaxDatagrams
      /\ ~broken' => rx = given' + Len(channel')
  <2>1. CASE WriterWrites
    <3>1. channel # <<>> /\ channel' = Tail(channel) /\ given' = given + 1
      BY <2>1 DEF WriterWrites
    <3>2. channel' \in Seq(Socks) /\ Len(channel') = Len(channel) - 1 /\ Len(channel) > 0
      BY <1>2, <3>1
    <3>. QED
      BY <1>2, <3>1, <3>2
  <2>2. CASE WriterFails
    <3>1. channel' = <<>> /\ broken' = TRUE /\ given' = given
      BY <2>2 DEF WriterFails
    <3>2. channel' \in Seq(Socks) /\ Len(channel') = 0
      BY <3>1
    <3>. QED
      BY <1>2, <3>1, <3>2
  <2>3. CASE WriterEnds
    BY <1>2, <2>3 DEF WriterEnds
  <2>. QED
    BY <2>1, <2>2, <2>3
<1>6. TypeOK'
  BY <1>1, <1>2, <1>4, <1>5 DEF TypeOK
<1>7. SessionsListen' /\ ReadersOwned' /\ TableSound'
  BY <1>1, <1>3, <1>4 DEF IInv, SessionsListen, ReadersOwned, TableSound
<1>8. DownlinkCounted' /\ DatagramNamesLeft' /\ ActiveExact'
  BY <1>1, <1>5 DEF IInv, DownlinkCounted, DatagramNamesLeft, ActiveExact
<1>9. FrameFits'
  BY <1>1 DEF IInv, FrameFits, KeyOf
<1>10. WriterSound'
  BY <1>1, <1>2, <1>3, <1>4 DEF WriterSound, None
<1>11. KeepsActive
  BY <1>1 DEF KeepsActive, Open
<1>. QED
  BY <1>6, <1>7, <1>8, <1>9, <1>10, <1>11 DEF IInv

\* A kick drops the table and leaves the readers that run; time passes.
LEMMA KickTickStep ==
    ASSUME UdpAssumption, IInv, Kick \/ Tick
    PROVE  IInv' /\ KeepsActive
<1>1. CASE Kick
  <2>1. /\ pc' = "kicked" /\ frame' = NoFrame /\ sessions' = [k \in Keys |-> None] /\ silenced' = {}
        /\ reader' = [s \in Socks |-> IF reader[s] = "done" THEN None ELSE reader[s]]
        /\ UNCHANGED <<mode, proxy, now, active, lastCleanup, channel, writer, broken, rx, given, used, lookups>>
    BY <1>1 DEF Kick
  <2>2. ~Alive' /\ Open' = {}
    BY <2>1 DEF Alive, Open
  <2>3. TypeOK'
    <3>1. sessions' \in [Keys -> Socks \union {None}] /\ silenced' \subseteq Socks
      BY <2>1
    <3>2. reader' \in [Socks -> {None, "run", "done"}]
      BY <2>1 DEF IInv, TypeOK
    <3>3. pc' \in {"read", "resolve", "open", "ended", "kicked"} /\ frame' \in {NoFrame}
      BY <2>1
    <3>. QED
      BY <2>1, <3>1, <3>2, <3>3 DEF IInv, TypeOK
  <2>4. SessionsListen' /\ ReadersOwned' /\ TableSound'
    BY <2>1, <2>2 DEF SessionsListen, ReadersOwned, TableSound
  <2>5. DownlinkCounted' /\ DatagramNamesLeft' /\ ActiveExact' /\ FrameFits' /\ WriterSound'
    BY <2>1, <2>2 DEF IInv, DownlinkCounted, DatagramNamesLeft, ActiveExact, FrameFits, WriterSound
  <2>6. KeepsActive
    BY <2>1 DEF KeepsActive
  <2>. QED
    BY <2>3, <2>4, <2>5, <2>6 DEF IInv
<1>2. CASE Tick
  <2>1. /\ now < MaxTime /\ now' = now + 1
        /\ UNCHANGED <<mode, proxy, pc, frame, sessions, active, lastCleanup, used, lookups, reader,
                       channel, writer, broken, rx, given, silenced>>
    BY <1>2 DEF Tick, tasks
  <2>2. /\ now \in Nat /\ MaxTime \in Nat /\ lastCleanup \in 0..now
        /\ active \in [Socks -> 0..now] /\ used \in [Socks -> 0..now]
    BY DEF IInv, TypeOK, UdpAssumption
  <2>3. now' \in 0..MaxTime /\ lastCleanup' \in 0..now' /\ 0..now \subseteq 0..now'
    BY <2>1, <2>2
  <2>4. active' \in [Socks -> 0..now'] /\ used' \in [Socks -> 0..now']
    BY <2>1, <2>2, <2>3
  <2>5. TypeOK'
    BY <2>1, <2>3, <2>4 DEF IInv, TypeOK
  <2>6. Alive' = Alive /\ Open' = Open
    BY <2>1 DEF Alive, Open
  <2>7. SessionsListen' /\ ReadersOwned' /\ TableSound'
    BY <2>1, <2>6 DEF IInv, SessionsListen, ReadersOwned, TableSound
  <2>8. DownlinkCounted' /\ DatagramNamesLeft' /\ ActiveExact'
    BY <2>1 DEF IInv, DownlinkCounted, DatagramNamesLeft, ActiveExact
  <2>9. FrameFits' /\ WriterSound'
    BY <2>1, <2>6 DEF IInv, FrameFits, KeyOf, WriterSound
  <2>10. KeepsActive
    BY <2>1 DEF KeepsActive, Open
  <2>. QED
    BY <2>5, <2>7, <2>8, <2>9, <2>10 DEF IInv
<1>. QED
  BY <1>1, <1>2

\* A handler that has just been called.
LEMMA InitIInv ==
    ASSUME UdpAssumption, Init
    PROVE  IInv
<1>1. Open = {}
  BY DEF Init, Open
<1>2. TypeOK
  <2>1. mode \in Modes /\ proxy \in BOOLEAN /\ now \in 0..MaxTime /\ lastCleanup \in 0..now
    BY DEF Init, UdpAssumption
  <2>2. /\ pc \in {"read", "open"} /\ frame \in PacketaddrFrames \union {NoFrame}
        /\ writer \in {"run", None}
    BY DEF Init
  <2>3. /\ sessions \in [Keys -> Socks \union {None}] /\ reader \in [Socks -> {None, "run", "done"}]
        /\ active \in [Socks -> 0..now] /\ used \in [Socks -> 0..now]
    BY DEF Init
  <2>4. channel \in Seq(Socks) /\ Len(channel) = 0
    BY DEF Init
  <2>5. Len(channel) <= ChannelSize /\ rx \in 0..MaxDatagrams /\ given \in 0..MaxDatagrams
    BY <2>4 DEF Init, UdpAssumption
  <2>6. silenced \subseteq Socks /\ lookups \subseteq (Dests \X BOOLEAN) /\ broken \in BOOLEAN
    BY DEF Init
  <2>. QED
    BY <2>1, <2>2, <2>3, <2>4, <2>5, <2>6 DEF TypeOK
<1>3. SessionsListen /\ TableSound /\ DatagramNamesLeft
  BY <1>1 DEF SessionsListen, TableSound, DatagramNamesLeft, Init
<1>4. ReadersOwned
  BY DEF Init, ReadersOwned, None
<1>5. DownlinkCounted
  BY DEF Init, DownlinkCounted
<1>6. FrameFits
  <2>1. CASE mode = "standard"
    <3>1. Fits(frame)
      BY <2>1 DEF Init, Fits
    <3>2. KeyOf(frame) \in Keys
      BY <3>1, FitsFacts
    <3>. QED
      BY <3>1, <3>2 DEF FrameFits, Fits, Init
  <2>2. CASE mode # "standard"
    BY <2>2 DEF Init, FrameFits
  <2>. QED
    BY <2>1, <2>2
<1>7. WriterSound
  BY DEF Init, WriterSound, None
<1>8. ActiveExact
  BY DEF Init, ActiveExact
<1>. QED
  BY <1>2, <1>3, <1>4, <1>5, <1>6, <1>7, <1>8 DEF IInv

\* Every step keeps the invariant and closes no session in use.
LEMMA NextIInv ==
    ASSUME UdpAssumption, IInv, [Next]_vars
    PROVE  IInv' /\ [KeepsActive]_vars
<1>1. CASE Next
  <2>1. CASE ReadPacketaddr \/ ReadMultiplexed \/ ReadStandard \/ ReadEnd \/ Resolved \/ OpenFails
    BY <2>1, HandlerStep
  <2>2. ASSUME NEW s \in Socks, Opened(s) PROVE IInv' /\ KeepsActive
    BY <2>2, OpenedStep
  <2>3. ASSUME NEW s \in Socks,
               \/ ReceiveEmpty(s) \/ ReceiveJunk(s) \/ ReceivePacketaddr(s) \/ ReceiveMultiplexed(s)
               \/ ReceiveStandard(s)
        PROVE  IInv' /\ KeepsActive
    BY <2>3, ReceiveStep
  <2>4. CASE WriterWrites \/ WriterFails \/ WriterEnds
    BY <2>4, WriterStep
  <2>5. CASE Kick \/ Tick
    BY <2>5, KickTickStep
  <2>. QED
    BY <1>1, <2>1, <2>2, <2>3, <2>4, <2>5 DEF Next
<1>2. CASE UNCHANGED vars
  <2>1. Alive' = Alive /\ Open' = Open
    BY <1>2 DEF vars, Alive, Open
  <2>2. TypeOK'
    BY <1>2 DEF vars, IInv, TypeOK
  <2>3. SessionsListen' /\ ReadersOwned' /\ TableSound'
    BY <1>2, <2>1 DEF vars, IInv, SessionsListen, ReadersOwned, TableSound
  <2>4. DownlinkCounted' /\ DatagramNamesLeft' /\ ActiveExact' /\ WriterSound'
    BY <1>2, <2>1 DEF vars, IInv, DownlinkCounted, DatagramNamesLeft, ActiveExact, WriterSound
  <2>5. FrameFits'
    BY <1>2 DEF vars, IInv, FrameFits, KeyOf
  <2>. QED
    BY <1>2, <2>2, <2>3, <2>4, <2>5 DEF IInv
<1>. QED
  BY <1>1, <1>2

\* The inductive invariant holds in every behaviour.
THEOREM SpecIInv ==
    ASSUME UdpAssumption
    PROVE  Spec => []IInv
<1>1. Init => IInv
  BY InitIInv
<1>2. IInv /\ [Next]_vars => IInv'
  BY NextIInv
<1>. QED
  BY <1>1, <1>2, PTL DEF Spec

\* A socket is listened to while its session is in the table, a reader task of the
\* handler ends with its session except after a kick, and rx_counter is what was
\* written to the client's stream or waits in the channel.
THEOREM UdpSessionsSound ==
    ASSUME UdpAssumption
    PROVE  Spec => []SessionsSound
<1>1. IInv => SessionsSound
  BY DEF IInv, SessionsSound
<1>. QED
  BY <1>1, SpecIInv, PTL

\* Behind a proxy no name is given to the system's resolver, except in the
\* multiplexed framing.
THEOREM UdpNamesLeftToProxy ==
    ASSUME UdpAssumption
    PROVE  Spec => []DatagramNamesLeft
<1>1. IInv => DatagramNamesLeft
  BY DEF IInv
<1>. QED
  BY <1>1, SpecIInv, PTL

\* A session that carried a datagram within the idle limit is not closed by the
\* cleanup, whichever of its tasks saw the datagram.
THEOREM ActiveSessionsKept ==
    ASSUME UdpAssumption
    PROVE  Spec => [][KeepsActive]_vars
<1>1. IInv /\ [Next]_vars => [KeepsActive]_vars
  BY NextIInv
<1>. QED
  BY <1>1, SpecIInv, PTL DEF Spec

\* What a step of a task r may leave behind when it neither leads nor follows a flight it
\* did not lead before: q is sound, leads at most what r led, under the same names.
Released(r, q) ==
    /\ q \in D!CallRecords /\ D!Sound(q) /\ D!Current(q)
    /\ q.wait = 0 /\ q.pc # "removed"
    /\ \A g \in D!Goals : q.lead[g] \in {0, r.lead[g]}
    /\ \A g \in D!Goals : q.lead[g] # 0 => q.dest = r.dest /\ q.proxy = r.proxy
\* The same, and everything r led is still led.
Becomes(r, q) == Released(r, q) /\ \A g \in D!Goals : q.lead[g] = r.lead[g]

\* The fields of the records that tasks are made of.
LEMMA FieldsOfFresh ==
    ASSUME D!DialAssumption, NEW r
    PROVE  /\ D!Fail(r) \in D!CallRecords /\ D!Succeed(r) \in D!CallRecords
           /\ D!Fail(r).pc = "failed" /\ D!Succeed(r).pc = "done"
           /\ D!Fail(r).wait = 0 /\ D!Succeed(r).wait = 0
           /\ D!Fail(r).left = 0 /\ D!Succeed(r).left = 0
           /\ \A g \in D!Goals : D!Fail(r).lead[g] = 0 /\ D!Succeed(r).lead[g] = 0
<1>1. /\ D!Fresh \in D!CallRecords /\ D!Fresh.wait = 0 /\ D!Fresh.left = 0
      /\ \A g \in D!Goals : D!Fresh.lead[g] = 0
  BY DEF D!Fresh, D!CallRecords, D!Err, D!Answers, D!DnsServers, D!Pcs, D!Kinds, D!Targets, D!Proxies, D!Binds, D!GoalsOrNone, D!Leads, D!ChansOrNone, D!Servers
<1>. QED
  BY <1>1 DEF D!Fail, D!Succeed, D!CallRecords, D!Pcs

\* The fields of a task that starts to resolve.
LEMMA FieldsOfGoto ==
    ASSUME D!DialAssumption, NEW r \in D!CallRecords, NEW goal \in D!Goals
    PROVE  LET q == D!Goto(r, goal) IN
           /\ q \in D!CallRecords
           /\ q.pc = "resolve" /\ q.goal = goal /\ q.wait = 0 /\ q.ans = D!Err /\ q.took = 0
           /\ q.dest = r.dest /\ q.proxy = r.proxy /\ q.lead = r.lead /\ q.left = r.left /\ q.srv = r.srv
           /\ q.kind = r.kind /\ q.bind = r.bind
<1>1. "resolve" \in D!Pcs /\ goal \in D!GoalsOrNone /\ D!Err \in D!Answers /\ 0 \in D!ChansOrNone /\ 0 \in Nat
  BY DEF D!Pcs, D!GoalsOrNone, D!Err, D!Answers, D!ChansOrNone
<1>. QED
  BY <1>1 DEF D!Goto, D!CallRecords

\* A task that leads no flight of its own goal: at a lookup of an address or before one,
\* with an answer, or connecting.
Between(r) ==
    /\ r \in D!CallRecords /\ D!Sound(r) /\ D!Busy(r) /\ r.wait = 0 /\ ~D!Leading(r)

\* A task that failed or succeeded leads nothing, and need not have led anything before.
LEMMA BecomesIdle ==
    ASSUME D!DialAssumption, NEW r, Between(r), r.goal # "dns"
    PROVE  Becomes(r, D!Fail(r)) /\ Becomes(r, D!Succeed(r))
<1>1. 1 \in Sizes \union {1} /\ 0 <= 1
  OBVIOUS
<1>. DEFINE f == D!Fail(r)
            s == D!Succeed(r)
<1>2. /\ f \in D!CallRecords /\ s \in D!CallRecords
      /\ f.pc = "failed" /\ s.pc = "done"
      /\ f.wait = 0 /\ s.wait = 0 /\ f.left = 0 /\ s.left = 0
      /\ \A g \in D!Goals : f.lead[g] = 0 /\ s.lead[g] = 0
  BY FieldsOfFresh
<1>. HIDE DEF f, s
<1>3. \A g \in D!Goals : r.lead[g] = 0
  BY DEF Between, D!Sound
<1>4. Becomes(r, f)
  BY <1>1, <1>2, <1>3 DEF Becomes, Released, D!Sound, D!Current, D!Busy, D!Leading
<1>5. Becomes(r, s)
  BY <1>1, <1>2, <1>3 DEF Becomes, Released, D!Sound, D!Current, D!Busy, D!Leading
<1>. QED
  BY <1>4, <1>5 DEF f, s

\* The DNS server answered: the destination is resolved again,
LEMMA BecomesAnswer ==
    ASSUME D!DialAssumption, NEW r, Between(r), r.goal = "dns",
           NEW v \in D!Answers, v.via \in {D!None, "Warp"}, v.via # D!None => v.ok /\ v.at = dialNow
    PROVE  Becomes(r, D!Answer(r, v))
<1>. DEFINE g0 == D!Goto(r, "dest")
            q == D!Answer(r, v)
<1>1. /\ g0 \in D!CallRecords
      /\ g0.pc = "resolve" /\ g0.goal = "dest" /\ g0.wait = 0
      /\ g0.dest = r.dest /\ g0.proxy = r.proxy /\ g0.lead = r.lead /\ g0.left = r.left /\ g0.srv = r.srv
  BY FieldsOfGoto DEF Between, D!Goals
<1>. HIDE DEF g0
<1>2. q = [g0 EXCEPT !.pc = "answered", !.ans = v, !.srv = 0, !.left = 0]
  BY DEF D!Answer, g0
<1>3. /\ q \in D!CallRecords /\ q.pc = "answered" /\ q.goal = "dest" /\ q.wait = 0 /\ q.ans = v /\ q.left = 0
      /\ q.dest = r.dest /\ q.proxy = r.proxy /\ q.lead = r.lead
  <2>1. "answered" \in D!Pcs /\ 0 \in D!Servers /\ 0 \in Nat
    BY DEF D!Pcs, D!Servers, D!DnsServers
  <2>. QED
    BY <1>1, <1>2, <2>1 DEF D!CallRecords
<1>. HIDE DEF q
<1>4. D!Sound(q)
  <2>1. 1 \in Sizes \union {1} /\ 0 <= 1
    OBVIOUS
  <2>2. \A g \in D!Goals : r.lead[g] # 0 <=> g = "dest"
    BY DEF Between, D!Sound
  <2>3. /\ r.dest # D!None /\ r.proxy # D!NoProxy /\ r.dest \notin D!Literals /\ (r.proxy.host = D!None => r.proxy = D!NoProxy)
    BY DEF Between, D!Sound
  <2>. QED
    <3>1. q.wait # 0 <=> q.pc = "waiting"
      BY <1>3
    <3>2. \E n \in Sizes \union {1} : q.left <= n
      BY <1>3, <2>1
    <3>3. D!Busy(q) /\ q.goal \in D!Goals /\ q.dest # D!None /\ (q.goal = "direct" <=> q.proxy = D!NoProxy)
      BY <1>3, <2>3 DEF D!Busy, D!Goals
    <3>4. \A g \in D!Goals : q.lead[g] # 0 <=> (g = q.goal /\ D!Leading(q)) \/ (g = "dest" /\ q.goal = "dns")
      BY <1>3, <2>2 DEF D!Leading
    <3>5. D!NameOf(q) \notin D!Literals
      BY <1>3, <2>3 DEF D!NameOf
    <3>. QED
      BY <1>3, <2>3, <3>1, <3>2, <3>3, <3>4, <3>5 DEF D!Sound
<1>5. D!Current(q)
  BY <1>3 DEF D!Current, D!Route
<1>. QED
  BY <1>3, <1>4, <1>5 DEF Becomes, Released, q

\* or the next server is asked.
LEMMA BecomesNextServer ==
    ASSUME D!DialAssumption, NEW r, Between(r), r.goal = "dns"
    PROVE  Becomes(r, D!NextServer(r))
<1>. DEFINE g0 == D!Goto(r, "dns")
            q == [g0 EXCEPT !.srv = @ + 1, !.left = 0]
<1>1. CASE r.srv < D!DnsServers
  <2>1. /\ g0 \in D!CallRecords
        /\ g0.pc = "resolve" /\ g0.goal = "dns" /\ g0.wait = 0
        /\ g0.dest = r.dest /\ g0.proxy = r.proxy /\ g0.lead = r.lead /\ g0.left = r.left /\ g0.srv = r.srv
    BY FieldsOfGoto DEF Between, D!Goals
  <2>. HIDE DEF g0
  <2>2. r.srv + 1 \in D!Servers /\ 0 \in Nat
    BY <1>1 DEF Between, D!CallRecords, D!Servers, D!DnsServers
  <2>3. /\ q \in D!CallRecords /\ q.pc = "resolve" /\ q.goal = "dns" /\ q.wait = 0 /\ q.left = 0
        /\ q.dest = r.dest /\ q.proxy = r.proxy /\ q.lead = r.lead
    BY <2>1, <2>2 DEF D!CallRecords
  <2>4. D!NextServer(r) = q
    BY <1>1 DEF D!NextServer, g0
  <2>. HIDE DEF q
  <2>5. D!Sound(q)
    <3>1. 1 \in Sizes \union {1} /\ 0 <= 1
      OBVIOUS
    <3>2. \A g \in D!Goals : r.lead[g] # 0 <=> g = "dest"
      BY DEF Between, D!Sound
    <3>3. /\ r.dest # D!None /\ r.proxy # D!NoProxy /\ r.dest \notin D!Literals /\ (r.proxy.host = D!None => r.proxy = D!NoProxy)
      BY DEF Between, D!Sound
    <3>4. \A g \in D!Goals : q.lead[g] # 0 <=> (g = q.goal /\ D!Leading(q)) \/ (g = "dest" /\ q.goal = "dns")
      BY <2>3, <3>2 DEF D!Leading
    <3>5. D!Busy(q) /\ ~D!Leading(q) /\ q.goal \in D!Goals /\ q.dest # D!None /\ (q.goal = "direct" <=> q.proxy = D!NoProxy)
      BY <2>3, <3>3 DEF D!Busy, D!Leading, D!Goals
    <3>. QED
      BY <2>3, <3>1, <3>3, <3>4, <3>5 DEF D!Sound
  <2>6. D!Current(q)
    BY <2>3 DEF D!Current
  <2>. QED
    BY <2>3, <2>4, <2>5, <2>6 DEF Becomes, Released
<1>2. CASE ~(r.srv < D!DnsServers)
  <2>1. D!Err \in D!Answers /\ D!Err.via = D!None
    BY DEF D!Err, D!Answers
  <2>. QED
    BY <1>2, <2>1, BecomesAnswer DEF D!NextServer
<1>. QED
  BY <1>1, <1>2

\* A step through another record of the task.
LEMMA BecomesThrough ==
    ASSUME NEW r, NEW q, NEW x, q.lead = r.lead, q.dest = r.dest, q.proxy = r.proxy, Becomes(q, x)
    PROVE  Becomes(r, x)
BY DEF Becomes, Released

\* Connecting to the first of n addresses.
LEMMA BecomesConnect ==
    ASSUME D!DialAssumption, NEW r, Between(r), NEW n \in Nat, \E m \in Sizes \union {1} : n <= m,
           r.ans.via \in {D!None, D!Route(r.goal)},
           r.ans.via # D!None => r.took - r.ans.at < D!Clamp(r.ans.ttl)
    PROVE  Becomes(r, [r EXCEPT !.pc = "connect", !.left = n])
<1>. DEFINE q == [r EXCEPT !.pc = "connect", !.left = n]
<1>1. "connect" \in D!Pcs /\ r \in D!CallRecords
  BY DEF D!Pcs, Between
<1>2. /\ q \in D!CallRecords /\ q.pc = "connect" /\ q.left = n /\ q.wait = r.wait /\ q.goal = r.goal
      /\ q.dest = r.dest /\ q.proxy = r.proxy /\ q.lead = r.lead /\ q.ans = r.ans /\ q.took = r.took
  BY <1>1 DEF D!CallRecords
<1>. HIDE DEF q
<1>3. r.wait = 0 /\ D!Busy(r) /\ ~D!Leading(r) /\ D!Sound(r)
  BY DEF Between
<1>4. D!Sound(q)
  <2>1. \A g \in D!Goals : q.lead[g] # 0 <=> (g = q.goal /\ D!Leading(q)) \/ (g = "dest" /\ q.goal = "dns")
    BY <1>2, <1>3 DEF D!Sound, D!Leading
  <2>2. D!Busy(q) /\ ~D!Leading(q)
    BY <1>2 DEF D!Busy, D!Leading
  <2>. QED
    BY <1>2, <1>3, <2>1, <2>2 DEF D!Sound
<1>5. D!Current(q)
  BY <1>2 DEF D!Current
<1>6. Becomes(r, q)
  BY <1>2, <1>3, <1>4, <1>5 DEF Becomes, Released
<1>. QED
  BY <1>6 DEF q

\* The proxy is reached.
LEMMA BecomesAfterProxy ==
    ASSUME D!DialAssumption, NEW r, Between(r), r.goal = "proxy",
           r.ans.via \in {D!None, "Direct"},
           r.ans.via # D!None => r.took - r.ans.at < D!Clamp(r.ans.ttl)
    PROVE  Becomes(r, D!AfterProxy(r))
<1>1. CASE r.dest \notin D!Literals
  <2>. DEFINE q == D!Goto(r, "dest")
  <2>1. /\ q \in D!CallRecords /\ q.pc = "resolve" /\ q.goal = "dest" /\ q.wait = 0
        /\ q.dest = r.dest /\ q.proxy = r.proxy /\ q.lead = r.lead /\ q.left = r.left
    BY FieldsOfGoto DEF Between, D!Goals
  <2>2. D!AfterProxy(r) = q
    BY <1>1 DEF D!AfterProxy
  <2>. HIDE DEF q
  <2>3. \A g \in D!Goals : r.lead[g] = 0
    BY DEF Between, D!Sound
  <2>4. /\ r.dest # D!None /\ r.proxy # D!NoProxy /\ (r.proxy.host = D!None => r.proxy = D!NoProxy)
        /\ \E n \in Sizes \union {1} : r.left <= n
    BY DEF Between, D!Sound
  <2>5. D!Busy(q) /\ ~D!Leading(q) /\ q.goal \in D!Goals
    BY <2>1 DEF D!Busy, D!Leading, D!Goals
  <2>6. D!Sound(q)
    BY <1>1, <2>1, <2>3, <2>4, <2>5 DEF D!Sound
  <2>7. D!Current(q)
    BY <2>1 DEF D!Current
  <2>. QED
    BY <2>1, <2>2, <2>6, <2>7 DEF Becomes, Released
<1>2. CASE r.dest \in D!Literals /\ D!reject_ipv6_ip(r.dest)
  BY <1>2, BecomesIdle DEF D!AfterProxy
<1>3. CASE r.dest \in D!Literals /\ ~D!reject_ipv6_ip(r.dest)
  <2>1. 1 \in Nat /\ \E m \in Sizes \union {1} : 1 <= m
    OBVIOUS
  <2>2. r.ans.via \in {D!None, D!Route(r.goal)}
    BY DEF D!Route
  <2>3. Becomes(r, [r EXCEPT !.pc = "connect", !.left = 1])
    BY <2>1, <2>2, BecomesConnect
  <2>. QED
    BY <1>3, <2>3 DEF D!AfterProxy
<1>. QED
  BY <1>1, <1>2, <1>3

\* A task takes an answer by the route it asked for that is not stale.
LEMMA BecomesProceed ==
    ASSUME D!DialAssumption, dialNow \in Nat, NEW r, Between(r), NEW v \in D!Answers,
           v.via \in {D!None, D!Route(r.goal)},
           v.via # D!None => dialNow - v.at < D!Clamp(v.ttl)
    PROVE  Becomes(r, D!Proceed(r, v))
<1>. DEFINE q == [r EXCEPT !.ans = v, !.took = dialNow]
<1>1. /\ q \in D!CallRecords /\ q.pc = r.pc /\ q.goal = r.goal /\ q.wait = r.wait /\ q.left = r.left
      /\ q.dest = r.dest /\ q.proxy = r.proxy /\ q.lead = r.lead /\ q.ans = v /\ q.took = dialNow
  BY DEF D!CallRecords, Between
<1>2. D!Proceed(r, v) =
        CASE ~v.ok /\ r.goal = "dns" -> D!NextServer(q)
          [] ~v.ok /\ r.goal # "dns" -> D!Fail(q)
          [] v.ok /\ r.goal = "proxy" -> D!AfterProxy(q)
          [] OTHER -> [q EXCEPT !.pc = "connect", !.left = IF r.goal = "dns" THEN 1 ELSE v.n]
  BY DEF D!Proceed
<1>. HIDE DEF q
<1>3. Between(q)
  BY <1>1 DEF Between, D!Sound, D!Busy, D!Leading, D!NameOf
<1>4. CASE ~v.ok /\ r.goal = "dns"
  BY <1>1, <1>2, <1>3, <1>4, BecomesNextServer, BecomesThrough
<1>5. CASE ~v.ok /\ r.goal # "dns"
  <2>1. Becomes(q, D!Fail(q))
    BY <1>1, <1>3, <1>5, BecomesIdle
  <2>. QED
    BY <1>1, <1>2, <1>5, <2>1, BecomesThrough
<1>6. CASE v.ok /\ r.goal = "proxy"
  <2>1. Becomes(q, D!AfterProxy(q))
    BY <1>1, <1>3, <1>6, BecomesAfterProxy DEF D!Route
  <2>. QED
    BY <1>1, <1>2, <1>6, <2>1, BecomesThrough
<1>7. CASE v.ok /\ r.goal # "proxy"
  <2>. DEFINE n == IF r.goal = "dns" THEN 1 ELSE v.n
  <2>1. v.n \in Sizes \union {0, 1} /\ Sizes \subseteq Nat
    BY DEF D!Answers, D!DialAssumption
  <2>2. n \in Nat /\ \E m \in Sizes \union {1} : n <= m
    <3>1. n \in Nat /\ (n \in Sizes \/ n <= 1)
      <4>0. \A x \in Sizes \union {0, 1} : x \in Nat /\ (x \in Sizes \/ x <= 1)
        BY DEF D!DialAssumption
      <4>1. v.n \in Nat /\ (v.n \in Sizes \/ v.n <= 1)
        BY <2>1, <4>0
      <4>2. n = 1 \/ n = v.n
        OBVIOUS
      <4>. HIDE DEF n
      <4>. QED
        BY <4>1, <4>2
    <3>2. CASE n \in Sizes
      BY <3>1, <3>2
    <3>3. CASE n <= 1
      BY <3>1, <3>3
    <3>. QED
      BY <3>1, <3>2, <3>3
  <2>. HIDE DEF n
  <2>3. Becomes(q, [q EXCEPT !.pc = "connect", !.left = n])
    BY <1>1, <1>3, <2>2, BecomesConnect
  <2>4. D!Proceed(r, v) = [q EXCEPT !.pc = "connect", !.left = n]
    BY <1>2, <1>7 DEF n
  <2>. QED
    BY <1>1, <2>3, <2>4, BecomesThrough
<1>. QED
  BY <1>4, <1>5, <1>6, <1>7

\* An attempt failed.
LEMMA BecomesTryNext ==
    ASSUME D!DialAssumption, NEW r, Between(r), D!Current(r), r.pc \in {"connect", "shake"}
    PROVE  Becomes(r, D!TryNext(r))
<1>1. CASE r.left > 1
  <2>1. r.left - 1 \in Nat /\ \E m \in Sizes \union {1} : r.left - 1 <= m
    <3>1. PICK m \in Sizes \union {1} : r.left <= m
      BY DEF Between, D!Sound
    <3>2. m \in Nat /\ r.left \in Nat
      BY DEF D!DialAssumption, Between, D!CallRecords
    <3>. QED
      BY <1>1, <3>1, <3>2
  <2>2. /\ r.ans.via \in {D!None, D!Route(r.goal)}
        /\ r.ans.via # D!None => r.took - r.ans.at < D!Clamp(r.ans.ttl)
    BY DEF D!Current
  <2>. DEFINE n == r.left - 1
  <2>3. [r EXCEPT !.left = @ - 1, !.pc = "connect"] = [r EXCEPT !.pc = "connect", !.left = n]
    BY DEF Between, D!CallRecords
  <2>. HIDE DEF n
  <2>4. Becomes(r, [r EXCEPT !.pc = "connect", !.left = n])
    BY <2>1, <2>2, BecomesConnect DEF n
  <2>. QED
    BY <1>1, <2>3, <2>4 DEF D!TryNext
<1>2. CASE ~(r.left > 1) /\ r.goal = "dns"
  BY <1>2, BecomesNextServer DEF D!TryNext
<1>3. CASE ~(r.left > 1) /\ r.goal # "dns"
  BY <1>3, BecomesIdle DEF D!TryNext
<1>. QED
  BY <1>1, <1>2, <1>3

ChanRecords == [sent : BOOLEAN, val : D!Answers, open : BOOLEAN]

\* The parts of the invariant about the tasks and the flights.
Flights == D!CallsSound /\ D!ChansNamed /\ D!OneLeader /\ D!LeadersHold /\ D!FlightsOpen /\ D!AnswersPrompt /\ D!FlightsHaveLeaders

\* The record of a task.
LEMMA CallFacts ==
    ASSUME D!IInv, NEW c \in Calls
    PROVE  /\ calls[c] \in D!CallRecords /\ D!Sound(calls[c]) /\ D!Current(calls[c])
           /\ calls[c].lead \in [D!Goals -> D!ChansOrNone] /\ calls[c].wait \in D!ChansOrNone
           /\ calls[c].ans \in D!Answers
BY DEF D!IInv, D!Types, D!CallsSound, D!CallRecords, D!Leads

\* A step of one task that takes no flight: it may drop some.
ReleasesTo(c, q) ==
    /\ Released(calls[c], q) /\ calls[c].pc # "removed" /\ calls' = [calls EXCEPT ![c] = q]
    /\ dialNow' = dialNow /\ inflight' = inflight
    /\ \A i \in D!ChanIds : chans'[i].sent = chans[i].sent /\ chans'[i].val = chans[i].val
    /\ abandoned \subseteq abandoned'
    /\ \A g \in D!Goals : q.lead[g] = 0 /\ calls[c].lead[g] # 0 =>
          \A r \in D!Routes, n \in D!Names : inflight[r][n] = calls[c].lead[g] => <<r, n>> \in abandoned'

\* Dropping flights leaves the others as they were.
LEMMA ReleaseStep ==
    ASSUME D!DialAssumption, D!IInv, NEW c \in Calls, NEW q, ReleasesTo(c, q)
    PROVE  calls' \in [Calls -> D!CallRecords] /\ Flights'
<1>0. /\ Released(calls[c], q) /\ calls[c].pc # "removed" /\ calls' = [calls EXCEPT ![c] = q]
      /\ dialNow' = dialNow /\ inflight' = inflight
      /\ \A i \in D!ChanIds : chans'[i].sent = chans[i].sent /\ chans'[i].val = chans[i].val
      /\ abandoned \subseteq abandoned'
      /\ \A g \in D!Goals : q.lead[g] = 0 /\ calls[c].lead[g] # 0 =>
            \A r \in D!Routes, n \in D!Names : inflight[r][n] = calls[c].lead[g] => <<r, n>> \in abandoned'
  BY DEF ReleasesTo
<1>1. /\ calls \in [Calls -> D!CallRecords] /\ q \in D!CallRecords /\ D!Sound(q) /\ D!Current(q)
      /\ q.wait = 0 /\ q.pc # "removed"
      /\ \A g \in D!Goals : q.lead[g] \in {0, calls[c].lead[g]}
      /\ \A g \in D!Goals : q.lead[g] # 0 => q.dest = calls[c].dest /\ q.proxy = calls[c].proxy
  BY <1>0 DEF D!IInv, D!Types, Released
<1>2. /\ calls' \in [Calls -> D!CallRecords] /\ calls'[c] = q
      /\ \A d \in Calls : d # c => calls'[d] = calls[d]
  BY <1>0, <1>1
<1>3. /\ D!CallsSound /\ D!ChansNamed /\ D!OneLeader /\ D!LeadersHold /\ D!FlightsOpen /\ D!AnswersPrompt /\ D!FlightsHaveLeaders
      /\ inflight \in [D!Routes -> [D!Names -> D!ChansOrNone]]
  BY DEF D!IInv, D!Types
\* What leads or waits in the next state did so before, under the same name.
<1>4. \A d \in Calls, g \in D!Goals : calls'[d].lead[g] # 0 =>
          /\ calls'[d].lead[g] = calls[d].lead[g]
          /\ D!LeadName(d, g)' = D!LeadName(d, g)
          /\ D!Holds(d, g)' <=> D!Holds(d, g)
  <2>. SUFFICES ASSUME NEW d \in Calls, NEW g \in D!Goals, calls'[d].lead[g] # 0
                PROVE  /\ calls'[d].lead[g] = calls[d].lead[g]
                       /\ D!LeadName(d, g)' = D!LeadName(d, g)
                       /\ D!Holds(d, g)' <=> D!Holds(d, g)
    OBVIOUS
  <2>1. CASE d # c
    BY <1>0, <1>1, <1>2, <2>1 DEF D!LeadName, D!Holds
  <2>2. CASE d = c
    <3>1. /\ q.lead[g] # 0 /\ q.lead[g] = calls[c].lead[g]
          /\ q.dest = calls[c].dest /\ q.proxy = calls[c].proxy /\ calls'[c] = q
      BY <1>0, <1>1, <1>2, <2>2
    <3>2. D!LeadName(c, g)' = D!LeadName(c, g)
      BY <3>1 DEF D!LeadName
    <3>3. D!Holds(c, g)' /\ D!Holds(c, g)
      BY <1>0, <1>1, <3>1 DEF D!Holds
    <3>. QED
      BY <2>2, <3>1, <3>2, <3>3
  <2>. QED
    BY <2>1, <2>2
<1>5. \A d \in Calls : calls'[d].wait # 0 =>
          d # c /\ calls'[d] = calls[d] /\ D!NameOf(calls[d])' = D!NameOf(calls[d])
  BY <1>0, <1>1, <1>2 DEF D!NameOf
<1>6. D!CallsSound'
  <2>1. \A d \in Calls : D!Sound(calls'[d])
    BY <1>0, <1>1, <1>2, <1>3 DEF D!CallsSound
  <2>2. \A d \in Calls : D!Current(calls'[d])
    BY <1>0, <1>1, <1>2, <1>3 DEF D!CallsSound
  <2>. QED
    BY <1>0, <2>1, <2>2 DEF D!CallsSound, D!Sound, D!Current
<1>7. D!ChansNamed'
  <2>. SUFFICES ASSUME NEW i \in D!ChanIds
                PROVE  \E t \in D!Routes \X (D!Names \union {D!None}) : D!Uses(i, t)'
    BY DEF D!ChansNamed
  <2>1. PICK t \in D!Routes \X (D!Names \union {D!None}) : D!Uses(i, t)
    BY <1>0, <1>3 DEF D!ChansNamed
  <2>2. i # 0
    BY DEF D!ChanIds
  <2>3. D!Uses(i, t)'
    BY <1>0, <1>4, <1>5, <2>1, <2>2 DEF D!Uses
  <2>. QED
    BY <2>3
<1>8. D!OneLeader'
  BY <1>0, <1>3, <1>4 DEF D!OneLeader
<1>9. D!LeadersHold'
  <2>1. \A d \in Calls, g \in D!Goals : calls'[d].lead[g] = 0 => ~D!Holds(d, g)'
    BY DEF D!Holds
  <2>. SUFFICES ASSUME NEW d \in Calls, NEW g \in D!Goals, calls'[d].lead[g] # 0
                PROVE  IF D!Holds(d, g)' THEN inflight[D!Route(g)][D!LeadName(d, g)'] = calls'[d].lead[g]
                       ELSE inflight[D!Route(g)][D!LeadName(d, g)'] # calls'[d].lead[g]
    BY <1>0, <2>1 DEF D!LeadersHold
  <2>2. /\ calls'[d].lead[g] = calls[d].lead[g] /\ D!LeadName(d, g)' = D!LeadName(d, g)
        /\ D!Holds(d, g)' <=> D!Holds(d, g)
    BY <1>0, <1>4
  <2>3. IF D!Holds(d, g) THEN inflight[D!Route(g)][D!LeadName(d, g)] = calls[d].lead[g]
        ELSE inflight[D!Route(g)][D!LeadName(d, g)] # calls[d].lead[g]
    BY <1>0, <1>3, <2>2 DEF D!LeadersHold
  <2>. QED
    BY <1>0, <2>2, <2>3
<1>10. D!FlightsOpen'
  <2>1. \A r \in D!Routes, n \in D!Names : inflight[r][n] # 0 => inflight[r][n] \in D!ChanIds
    BY <1>0, <1>3 DEF D!ChansOrNone
  <2>. QED
    BY <1>0, <1>3, <2>1 DEF D!FlightsOpen
<1>11. D!AnswersPrompt'
  <2>. SUFFICES ASSUME NEW d \in Calls, calls'[d].pc = "waiting", chans'[calls'[d].wait].sent,
                       chans'[calls'[d].wait].val.via # D!None
                PROVE  chans'[calls'[d].wait].val.at = dialNow
    BY <1>0 DEF D!AnswersPrompt
  <2>1. calls'[d].wait # 0
    BY <1>0, <1>6 DEF D!CallsSound, D!Sound
  <2>2. calls'[d] = calls[d] /\ calls[d].wait \in D!ChanIds
    BY <1>0, <1>5, <2>1, CallFacts DEF D!ChansOrNone
  <2>. QED
    BY <1>0, <1>3, <2>2 DEF D!AnswersPrompt
<1>12. D!FlightsHaveLeaders'
  <2>. SUFFICES ASSUME NEW r \in D!Routes, NEW n \in D!Names, inflight[r][n] # 0, <<r, n>> \notin abandoned'
                PROVE  \E d \in Calls, g \in D!Goals : calls'[d].lead[g] = inflight[r][n]
    BY <1>0 DEF D!FlightsHaveLeaders
  <2>1. PICK d \in Calls, g \in D!Goals : calls[d].lead[g] = inflight[r][n]
    BY <1>0, <1>3 DEF D!FlightsHaveLeaders
  <2>2. calls'[d].lead[g] = calls[d].lead[g]
    BY <1>0, <1>1, <1>2, <2>1
  <2>. QED
    BY <2>1, <2>2
<1>. QED
  BY <1>0, <1>2, <1>6, <1>7, <1>8, <1>9, <1>10, <1>11, <1>12 DEF Flights

\* The parts of the invariant make it.
LEMMA IInvFromParts ==
    ASSUME D!Types', D!CachesBounded', D!NoDnsLeak', D!CachesSound', Flights'
    PROVE  D!IInv'
BY DEF D!IInv, Flights

\* A step of one task that touches nothing shared.
LEMMA QuietStep ==
    ASSUME D!DialAssumption, D!IInv, NEW c \in Calls, NEW q, Becomes(calls[c], q), calls[c].pc # "removed",
           calls' = [calls EXCEPT ![c] = q], UNCHANGED <<dialNow, cache, inflight, chans, asked, abandoned>>
    PROVE  D!IInv'
<1>1. Released(calls[c], q) /\ \A g \in D!Goals : q.lead[g] = calls[c].lead[g]
  BY DEF Becomes
<1>2. ReleasesTo(c, q)
  BY <1>1 DEF ReleasesTo
<1>3. calls' \in [Calls -> D!CallRecords] /\ Flights'
  BY <1>2, ReleaseStep
<1>4. D!Types' /\ D!CachesBounded' /\ D!NoDnsLeak' /\ D!CachesSound'
  BY <1>3 DEF D!IInv, D!Types, D!CachesBounded, D!NoDnsLeak, D!CachesSound
<1>. QED
  BY <1>3, <1>4, IInvFromParts

\* A lifetime is at least a tick.
LEMMA ClampPositive ==
    ASSUME D!DialAssumption, NEW ttl \in Nat
    PROVE  D!Clamp(ttl) \in Nat /\ 0 < D!Clamp(ttl)
BY DEF D!Clamp, D!DialAssumption

\* A task starts.
LEMMA StartCallIInv ==
    ASSUME D!DialAssumption, D!IInv, NEW c \in Calls, D!StartCall(c)
    PROVE  D!IInv'
<1>1. PICK q \in Requests :
        calls' = [calls EXCEPT ![c] =
           IF q.proxy = D!NoProxy \/ D!parse_endpoint(q.proxy, 1080).ok
           THEN [pc |-> "resolve", kind |-> q.kind, dest |-> q.dest, proxy |-> q.proxy, bind |-> q.bind,
                 goal |-> IF q.proxy = D!NoProxy THEN "direct" ELSE "proxy", lead |-> [g \in D!Goals |-> 0],
                 wait |-> 0, ans |-> D!Err, srv |-> 0, left |-> 0, took |-> 0]
           ELSE D!Fail([pc |-> "resolve", kind |-> q.kind, dest |-> q.dest, proxy |-> q.proxy, bind |-> q.bind,
                 goal |-> IF q.proxy = D!NoProxy THEN "direct" ELSE "proxy", lead |-> [g \in D!Goals |-> 0],
                 wait |-> 0, ans |-> D!Err, srv |-> 0, left |-> 0, took |-> 0])]
  BY DEF D!StartCall
<1>. DEFINE goal == IF q.proxy = D!NoProxy THEN "direct" ELSE "proxy"
            r == [pc |-> "resolve", kind |-> q.kind, dest |-> q.dest, proxy |-> q.proxy, bind |-> q.bind,
                  goal |-> goal, lead |-> [g \in D!Goals |-> 0],
                  wait |-> 0, ans |-> D!Err, srv |-> 0, left |-> 0, took |-> 0]
<1>2. goal \in D!Goals /\ (goal = "direct" <=> q.proxy = D!NoProxy) /\ goal \notin {"dest", "dns"}
  BY DEF D!Goals
<1>. HIDE DEF goal
<1>3. /\ "resolve" \in D!Pcs /\ q.kind \in D!Kinds /\ q.dest \in D!Targets /\ q.proxy \in D!Proxies /\ q.bind \in D!Binds
      /\ goal \in D!GoalsOrNone /\ [g \in D!Goals |-> 0] \in D!Leads /\ 0 \in D!ChansOrNone /\ D!Err \in D!Answers
      /\ 0 \in D!Servers /\ 0 \in Nat
  BY <1>2 DEF D!Pcs, D!Kinds, D!Targets, D!Proxies, D!Binds, D!GoalsOrNone, D!Leads, D!ChansOrNone, D!Err, D!Answers, D!Servers, D!DnsServers
<1>4. r \in D!CallRecords
  BY <1>3 DEF D!CallRecords
<1>5. /\ r.pc = "resolve" /\ r.dest = q.dest /\ r.proxy = q.proxy /\ r.goal = goal /\ r.wait = 0 /\ r.left = 0
      /\ \A g \in D!Goals : r.lead[g] = 0
  OBVIOUS
<1>. HIDE DEF r
<1>6. D!Sound(r)
  <2>1. 1 \in Sizes \union {1} /\ 0 <= 1
    OBVIOUS
  <2>2. q.dest # D!None /\ (q.proxy.host = D!None => q.proxy = D!NoProxy)
    BY DEF D!DialAssumption
  <2>. QED
    BY <1>2, <1>5, <2>1, <2>2 DEF D!Sound, D!Busy, D!Leading
<1>7. D!Current(r)
  BY <1>5 DEF D!Current
<1>8. \A g \in D!Goals : calls[c].lead[g] = 0
  BY CallFacts DEF D!StartCall, D!Sound, D!Busy
<1>9. Becomes(calls[c], r)
  BY <1>4, <1>5, <1>6, <1>7, <1>8 DEF Becomes, Released
<1>10. Becomes(calls[c], D!Fail(r))
  <2>. DEFINE f == D!Fail(r)
  <2>1. 1 \in Sizes \union {1} /\ 0 <= 1
    OBVIOUS
  <2>2. f \in D!CallRecords /\ f.pc = "failed" /\ f.wait = 0 /\ f.left = 0 /\ \A g \in D!Goals : f.lead[g] = 0
    BY FieldsOfFresh
  <2>. HIDE DEF f
  <2>3. D!Sound(f) /\ D!Current(f)
    BY <2>1, <2>2 DEF D!Sound, D!Current, D!Busy, D!Leading
  <2>4. Becomes(calls[c], f)
    BY <1>8, <2>2, <2>3 DEF Becomes, Released
  <2>. QED
    BY <2>4 DEF f
<1>11. \E x : Becomes(calls[c], x) /\ calls' = [calls EXCEPT ![c] = x]
  <2>1. calls' = [calls EXCEPT ![c] = IF q.proxy = D!NoProxy \/ D!parse_endpoint(q.proxy, 1080).ok THEN r ELSE D!Fail(r)]
    BY <1>1 DEF r, goal
  <2>. QED
    BY <1>9, <1>10, <2>1, ZenonT(60)
<1>12. calls[c].pc # "removed" /\ UNCHANGED <<dialNow, cache, inflight, chans, asked, abandoned>>
  BY DEF D!StartCall
<1>. QED
  BY <1>11, <1>12, QuietStep

\* An address needs no lookup,
LEMMA ResolveLiteralIInv ==
    ASSUME D!DialAssumption, D!IInv, NEW c \in Calls, D!ResolveLiteral(c)
    PROVE  D!IInv'
<1>. DEFINE r == calls[c]
            v == D!Literal(D!NameOf(r))
<1>1. r.pc = "resolve" /\ calls' = [calls EXCEPT ![c] = D!Proceed(r, v)]
      /\ UNCHANGED <<dialNow, cache, inflight, chans, asked, abandoned>>
  BY DEF D!ResolveLiteral
<1>2. dialNow \in Nat
  BY DEF D!IInv, D!Types, D!DialAssumption
<1>3. Between(r)
  BY <1>1, CallFacts DEF Between, D!Sound, D!Busy, D!Leading
<1>4. v \in D!Answers /\ v.via = D!None
  BY <1>2 DEF D!Literal, D!Answers, D!reject_ipv6_ip
<1>. HIDE DEF v
<1>5. Becomes(r, D!Proceed(r, v))
  BY <1>2, <1>3, <1>4, BecomesProceed
<1>. QED
  BY <1>1, <1>5, QuietStep

\* nor does a name in the cache.
LEMMA ResolveCachedIInv ==
    ASSUME D!DialAssumption, D!IInv, NEW c \in Calls, D!ResolveCached(c)
    PROVE  D!IInv'
<1>. DEFINE r == calls[c]
            route == D!Route(r.goal)
            f == cache[route]
            e == f[D!NameOf(r)]
<1>1. r.pc = "resolve" /\ D!NameOf(r) \notin D!Literals /\ D!Live(f, D!NameOf(r))
      /\ calls' = [calls EXCEPT ![c] = D!Proceed(r, e.v)]
      /\ UNCHANGED <<dialNow, cache, inflight, chans, asked, abandoned>>
  BY DEF D!ResolveCached, D!CacheOf
<1>2. dialNow \in Nat
  BY DEF D!IInv, D!Types, D!DialAssumption
<1>3. Between(r)
  BY <1>1, CallFacts DEF Between, D!Sound, D!Busy, D!Leading
<1>4. route \in D!Routes
  BY DEF D!Route, D!Routes
<1>5. D!NameOf(r) \in DOMAIN f /\ dialNow < e.exp
  BY <1>1 DEF D!Live
<1>6. e \in D!CacheEntries
  BY <1>4, <1>5 DEF D!IInv, D!Types
<1>7. e.v \in D!Answers /\ e.exp \in Nat /\ e.v.at \in Nat /\ e.v.ttl \in Nat
  BY <1>6 DEF D!CacheEntries, D!Answers
<1>8. e.v.via # D!None => e.v.via = route /\ e.exp = e.v.at + D!Clamp(e.v.ttl)
  BY <1>4, <1>5 DEF D!IInv, D!CachesSound
<1>9. D!Clamp(e.v.ttl) \in Nat
  BY <1>7, ClampPositive
<1>10. e.v.via # D!None => dialNow - e.v.at < D!Clamp(e.v.ttl)
  BY <1>2, <1>5, <1>7, <1>8, <1>9
<1>11. e.v.via \in {D!None, D!Route(r.goal)}
  BY <1>8
<1>12. Becomes(r, D!Proceed(r, e.v))
  BY <1>2, <1>3, <1>7, <1>10, <1>11, BecomesProceed
<1>. QED
  BY <1>1, <1>12, QuietStep

\* The system's answer to a direct lookup,
LEMMA LookupIInv ==
    ASSUME D!DialAssumption, D!IInv, NEW c \in Calls, D!Lookup(c)
    PROVE  D!IInv'
<1>. DEFINE r == calls[c]
<1>1. PICK n \in Sizes :
        calls' = [calls EXCEPT ![c].pc = "answered",
          ![c].ans = IF n = 0 THEN D!Err
                     ELSE [ok |-> TRUE, n |-> n, via |-> "Direct", at |-> dialNow, ttl |-> 300]]
  BY DEF D!Lookup
<1>. DEFINE v == IF n = 0 THEN D!Err ELSE [ok |-> TRUE, n |-> n, via |-> "Direct", at |-> dialNow, ttl |-> 300]
            q == [r EXCEPT !.pc = "answered", !.ans = v]
<1>2. r.pc = "lookup" /\ UNCHANGED <<dialNow, cache, inflight, chans, asked, abandoned>>
  BY DEF D!Lookup
<1>3. r \in D!CallRecords /\ D!Sound(r) /\ dialNow \in Nat
  BY CallFacts DEF D!IInv, D!Types, D!DialAssumption
<1>4. v \in D!Answers /\ v.via \in {D!None, "Direct"} /\ (v.via # D!None => v.ok /\ v.at = dialNow)
  BY <1>3 DEF D!Err, D!Answers, D!Routes
<1>. HIDE DEF v
<1>5. calls' = [calls EXCEPT ![c] = q]
  BY <1>1, <1>3, ZenonT(60) DEF v, D!CallRecords
<1>6. /\ q \in D!CallRecords /\ q.pc = "answered" /\ q.ans = v /\ q.goal = r.goal /\ q.wait = r.wait /\ q.left = r.left
      /\ q.dest = r.dest /\ q.proxy = r.proxy /\ q.lead = r.lead
  BY <1>3, <1>4 DEF D!CallRecords, D!Pcs
<1>. HIDE DEF q
<1>7. D!Sound(q)
  BY <1>2, <1>3, <1>6 DEF D!Sound, D!Busy, D!Leading, D!NameOf
<1>8. D!Current(q)
  BY <1>2, <1>3, <1>4, <1>6 DEF D!Current, D!Route, D!Sound
<1>9. r.wait = 0
  BY <1>2, <1>3 DEF D!Sound
<1>10. Becomes(r, q)
  BY <1>6, <1>7, <1>8, <1>9 DEF Becomes, Released
<1>. QED
  BY <1>2, <1>5, <1>10, QuietStep

\* the DNS server's,
LEMMA QueryIInv ==
    ASSUME D!DialAssumption, D!IInv, NEW c \in Calls, D!Query(c)
    PROVE  D!IInv'
<1>. DEFINE r == calls[c]
<1>1. PICK p \in D!Responses :
        calls' = [calls EXCEPT ![c] =
          IF D!parse_dns_response(p).ok THEN D!Answer(r, D!parse_dns_response(p)) ELSE D!NextServer(r)]
  BY DEF D!Query
<1>2. r.pc = "query" /\ UNCHANGED <<dialNow, cache, inflight, chans, asked, abandoned>>
  BY DEF D!Query
<1>3. r \in D!CallRecords /\ D!Sound(r) /\ dialNow \in Nat
  BY CallFacts DEF D!IInv, D!Types, D!DialAssumption
<1>4. Between(r) /\ r.goal = "dns"
  BY <1>2, <1>3 DEF Between, D!Sound, D!Busy, D!Leading
<1>. DEFINE v == D!parse_dns_response(p)
<1>5. v \in D!Answers /\ v.via \in {D!None, "Warp"} /\ (v.via # D!None => v.ok /\ v.at = dialNow)
  <2>1. p.a \in Sizes /\ p.ttl \in Nat
    BY DEF D!Responses, D!DialAssumption
  <2>2. p.a \in Sizes \union {0, 1} /\ dialNow \in Nat
    BY <1>3, <2>1
  <2>. QED
    BY <2>1, <2>2 DEF D!parse_dns_response, D!Err, D!Answers, D!Routes
<1>. HIDE DEF v
<1>6. Becomes(r, D!Answer(r, v))
  BY <1>4, <1>5, BecomesAnswer
<1>7. Becomes(r, D!NextServer(r))
  BY <1>4, BecomesNextServer
<1>8. \E q : Becomes(r, q) /\ calls' = [calls EXCEPT ![c] = q]
  BY <1>1, <1>6, <1>7 DEF v
<1>. QED
  BY <1>2, <1>8, QuietStep

\* and what a waiter is told.
LEMMA WakeIInv ==
    ASSUME D!DialAssumption, D!IInv, NEW c \in Calls, D!Wake(c)
    PROVE  D!IInv'
<1>. DEFINE r == calls[c]
            i == r.wait
            v == IF chans[i].sent THEN chans[i].val ELSE D!Err
            q == [r EXCEPT !.pc = "sent", !.wait = 0, !.ans = v]
<1>1. r.pc = "waiting" /\ UNCHANGED <<dialNow, cache, inflight, chans, asked, abandoned>>
  BY DEF D!Wake
<1>2. r \in D!CallRecords /\ D!Sound(r) /\ dialNow \in Nat /\ chans \in [D!ChanIds -> ChanRecords]
  BY CallFacts DEF D!IInv, D!Types, D!DialAssumption, ChanRecords
<1>3. i \in D!ChanIds
  BY <1>1, <1>2 DEF D!Sound, D!CallRecords, D!ChansOrNone
<1>4. PICK t \in D!Routes \X (D!Names \union {D!None}) : D!Uses(i, t)
  BY <1>3 DEF D!IInv, D!ChansNamed
<1>5. t = <<D!Route(r.goal), D!NameOf(r)>>
  BY <1>4 DEF D!Uses
<1>6. v \in D!Answers /\ v.via \in {D!None, D!Route(r.goal)} /\ (v.via # D!None => v.ok /\ v.at = dialNow)
  <2>1. CASE chans[i].sent
    <3>1. v = chans[i].val /\ v \in D!Answers
      BY <1>2, <1>3, <2>1 DEF ChanRecords
    <3>2. v.via \in {D!None, D!Route(r.goal)} /\ (v.via # D!None => v.ok)
      BY <1>4, <1>5, <2>1 DEF D!Uses
    <3>3. v.via # D!None => v.at = dialNow
      BY <1>1, <2>1 DEF D!IInv, D!AnswersPrompt
    <3>. QED
      BY <3>1, <3>2, <3>3
  <2>2. CASE ~chans[i].sent
    BY <2>2 DEF D!Err, D!Answers
  <2>. QED
    BY <2>1, <2>2
<1>7. calls' = [calls EXCEPT ![c] = q]
  BY <1>2 DEF D!Wake, D!CallRecords
<1>. HIDE DEF v
<1>8. /\ q \in D!CallRecords /\ q.pc = "sent" /\ q.ans = v /\ q.goal = r.goal /\ q.wait = 0 /\ q.left = r.left
      /\ q.dest = r.dest /\ q.proxy = r.proxy /\ q.lead = r.lead
  <2>1. "sent" \in D!Pcs /\ 0 \in D!ChansOrNone
    BY DEF D!Pcs, D!ChansOrNone
  <2>. QED
    BY <1>2, <1>6, <2>1 DEF D!CallRecords
<1>. HIDE DEF q
<1>9. D!Sound(q)
  BY <1>1, <1>2, <1>8 DEF D!Sound, D!Busy, D!Leading, D!NameOf
<1>10. D!Current(q)
  BY <1>6, <1>8 DEF D!Current
<1>11. Becomes(r, q)
  BY <1>8, <1>9, <1>10 DEF Becomes, Released
<1>. QED
  BY <1>1, <1>7, <1>11, QuietStep

\* Once connected through a proxy the task greets it.
LEMMA BecomesShake ==
    ASSUME D!DialAssumption, NEW r, Between(r)
    PROVE  Becomes(r, [r EXCEPT !.pc = "shake", !.took = 0, !.ans = D!Err])
<1>. DEFINE q == [r EXCEPT !.pc = "shake", !.took = 0, !.ans = D!Err]
<1>1. r \in D!CallRecords /\ D!Sound(r) /\ D!Busy(r) /\ r.wait = 0 /\ ~D!Leading(r)
  BY DEF Between
<1>2. "shake" \in D!Pcs /\ D!Err \in D!Answers /\ D!Err.via = D!None /\ 0 \in Nat
  BY DEF D!Pcs, D!Err, D!Answers
<1>3. /\ q \in D!CallRecords /\ q.pc = "shake" /\ q.ans = D!Err /\ q.goal = r.goal /\ q.wait = r.wait /\ q.left = r.left
      /\ q.dest = r.dest /\ q.proxy = r.proxy /\ q.lead = r.lead
  BY <1>1, <1>2 DEF D!CallRecords
<1>. HIDE DEF q
<1>4. D!Sound(q)
  BY <1>1, <1>3 DEF D!Sound, D!Busy, D!Leading, D!NameOf
<1>5. D!Current(q)
  BY <1>2, <1>3 DEF D!Current
<1>6. Becomes(r, q)
  BY <1>1, <1>3, <1>4, <1>5 DEF Becomes, Released
<1>. QED
  BY <1>6 DEF q

\* The tunnel to the DNS server stands.
LEMMA BecomesQuery ==
    ASSUME D!DialAssumption, NEW r, Between(r), r.goal = "dns"
    PROVE  Becomes(r, [r EXCEPT !.pc = "query"])
<1>. DEFINE q == [r EXCEPT !.pc = "query"]
<1>1. r \in D!CallRecords /\ D!Sound(r) /\ D!Busy(r) /\ r.wait = 0 /\ ~D!Leading(r)
  BY DEF Between
<1>2. /\ q \in D!CallRecords /\ q.pc = "query" /\ q.ans = r.ans /\ q.goal = r.goal /\ q.wait = r.wait /\ q.left = r.left
      /\ q.dest = r.dest /\ q.proxy = r.proxy /\ q.lead = r.lead
  BY <1>1 DEF D!CallRecords, D!Pcs
<1>. HIDE DEF q
<1>3. D!Sound(q)
  BY <1>1, <1>2 DEF D!Sound, D!Busy, D!Leading, D!NameOf
<1>4. D!Current(q)
  BY <1>2 DEF D!Current
<1>5. Becomes(r, q)
  BY <1>1, <1>2, <1>3, <1>4 DEF Becomes, Released
<1>. QED
  BY <1>5 DEF q

\* A connection is made or refused.
LEMMA ConnectIInv ==
    ASSUME D!DialAssumption, D!IInv, NEW c \in Calls, D!Connect(c)
    PROVE  D!IInv'
<1>. DEFINE r == calls[c]
<1>1. r.pc = "connect" /\ UNCHANGED <<dialNow, cache, inflight, chans, asked, abandoned>>
  BY DEF D!Connect
<1>2. Between(r) /\ D!Current(r)
  BY <1>1, CallFacts DEF Between, D!Sound, D!Busy, D!Leading
<1>3. \/ calls' = [calls EXCEPT ![c] = D!Succeed(r)] /\ r.goal = "direct"
      \/ calls' = [calls EXCEPT ![c] = [r EXCEPT !.pc = "shake", !.took = 0, !.ans = D!Err]]
      \/ calls' = [calls EXCEPT ![c] = D!TryNext(r)]
      \/ calls' = [calls EXCEPT ![c] = D!NextServer(r)] /\ r.goal = "dns"
      \/ calls' = [calls EXCEPT ![c] = D!Fail(r)] /\ r.goal # "dns"
  BY DEF D!Connect
<1>4. r.goal # "dns" => Becomes(r, D!Succeed(r)) /\ Becomes(r, D!Fail(r))
  BY <1>2, BecomesIdle
<1>5. Becomes(r, [r EXCEPT !.pc = "shake", !.took = 0, !.ans = D!Err])
  BY <1>2, BecomesShake
<1>6. Becomes(r, D!TryNext(r))
  BY <1>1, <1>2, BecomesTryNext
<1>7. r.goal = "dns" => Becomes(r, D!NextServer(r))
  BY <1>2, BecomesNextServer
<1>8. \E q : Becomes(r, q) /\ calls' = [calls EXCEPT ![c] = q]
  BY <1>3, <1>4, <1>5, <1>6, <1>7
<1>. QED
  BY <1>1, <1>8, QuietStep

\* The handshake with the proxy ends.
LEMMA ShakeIInv ==
    ASSUME D!DialAssumption, D!IInv, NEW c \in Calls, D!Shake(c)
    PROVE  D!IInv'
<1>. DEFINE r == calls[c]
<1>1. r.pc = "shake" /\ UNCHANGED <<dialNow, cache, inflight, chans, asked, abandoned>>
  BY DEF D!Shake
<1>2. Between(r) /\ D!Current(r)
  BY <1>1, CallFacts DEF Between, D!Sound, D!Busy, D!Leading
<1>3. \/ calls' = [calls EXCEPT ![c] = D!TryNext(r)]
      \/ calls' = [calls EXCEPT ![c] = [r EXCEPT !.pc = "query"]] /\ r.goal = "dns"
      \/ calls' = [calls EXCEPT ![c] = D!Succeed(r)] /\ r.goal # "dns"
  BY DEF D!Shake
<1>4. r.goal # "dns" => Becomes(r, D!Succeed(r))
  BY <1>2, BecomesIdle
<1>5. r.goal = "dns" => Becomes(r, [r EXCEPT !.pc = "query"])
  BY <1>2, BecomesQuery
<1>6. Becomes(r, D!TryNext(r))
  BY <1>1, <1>2, BecomesTryNext
<1>7. \E q : Becomes(r, q) /\ calls' = [calls EXCEPT ![c] = q]
  BY <1>3, <1>4, <1>5, <1>6
<1>. QED
  BY <1>1, <1>7, QuietStep

\* One route's cache in a sound state.
CacheSound(route, h) ==
    /\ DOMAIN h \subseteq D!Names /\ h \in [DOMAIN h -> D!CacheEntries]
    /\ Cardinality(DOMAIN h) <= MaxEntries
    /\ \A n \in DOMAIN h :
          h[n].v.via # D!None => h[n].v.via = route /\ h[n].v.ok /\ h[n].exp = h[n].v.at + D!Clamp(h[n].v.ttl)

CacheParts ==
    /\ DOMAIN cache = D!Routes
    /\ \A r \in D!Routes : DOMAIN cache[r] \subseteq D!Names /\ cache[r] \in [DOMAIN cache[r] -> D!CacheEntries]

\* Dial's finite sets and cardinalities are the library's.
LEMMA DialSets ==
    ASSUME NEW S
    PROVE  (D!IsFiniteSet(S) <=> IsFiniteSet(S)) /\ D!Cardinality(S) = Cardinality(S)
<1>1. D!IsFiniteSet(S) <=> IsFiniteSet(S)
  BY DEF D!IsFiniteSet, IsFiniteSet
<1>2. D!Cardinality(S) = Cardinality(S)
  BY DEF D!Cardinality, Cardinality
<1>. QED
  BY <1>1, <1>2

\* Every cache is sound.
LEMMA CachesSoundEach ==
    ASSUME D!IInv, NEW route \in D!Routes
    PROVE  CacheSound(route, cache[route])
BY DialSets DEF D!IInv, D!Types, D!CachesBounded, D!CachesSound, CacheSound

\* A cache changes and the others do not.
LEMMA CacheStep ==
    ASSUME D!IInv, NEW route \in D!Routes, NEW h, CacheSound(route, h), cache' = [cache EXCEPT ![route] = h]
    PROVE  CacheParts' /\ D!CachesBounded' /\ D!CachesSound'
<1>1. DOMAIN cache = D!Routes
  BY DEF D!IInv, D!Types
<1>2. DOMAIN cache' = D!Routes /\ cache'[route] = h /\ \A r \in D!Routes : r # route => cache'[r] = cache[r]
  BY <1>1
<1>3. \A r \in D!Routes : CacheSound(r, cache'[r])
  BY <1>2, CachesSoundEach
<1>. QED
  BY <1>2, <1>3, DialSets DEF CacheParts, D!CachesBounded, D!CachesSound, CacheSound

\* The image of a finite set is finite, and no larger.
LEMMA ImageFinite ==
    ASSUME NEW S, IsFiniteSet(S), NEW f
    PROVE  IsFiniteSet({f[x] : x \in S}) /\ Cardinality({f[x] : x \in S}) <= Cardinality(S)
<1>. DEFINE T == {f[x] : x \in S}
            g == [x \in S |-> f[x]]
<1>1. g \in [S -> T] /\ \A y \in T : \E x \in S : g[x] = y
  OBVIOUS
<1>2. g \in Surjection(S, T)
  BY <1>1 DEF Surjection
<1>. HIDE DEF g, T
<1>3. IsFiniteSet(T) /\ Cardinality(T) <= Cardinality(S)
  BY <1>2, FS_Surjection
<1>. QED
  BY <1>3 DEF T

\* The names are finitely many.
LEMMA NamesFinite ==
    ASSUME D!DialAssumption
    PROVE  IsFiniteSet(D!Names)
<1>. DEFINE dests == [q \in Requests |-> q.dest]
            hosts == [q \in Requests |-> q.proxy.host]
            Ds == {dests[q] : q \in Requests}
            Hs == {hosts[q] : q \in Requests}
<1>1. IsFiniteSet(Ds) /\ IsFiniteSet(Hs)
  <2>1. IsFiniteSet(Requests)
    BY DialSets DEF D!DialAssumption
  <2>. HIDE DEF dests, hosts
  <2>. QED
    BY <2>1, ImageFinite
<1>2. D!Names \in SUBSET (Ds \union Hs)
  BY DEF D!Names
<1>. HIDE DEF Ds, Hs
<1>3. IsFiniteSet(Ds \union Hs)
  BY <1>1, FS_Union
<1>. QED
  BY <1>2, <1>3, FS_Subset

\* A cache without some names is sound, and smaller.
LEMMA WithoutSound ==
    ASSUME D!DialAssumption, NEW route, NEW f, CacheSound(route, f), NEW S
    PROVE  /\ CacheSound(route, D!Without(f, S))
           /\ IsFiniteSet(DOMAIN f) /\ Cardinality(DOMAIN f) \in Nat
           /\ Cardinality(DOMAIN D!Without(f, S)) \in Nat
           /\ \A k \in S : k \in DOMAIN f => Cardinality(DOMAIN D!Without(f, S)) < Cardinality(DOMAIN f)
<1>. DEFINE g == D!Without(f, S)
<1>1. /\ DOMAIN g = DOMAIN f \ S
      /\ g \in [DOMAIN g -> D!CacheEntries]
      /\ \A k \in DOMAIN g : g[k] = f[k]
  BY DEF D!Without, CacheSound
<1>. HIDE DEF g
<1>2. IsFiniteSet(DOMAIN f) /\ Cardinality(DOMAIN f) \in Nat
  BY NamesFinite, FS_Subset, FS_CardinalityType DEF CacheSound
<1>3. IsFiniteSet(DOMAIN g) /\ Cardinality(DOMAIN g) <= Cardinality(DOMAIN f)
  <2>1. DOMAIN g \in SUBSET DOMAIN f
    BY <1>1
  <2>. QED
    BY <1>2, <2>1, FS_Subset
<1>4. Cardinality(DOMAIN g) \in Nat
  BY <1>3, FS_CardinalityType
<1>5. ASSUME NEW k \in S, k \in DOMAIN f
      PROVE  Cardinality(DOMAIN g) < Cardinality(DOMAIN f)
  <2>1. DOMAIN g \in SUBSET DOMAIN f /\ DOMAIN g # DOMAIN f
    BY <1>1, <1>5
  <2>2. Cardinality(DOMAIN g) # Cardinality(DOMAIN f)
    BY <1>2, <2>1, FS_Subset
  <2>. QED
    BY <1>2, <1>3, <1>4, <2>2
<1>6. Cardinality(DOMAIN g) <= MaxEntries
  BY <1>2, <1>3, <1>4 DEF CacheSound, D!DialAssumption
<1>7. CacheSound(route, g)
  BY <1>1, <1>6 DEF CacheSound
<1>. QED
  BY <1>2, <1>4, <1>5, <1>7 DEF g

\* Room is made for one more entry.
LEMMA MakeRoomSound ==
    ASSUME D!DialAssumption, NEW route, NEW f, CacheSound(route, f), NEW g \in D!MakeRoom(f)
    PROVE  CacheSound(route, g) /\ IsFiniteSet(DOMAIN g) /\ Cardinality(DOMAIN g) < MaxEntries
<1>1. Cardinality(DOMAIN f) \in Nat /\ MaxEntries \in Nat \ {0} /\ Cardinality(DOMAIN f) <= MaxEntries
  BY WithoutSound DEF CacheSound, D!DialAssumption
<1>2. CASE g = f /\ Cardinality(DOMAIN f) < MaxEntries
  BY <1>2, WithoutSound
<1>3. CASE D!Expired(f) # {} /\ g = D!Without(f, D!Expired(f))
  <2>1. PICK k \in D!Expired(f) : k \in DOMAIN f
    BY <1>3 DEF D!Expired
  <2>2. CacheSound(route, g) /\ Cardinality(DOMAIN g) \in Nat /\ Cardinality(DOMAIN g) < Cardinality(DOMAIN f)
    BY <1>3, <2>1, WithoutSound
  <2>3. IsFiniteSet(DOMAIN g)
    BY <2>2, WithoutSound
  <2>. QED
    BY <1>1, <2>2, <2>3
<1>4. CASE \E k \in DOMAIN f : g = D!Without(f, {k})
  <2>1. PICK k \in DOMAIN f : g = D!Without(f, {k})
    BY <1>4
  <2>2. CacheSound(route, g) /\ Cardinality(DOMAIN g) \in Nat /\ Cardinality(DOMAIN g) < Cardinality(DOMAIN f)
    BY <2>1, WithoutSound
  <2>3. IsFiniteSet(DOMAIN g)
    BY <2>2, WithoutSound
  <2>. QED
    BY <1>1, <2>2, <2>3
<1>. QED
  BY <1>2, <1>3, <1>4, DialSets DEF D!MakeRoom

\* So is one with an answer of now.
LEMMA InsertedSound ==
    ASSUME D!DialAssumption, dialNow \in Nat, NEW route, NEW f, CacheSound(route, f), NEW name \in D!Names,
           NEW v \in D!Answers, v.via \in {D!None, route}, v.via # D!None => v.ok /\ v.at = dialNow,
           NEW h \in D!Inserted(f, name, v)
    PROVE  CacheSound(route, h)
<1>1. PICK g \in D!MakeRoom(f) :
        h = [k \in DOMAIN g \union {name} |-> IF k = name THEN D!Entry(v) ELSE g[k]]
  BY DEF D!Inserted
<1>2. CacheSound(route, g) /\ IsFiniteSet(DOMAIN g) /\ Cardinality(DOMAIN g) < MaxEntries
  BY MakeRoomSound
<1>. DEFINE e == D!Entry(v)
<1>3. /\ DOMAIN h = DOMAIN g \union {name} /\ h[name] = e
      /\ \A k \in DOMAIN g : k # name => h[k] = g[k]
      /\ h = [k \in DOMAIN h |-> h[k]]
  BY <1>1
<1>4. e \in D!CacheEntries /\ e.v = v /\ (v.ok => e.exp = dialNow + D!Clamp(v.ttl))
  <2>1. v.ttl \in Nat /\ NegativeTtl \in Nat
    BY DEF D!Answers, D!DialAssumption
  <2>2. D!Clamp(v.ttl) \in Nat
    BY <2>1, ClampPositive
  <2>. QED
    BY <2>1, <2>2 DEF D!Entry, D!CacheEntries
<1>. HIDE DEF e
<1>5. h \in [DOMAIN h -> D!CacheEntries]
  <2>0. \A k \in DOMAIN g : g[k] \in D!CacheEntries
    BY <1>2 DEF CacheSound
  <2>1. ASSUME NEW k \in DOMAIN h PROVE h[k] \in D!CacheEntries
    <3>1. CASE k = name
      <4>1. h[k] = e
        BY <1>3, <3>1
      <4>. QED
        BY <1>4, <4>1
    <3>2. CASE k # name
      <4>1. k \in DOMAIN g /\ h[k] = g[k]
        BY <1>3, <3>2
      <4>. QED
        BY <2>0, <4>1
    <3>. QED
      BY <3>1, <3>2
  <2>. QED
    BY <1>3, <2>1
<1>6. Cardinality(DOMAIN h) <= MaxEntries
  <2>1. Cardinality(DOMAIN g) \in Nat
    BY <1>2, FS_CardinalityType
  <2>2. Cardinality(DOMAIN h) = IF name \in DOMAIN g THEN Cardinality(DOMAIN g) ELSE Cardinality(DOMAIN g) + 1
    BY <1>2, <1>3, FS_AddElement
  <2>3. Cardinality(DOMAIN h) \in Nat
    BY <1>2, <1>3, FS_AddElement, FS_CardinalityType
  <2>. QED
    BY <1>2, <2>1, <2>2, <2>3 DEF D!DialAssumption
<1>7. DOMAIN h \subseteq D!Names
  BY <1>2, <1>3 DEF CacheSound
<1>8. \A n \in DOMAIN h :
          h[n].v.via # D!None => h[n].v.via = route /\ h[n].v.ok /\ h[n].exp = h[n].v.at + D!Clamp(h[n].v.ttl)
  <2>. SUFFICES ASSUME NEW n \in DOMAIN h, h[n].v.via # D!None
                PROVE  h[n].v.via = route /\ h[n].v.ok /\ h[n].exp = h[n].v.at + D!Clamp(h[n].v.ttl)
    OBVIOUS
  <2>1. CASE n = name
    <3>1. h[n] = e /\ h[n].v = v
      BY <1>3, <1>4, <2>1
    <3>2. v.via = route /\ v.ok /\ v.at = dialNow
      BY <3>1
    <3>3. h[n].exp = dialNow + D!Clamp(v.ttl)
      BY <1>4, <3>1, <3>2
    <3>. QED
      BY <3>1, <3>2, <3>3
  <2>2. CASE n # name
    BY <1>2, <1>3, <2>2 DEF CacheSound
  <2>. QED
    BY <2>1, <2>2
<1>. QED
  BY <1>5, <1>6, <1>7, <1>8 DEF CacheSound

\* The name a task resolves is one of the names.
LEMMA NamedCall ==
    ASSUME D!IInv, NEW c \in Calls, D!Busy(calls[c]), D!NameOf(calls[c]) \notin D!Literals
    PROVE  D!NameOf(calls[c]) \in D!Names
<1>. DEFINE r == calls[c]
<1>1. r \in D!CallRecords /\ D!Sound(r)
  BY CallFacts
<1>2. /\ r.goal \in D!Goals /\ r.dest # D!None /\ (r.goal = "direct" <=> r.proxy = D!NoProxy)
      /\ (r.proxy.host = D!None => r.proxy = D!NoProxy)
  BY <1>1 DEF D!Sound
<1>3. r.dest \in {q.dest : q \in Requests}
  BY <1>1, <1>2 DEF D!CallRecords, D!Targets
<1>4. r.goal \in {"proxy", "dns"} => r.proxy.host # D!None /\ r.proxy.host \in {q.proxy.host : q \in Requests}
  BY <1>1, <1>2 DEF D!CallRecords, D!Proxies
<1>. QED
  BY <1>2, <1>3, <1>4 DEF D!NameOf, D!Names

\* A task that drops its flights releases them.
LEMMA DropReleases ==
    ASSUME D!IInv, NEW c \in Calls, NEW q, Released(calls[c], q), calls[c].pc # "removed",
           calls' = [calls EXCEPT ![c] = q], NEW S, D!Drop(calls[c], S),
           \A g \in D!Goals : calls[c].lead[g] # 0 /\ q.lead[g] = 0 => calls[c].lead[g] \in D!Led(calls[c], S)
    PROVE  ReleasesTo(c, q) /\ chans' \in [D!ChanIds -> ChanRecords] /\ UNCHANGED <<dialNow, cache, inflight, asked>>
<1>. DEFINE L == D!Led(calls[c], S)
<1>1. /\ chans' = [i \in D!ChanIds |-> IF i \in L THEN [chans[i] EXCEPT !.open = FALSE] ELSE chans[i]]
      /\ abandoned' = abandoned \union {k \in D!Routes \X D!Names : inflight[k[1]][k[2]] \in L}
      /\ UNCHANGED <<dialNow, cache, inflight, asked>>
  BY DEF D!Drop
<1>2. chans \in [D!ChanIds -> ChanRecords]
  BY DEF D!IInv, D!Types, ChanRecords
<1>. HIDE DEF L
<1>3. \A i \in D!ChanIds : chans'[i] \in ChanRecords /\ chans'[i].sent = chans[i].sent /\ chans'[i].val = chans[i].val
  BY <1>1, <1>2 DEF ChanRecords
<1>4. \A r \in D!Routes, n \in D!Names : inflight[r][n] \in L => <<r, n>> \in abandoned'
  BY <1>1
<1>5. chans' \in [D!ChanIds -> ChanRecords]
  BY <1>1, <1>3
<1>6. \A g \in D!Goals : q.lead[g] = 0 /\ calls[c].lead[g] # 0 =>
          \A r \in D!Routes, n \in D!Names : inflight[r][n] = calls[c].lead[g] => <<r, n>> \in abandoned'
  BY <1>4 DEF L
<1>7. abandoned \subseteq abandoned'
  BY <1>1
<1>. QED
  BY <1>1, <1>3, <1>5, <1>6, <1>7 DEF ReleasesTo

\* The answer enters the cache.
LEMMA InsertIInv ==
    ASSUME D!DialAssumption, D!IInv, NEW c \in Calls, D!Insert(c)
    PROVE  D!IInv'
<1>. DEFINE r == calls[c]
            route == D!Route(r.goal)
            v == r.ans
<1>1. PICK h \in D!Inserted(cache[route], D!NameOf(r), v) : cache' = [cache EXCEPT ![route] = h]
  BY DEF D!Insert, D!CacheOf
<1>2. /\ r.pc = "sent" /\ calls' = [calls EXCEPT ![c] = D!Proceed(r, v)]
      /\ UNCHANGED <<dialNow, inflight, chans, asked, abandoned>>
  BY DEF D!Insert
<1>3. dialNow \in Nat /\ route \in D!Routes
  BY DEF D!IInv, D!Types, D!DialAssumption, D!Route, D!Routes
<1>4. Between(r) /\ D!Sound(r) /\ D!Current(r) /\ v \in D!Answers
  BY <1>2, CallFacts DEF Between, D!Sound, D!Busy, D!Leading
<1>5. v.via \in {D!None, route} /\ (v.via # D!None => v.ok /\ v.at = dialNow)
  BY <1>2, <1>4 DEF D!Current
<1>6. D!NameOf(r) \in D!Names
  BY <1>2, <1>4, NamedCall DEF D!Busy, D!Sound
<1>7. CacheSound(route, h)
  BY <1>1, <1>3, <1>4, <1>5, <1>6, CachesSoundEach, InsertedSound
<1>8. CacheParts' /\ D!CachesBounded' /\ D!CachesSound'
  BY <1>1, <1>3, <1>7, CacheStep
<1>9. v.via # D!None => dialNow - v.at < D!Clamp(v.ttl)
  <2>1. v.ttl \in Nat /\ dialNow - dialNow = 0
    BY <1>3, <1>4 DEF D!Answers
  <2>. QED
    BY <1>5, <2>1, ClampPositive
<1>10. Becomes(r, D!Proceed(r, v))
  BY <1>3, <1>4, <1>5, <1>9, BecomesProceed
<1>11. ReleasesTo(c, D!Proceed(r, v))
  BY <1>2, <1>10 DEF ReleasesTo, Becomes
<1>12. calls' \in [Calls -> D!CallRecords] /\ Flights'
  BY <1>11, ReleaseStep
<1>13. D!Types' /\ D!NoDnsLeak'
  BY <1>2, <1>8, <1>12 DEF D!IInv, D!Types, D!NoDnsLeak, CacheParts
<1>. QED
  BY <1>8, <1>12, <1>13, IInvFromParts

\* A task that is dropped drops the flights it leads with it.
LEMMA CallerTimeoutIInv ==
    ASSUME D!DialAssumption, D!IInv, NEW c \in Calls, D!CallerTimeout(c)
    PROVE  D!IInv'
<1>. DEFINE r == calls[c]
            q == D!Fail(r)
<1>1. D!AtAwait(r) /\ D!Drop(r, D!Goals) /\ calls' = [calls EXCEPT ![c] = q]
  BY DEF D!CallerTimeout
<1>2. q \in D!CallRecords /\ q.pc = "failed" /\ q.wait = 0 /\ q.left = 0 /\ \A g \in D!Goals : q.lead[g] = 0
  BY FieldsOfFresh
<1>. HIDE DEF q
<1>3. D!Sound(q) /\ D!Current(q)
  <2>1. 1 \in Sizes \union {1} /\ 0 <= 1
    OBVIOUS
  <2>. QED
    BY <1>2, <2>1 DEF D!Sound, D!Current, D!Busy, D!Leading
<1>4. Released(r, q)
  BY <1>2, <1>3 DEF Released
<1>5. \A g \in D!Goals : r.lead[g] # 0 => r.lead[g] \in D!Led(r, D!Goals)
  BY DEF D!Led
<1>6. ReleasesTo(c, q) /\ chans' \in [D!ChanIds -> ChanRecords] /\ UNCHANGED <<dialNow, cache, inflight, asked>>
  BY <1>1, <1>4, <1>5, DropReleases DEF D!AtAwait
<1>7. calls' \in [Calls -> D!CallRecords] /\ Flights'
  BY <1>6, ReleaseStep
<1>8. D!Types' /\ D!CachesBounded' /\ D!NoDnsLeak' /\ D!CachesSound'
  BY <1>6, <1>7 DEF D!IInv, D!Types, D!CachesBounded, D!NoDnsLeak, D!CachesSound, ChanRecords
<1>. QED
  BY <1>7, <1>8, IInvFromParts

\* The lookup through WARP takes too long.
LEMMA WarpTimeoutIInv ==
    ASSUME D!DialAssumption, D!IInv, NEW c \in Calls, D!WarpTimeout(c)
    PROVE  D!IInv'
<1>. DEFINE r == calls[c]
            a == D!Answer(r, D!Err)
            q == [a EXCEPT !.lead["dns"] = 0]
<1>1. D!AtAwait(r) /\ r.goal = "dns" /\ D!Drop(r, {"dns"}) /\ calls' = [calls EXCEPT ![c] = q]
  BY DEF D!WarpTimeout
<1>2. r \in D!CallRecords /\ D!Sound(r) /\ D!Busy(r)
  BY <1>1, CallFacts DEF D!AtAwait, D!Busy
<1>3. /\ a \in D!CallRecords /\ a.pc = "answered" /\ a.goal = "dest" /\ a.wait = 0 /\ a.ans = D!Err /\ a.left = 0
      /\ a.dest = r.dest /\ a.proxy = r.proxy /\ a.lead = r.lead
  <2>. DEFINE g0 == D!Goto(r, "dest")
  <2>1. /\ g0 \in D!CallRecords
        /\ g0.pc = "resolve" /\ g0.goal = "dest" /\ g0.wait = 0
        /\ g0.dest = r.dest /\ g0.proxy = r.proxy /\ g0.lead = r.lead /\ g0.left = r.left /\ g0.srv = r.srv
    BY <1>2, FieldsOfGoto DEF D!Goals
  <2>. HIDE DEF g0
  <2>2. a = [g0 EXCEPT !.pc = "answered", !.ans = D!Err, !.srv = 0, !.left = 0]
    BY DEF D!Answer, g0
  <2>3. "answered" \in D!Pcs /\ 0 \in D!Servers /\ 0 \in Nat /\ D!Err \in D!Answers
    BY DEF D!Pcs, D!Servers, D!DnsServers, D!Err, D!Answers
  <2>. HIDE DEF a
  <2>. QED
    BY <2>1, <2>2, <2>3 DEF D!CallRecords
<1>. HIDE DEF a
<1>4. /\ q \in D!CallRecords /\ q.pc = "answered" /\ q.goal = "dest" /\ q.wait = 0 /\ q.ans = D!Err /\ q.left = 0
      /\ q.dest = r.dest /\ q.proxy = r.proxy
      /\ \A g \in D!Goals : q.lead[g] = IF g = "dns" THEN 0 ELSE r.lead[g]
  <2>1. a.lead \in [D!Goals -> D!ChansOrNone] /\ 0 \in D!ChansOrNone /\ [a.lead EXCEPT !["dns"] = 0] \in D!Leads
    BY <1>3 DEF D!CallRecords, D!Leads, D!ChansOrNone
  <2>2. q = [a EXCEPT !.lead = [a.lead EXCEPT !["dns"] = 0]]
    BY <1>3 DEF D!CallRecords
  <2>3. q \in D!CallRecords /\ q.lead = [a.lead EXCEPT !["dns"] = 0]
    BY <1>3, <2>1, <2>2 DEF D!CallRecords
  <2>4. /\ q.pc = a.pc /\ q.goal = a.goal /\ q.wait = a.wait /\ q.ans = a.ans /\ q.left = a.left
        /\ q.dest = a.dest /\ q.proxy = a.proxy
    BY <1>3, <2>2 DEF D!CallRecords
  <2>. HIDE DEF q
  <2>5. \A g \in D!Goals : q.lead[g] = IF g = "dns" THEN 0 ELSE a.lead[g]
    BY <2>1, <2>3
  <2>. QED
    BY <1>3, <2>3, <2>4, <2>5
<1>. HIDE DEF q
<1>5. D!Sound(q)
  <2>1. 1 \in Sizes \union {1} /\ 0 <= 1
    OBVIOUS
  <2>2. \A g \in D!Goals : q.lead[g] # 0 <=> g = "dest"
    BY <1>1, <1>2, <1>4 DEF D!Sound
  <2>3. /\ r.dest # D!None /\ r.proxy # D!NoProxy /\ r.dest \notin D!Literals /\ (r.proxy.host = D!None => r.proxy = D!NoProxy)
    BY <1>1, <1>2 DEF D!Sound
  <2>4. q.wait # 0 <=> q.pc = "waiting"
    BY <1>4
  <2>5. \E n \in Sizes \union {1} : q.left <= n
    BY <1>4, <2>1
  <2>6. D!Busy(q) /\ q.goal \in D!Goals /\ (q.goal = "direct" <=> q.proxy = D!NoProxy)
    BY <1>4, <2>3 DEF D!Busy, D!Goals
  <2>7. \A g \in D!Goals : q.lead[g] # 0 <=> (g = q.goal /\ D!Leading(q)) \/ (g = "dest" /\ q.goal = "dns")
    BY <1>4, <2>2 DEF D!Leading
  <2>8. D!NameOf(q) \notin D!Literals
    BY <1>4, <2>3 DEF D!NameOf
  <2>. QED
    BY <1>4, <2>3, <2>4, <2>5, <2>6, <2>7, <2>8 DEF D!Sound
<1>6. D!Current(q)
  BY <1>4 DEF D!Current, D!Err
<1>7. Released(r, q)
  BY <1>4, <1>5, <1>6 DEF Released
<1>8. \A g \in D!Goals : r.lead[g] # 0 /\ q.lead[g] = 0 => r.lead[g] \in D!Led(r, {"dns"})
  BY <1>4 DEF D!Led
<1>9. ReleasesTo(c, q) /\ chans' \in [D!ChanIds -> ChanRecords] /\ UNCHANGED <<dialNow, cache, inflight, asked>>
  BY <1>1, <1>7, <1>8, DropReleases DEF D!AtAwait
<1>10. calls' \in [Calls -> D!CallRecords] /\ Flights'
  BY <1>9, ReleaseStep
<1>11. D!Types' /\ D!CachesBounded' /\ D!NoDnsLeak' /\ D!CachesSound'
  BY <1>9, <1>10 DEF D!IInv, D!Types, D!CachesBounded, D!NoDnsLeak, D!CachesSound, ChanRecords
<1>. QED
  BY <1>10, <1>11, IInvFromParts

\* Whatever a task leads has a name.
LEMMA LeadNamed ==
    ASSUME D!IInv, NEW d \in Calls, NEW g \in D!Goals, calls[d].lead[g] # 0
    PROVE  D!LeadName(d, g) \in D!Names
<1>. DEFINE r == calls[d]
<1>1. r \in D!CallRecords /\ D!Sound(r)
  BY CallFacts
<1>2. D!Busy(r) /\ ((g = r.goal /\ D!Leading(r)) \/ (g = "dest" /\ r.goal = "dns"))
  BY <1>1 DEF D!Sound
<1>3. CASE g = r.goal /\ D!Leading(r)
  <2>1. D!NameOf(r) \notin D!Literals
    BY <1>1, <1>3 DEF D!Sound
  <2>. QED
    BY <1>2, <1>3, <2>1, NamedCall DEF D!NameOf, D!LeadName
<1>4. CASE g = "dest" /\ r.goal = "dns"
  <2>1. r.dest \notin D!Literals /\ r.dest # D!None /\ r.dest \in {q.dest : q \in Requests}
    BY <1>1, <1>2, <1>4 DEF D!Sound, D!CallRecords, D!Targets
  <2>. QED
    BY <1>4, <2>1 DEF D!LeadName, D!Names
<1>. QED
  BY <1>2, <1>3, <1>4

\* The flight is removed,
LEMMA RemoveIInv ==
    ASSUME D!DialAssumption, D!IInv, NEW c \in Calls, D!Remove(c)
    PROVE  D!IInv'
<1>. DEFINE r == calls[c]
            route == D!Route(r.goal)
            name == D!NameOf(r)
            q == [r EXCEPT !.pc = "removed"]
<1>1. /\ r.pc = "answered" /\ UNCHANGED <<dialNow, cache, chans, asked, abandoned>>
      /\ inflight' = [inflight EXCEPT ![route][name] = 0]
  BY DEF D!Remove
<1>2. /\ r \in D!CallRecords /\ D!Sound(r) /\ D!Current(r) /\ D!Leading(r) /\ D!Busy(r)
      /\ calls \in [Calls -> D!CallRecords] /\ inflight \in [D!Routes -> [D!Names -> D!ChansOrNone]]
  BY <1>1, CallFacts DEF D!IInv, D!Types, D!Leading, D!Busy
<1>3. calls' = [calls EXCEPT ![c] = q]
  BY <1>2 DEF D!Remove, D!CallRecords
<1>4. /\ q \in D!CallRecords /\ q.pc = "removed" /\ q.ans = r.ans /\ q.goal = r.goal /\ q.wait = r.wait
      /\ q.left = r.left /\ q.dest = r.dest /\ q.proxy = r.proxy /\ q.lead = r.lead
  BY <1>2 DEF D!CallRecords, D!Pcs
<1>. HIDE DEF q
<1>5. /\ calls' \in [Calls -> D!CallRecords] /\ calls'[c] = q
      /\ \A d \in Calls : d # c => calls'[d] = calls[d]
  BY <1>2, <1>3, <1>4
<1>6. route \in D!Routes /\ name \in D!Names /\ r.goal \in D!Goals /\ r.lead[r.goal] # 0
  BY <1>2, NamedCall DEF D!Sound, D!Route, D!Routes
<1>7. /\ inflight'[route][name] = 0
      /\ \A s \in D!Routes, n \in D!Names : <<s, n>> # <<route, name>> => inflight'[s][n] = inflight[s][n]
      /\ inflight' \in [D!Routes -> [D!Names -> D!ChansOrNone]]
  BY <1>1, <1>2, <1>6 DEF D!ChansOrNone
<1>8. \A d \in Calls :
         /\ calls'[d].lead = calls[d].lead /\ calls'[d].wait = calls[d].wait /\ calls'[d].goal = calls[d].goal
         /\ D!NameOf(calls'[d]) = D!NameOf(calls[d])
         /\ \A g \in D!Goals : D!LeadName(d, g)' = D!LeadName(d, g)
  BY <1>4, <1>5 DEF D!NameOf, D!LeadName
<1>9. name = D!LeadName(c, r.goal) /\ D!Holds(c, r.goal) /\ ~D!Holds(c, r.goal)'
  BY <1>1, <1>4, <1>5, <1>6 DEF D!NameOf, D!LeadName, D!Holds
<1>10. inflight[route][name] = r.lead[r.goal]
  BY <1>6, <1>9 DEF D!IInv, D!LeadersHold
<1>11. \A d \in Calls, g \in D!Goals : <<d, g>> # <<c, r.goal>> => (D!Holds(d, g)' <=> D!Holds(d, g))
  BY <1>1, <1>4, <1>5, <1>8 DEF D!Holds
<1>12. D!CallsSound'
  <2>1. D!Sound(q)
    BY <1>1, <1>2, <1>4 DEF D!Sound, D!Busy, D!Leading, D!NameOf
  <2>2. D!Current(q)
    BY <1>1, <1>2, <1>4 DEF D!Current
  <2>3. \A d \in Calls : D!Sound(calls'[d]) /\ D!Current(calls'[d])
    BY <1>5, <2>1, <2>2 DEF D!IInv, D!CallsSound
  <2>. QED
    BY <1>1, <2>3 DEF D!CallsSound, D!Sound, D!Current
<1>13. D!ChansNamed'
  <2>. SUFFICES ASSUME NEW i \in D!ChanIds
                PROVE  \E t \in D!Routes \X (D!Names \union {D!None}) : D!Uses(i, t)'
    BY DEF D!ChansNamed
  <2>1. PICK t \in D!Routes \X (D!Names \union {D!None}) : D!Uses(i, t)
    BY DEF D!IInv, D!ChansNamed
  <2>2. i # 0
    BY DEF D!ChanIds
  <2>3. \A s \in D!Routes, n \in D!Names : inflight'[s][n] = i => inflight[s][n] = i
    BY <1>7, <2>2
  <2>4. D!Uses(i, t)'
    BY <1>1, <1>8, <2>1, <2>3 DEF D!Uses
  <2>. QED
    BY <2>4
<1>14. D!OneLeader'
  BY <1>8 DEF D!IInv, D!OneLeader
<1>15. D!LeadersHold'
  <2>. SUFFICES ASSUME NEW d \in Calls, NEW g \in D!Goals, calls'[d].lead[g] # 0
                PROVE  /\ D!Holds(d, g)' => inflight'[D!Route(g)][D!LeadName(d, g)'] = calls'[d].lead[g]
                       /\ ~D!Holds(d, g)' => inflight'[D!Route(g)][D!LeadName(d, g)'] # calls'[d].lead[g]
    BY DEF D!LeadersHold, D!Holds, D!Route
  <2>1. D!LeadName(d, g) \in D!Names /\ D!Route(g) \in D!Routes /\ calls[d].lead[g] # 0
    BY <1>8, LeadNamed DEF D!Route, D!Routes
  <2>2. CASE <<d, g>> = <<c, r.goal>>
    BY <1>7, <1>8, <1>9, <2>1, <2>2
  <2>3. CASE <<d, g>> # <<c, r.goal>>
    <3>1. /\ D!Holds(d, g) => inflight[D!Route(g)][D!LeadName(d, g)] = calls[d].lead[g]
          /\ ~D!Holds(d, g) => inflight[D!Route(g)][D!LeadName(d, g)] # calls[d].lead[g]
      BY <2>1 DEF D!IInv, D!LeadersHold
    <3>2. calls[d].lead[g] # r.lead[r.goal]
      BY <1>6, <2>1, <2>3 DEF D!IInv, D!OneLeader
    <3>3. D!Holds(d, g) => <<D!Route(g), D!LeadName(d, g)>> # <<route, name>>
      BY <1>10, <3>1, <3>2
    <3>. QED
      BY <1>7, <1>8, <1>11, <2>1, <2>3, <3>1, <3>3
  <2>. QED
    BY <2>2, <2>3
<1>16. D!FlightsOpen'
  BY <1>1, <1>7 DEF D!IInv, D!FlightsOpen
<1>17. D!AnswersPrompt'
  BY <1>1, <1>4, <1>5, <1>8 DEF D!IInv, D!AnswersPrompt
<1>18. D!FlightsHaveLeaders'
  <2>. SUFFICES ASSUME NEW s \in D!Routes, NEW n \in D!Names, inflight'[s][n] # 0, <<s, n>> \notin abandoned
                PROVE  \E d \in Calls, g \in D!Goals : calls'[d].lead[g] = inflight'[s][n]
    BY <1>1 DEF D!FlightsHaveLeaders
  <2>1. inflight'[s][n] = inflight[s][n]
    BY <1>7
  <2>2. PICK d \in Calls, g \in D!Goals : calls[d].lead[g] = inflight[s][n]
    BY <2>1 DEF D!IInv, D!FlightsHaveLeaders
  <2>. QED
    BY <1>8, <2>1, <2>2
<1>19. D!Types' /\ D!CachesBounded' /\ D!NoDnsLeak' /\ D!CachesSound'
  BY <1>1, <1>5, <1>7 DEF D!IInv, D!Types, D!CachesBounded, D!NoDnsLeak, D!CachesSound
<1>. QED
  BY <1>12, <1>13, <1>14, <1>15, <1>16, <1>17, <1>18, <1>19, IInvFromParts DEF Flights

\* and its answer sent.
LEMMA SendIInv ==
    ASSUME D!DialAssumption, D!IInv, NEW c \in Calls, D!Send(c)
    PROVE  D!IInv'
<1>. DEFINE r == calls[c]
            i == r.lead[r.goal]
            m == [sent |-> TRUE, val |-> r.ans, open |-> FALSE]
            q == [r EXCEPT !.pc = "sent", !.lead = [r.lead EXCEPT ![r.goal] = 0]]
<1>1. /\ r.pc = "removed" /\ UNCHANGED <<dialNow, cache, inflight, asked, abandoned>>
      /\ chans' = [chans EXCEPT ![i] = m]
      /\ calls' = [calls EXCEPT ![c].pc = "sent", ![c].lead[r.goal] = 0]
  BY DEF D!Send
<1>0. inflight' = inflight /\ abandoned' = abandoned
  BY <1>1
<1>2. /\ r \in D!CallRecords /\ D!Sound(r) /\ D!Current(r) /\ D!Leading(r) /\ D!Busy(r)
      /\ calls \in [Calls -> D!CallRecords] /\ chans \in [D!ChanIds -> ChanRecords]
      /\ r.lead \in [D!Goals -> D!ChansOrNone]
  BY <1>1, CallFacts DEF D!IInv, D!Types, D!Leading, D!Busy, ChanRecords
<1>3. r.goal \in D!Goals /\ i # 0 /\ i \in D!ChanIds
  BY <1>2 DEF D!Sound, D!ChansOrNone
<1>4. calls' = [calls EXCEPT ![c] = q]
  BY <1>1, <1>2 DEF D!CallRecords
<1>5. /\ q \in D!CallRecords /\ q.pc = "sent" /\ q.ans = r.ans /\ q.goal = r.goal /\ q.wait = r.wait
      /\ q.left = r.left /\ q.dest = r.dest /\ q.proxy = r.proxy
      /\ \A g \in D!Goals : q.lead[g] = IF g = r.goal THEN 0 ELSE r.lead[g]
  <2>1. [r.lead EXCEPT ![r.goal] = 0] \in D!Leads /\ "sent" \in D!Pcs
    BY <1>2 DEF D!Leads, D!ChansOrNone, D!Pcs
  <2>2. q \in D!CallRecords /\ q.lead = [r.lead EXCEPT ![r.goal] = 0]
    BY <1>2, <2>1 DEF D!CallRecords
  <2>3. /\ q.pc = "sent" /\ q.ans = r.ans /\ q.goal = r.goal /\ q.wait = r.wait
        /\ q.left = r.left /\ q.dest = r.dest /\ q.proxy = r.proxy
    BY <1>2 DEF D!CallRecords
  <2>. HIDE DEF q
  <2>. QED
    BY <1>2, <2>2, <2>3
<1>. HIDE DEF q
<1>6. /\ calls' \in [Calls -> D!CallRecords] /\ calls'[c] = q
      /\ \A d \in Calls : d # c => calls'[d] = calls[d]
  BY <1>2, <1>4, <1>5
<1>7. m \in ChanRecords /\ m.sent /\ m.val = r.ans
  BY <1>2, CallFacts DEF ChanRecords
<1>. HIDE DEF m
<1>8. /\ chans' \in [D!ChanIds -> ChanRecords] /\ chans'[i] = m
      /\ \A j \in D!ChanIds : j # i => chans'[j] = chans[j]
  BY <1>1, <1>2, <1>3, <1>7
<1>9. \A d \in Calls :
         /\ calls'[d].wait = calls[d].wait /\ calls'[d].goal = calls[d].goal
         /\ D!NameOf(calls'[d]) = D!NameOf(calls[d])
         /\ \A g \in D!Goals : D!LeadName(d, g)' = D!LeadName(d, g)
  BY <1>5, <1>6 DEF D!NameOf, D!LeadName
<1>10. \A d \in Calls, g \in D!Goals :
          calls'[d].lead[g] = IF <<d, g>> = <<c, r.goal>> THEN 0 ELSE calls[d].lead[g]
  BY <1>5, <1>6
<1>11. \A d \in Calls, g \in D!Goals : calls'[d].lead[g] # 0 =>
          calls'[d].lead[g] = calls[d].lead[g] /\ <<d, g>> # <<c, r.goal>>
  BY <1>10
<1>12. \A d \in Calls, g \in D!Goals : <<d, g>> # <<c, r.goal>> => (D!Holds(d, g)' <=> D!Holds(d, g))
  <2>. SUFFICES ASSUME NEW d \in Calls, NEW g \in D!Goals, <<d, g>> # <<c, r.goal>>
                PROVE  D!Holds(d, g)' <=> D!Holds(d, g)
    OBVIOUS
  <2>1. CASE d # c
    BY <1>6, <2>1 DEF D!Holds
  <2>2. CASE d = c /\ g # r.goal
    BY <1>5, <1>6, <2>2 DEF D!Holds
  <2>. QED
    BY <2>1, <2>2
\* The flight is no longer in the table.
<1>13. D!LeadName(c, r.goal) \in D!Names /\ D!Route(r.goal) \in D!Routes /\ inflight[D!Route(r.goal)][D!LeadName(c, r.goal)] # i
  BY <1>1, <1>3, LeadNamed DEF D!IInv, D!LeadersHold, D!Holds, D!Route, D!Routes
<1>14. PICK ti \in D!Routes \X (D!Names \union {D!None}) : D!Uses(i, ti)
  BY <1>3 DEF D!IInv, D!ChansNamed
<1>15. ti = <<D!Route(r.goal), D!LeadName(c, r.goal)>>
  BY <1>3, <1>14 DEF D!Uses
<1>16. \A s \in D!Routes, n \in D!Names : inflight[s][n] # i
  <2>. SUFFICES ASSUME NEW s \in D!Routes, NEW n \in D!Names, inflight[s][n] = i
                PROVE  FALSE
    OBVIOUS
  <2>1. ti = <<s, n>>
    BY <1>14 DEF D!Uses
  <2>. QED
    BY <1>13, <1>15, <2>1
<1>17. r.ans.via \in {D!None, D!Route(r.goal)} /\ (r.ans.via # D!None => r.ans.ok /\ r.ans.at = dialNow)
  BY <1>1, <1>2 DEF D!Current
<1>18. D!CallsSound'
  <2>1. D!Sound(q)
    BY <1>1, <1>2, <1>5 DEF D!Sound, D!Busy, D!Leading, D!NameOf
  <2>2. D!Current(q)
    BY <1>1, <1>2, <1>5 DEF D!Current
  <2>3. \A d \in Calls : D!Sound(calls'[d]) /\ D!Current(calls'[d])
    BY <1>6, <2>1, <2>2 DEF D!IInv, D!CallsSound
  <2>. QED
    BY <1>1, <2>3 DEF D!CallsSound, D!Sound, D!Current
<1>19. D!ChansNamed'
  <2>. SUFFICES ASSUME NEW j \in D!ChanIds
                PROVE  \E t \in D!Routes \X (D!Names \union {D!None}) : D!Uses(j, t)'
    BY DEF D!ChansNamed
  <2>1. PICK t \in D!Routes \X (D!Names \union {D!None}) : D!Uses(j, t)
    BY DEF D!IInv, D!ChansNamed
  <2>2. j # 0
    BY DEF D!ChanIds
  <2>3. /\ \A s \in D!Routes, n \in D!Names : inflight'[s][n] = j => t = <<s, n>>
        /\ \A d \in Calls, g \in D!Goals : calls'[d].lead[g] = j => t = <<D!Route(g), D!LeadName(d, g)'>>
        /\ \A d \in Calls : calls'[d].wait = j => t = <<D!Route(calls'[d].goal), D!NameOf(calls'[d])>>
    <3>1. \A s \in D!Routes, n \in D!Names : inflight'[s][n] = j => t = <<s, n>>
      BY <1>0, <2>1 DEF D!Uses
    <3>2. \A d \in Calls, g \in D!Goals : calls'[d].lead[g] = j => t = <<D!Route(g), D!LeadName(d, g)'>>
      BY <1>9, <1>11, <2>1, <2>2 DEF D!Uses
    <3>3. \A d \in Calls : calls'[d].wait = j => t = <<D!Route(calls'[d].goal), D!NameOf(calls'[d])>>
      BY <1>9, <2>1 DEF D!Uses
    <3>. QED
      BY <3>1, <3>2, <3>3
  <2>4. chans'[j].sent => chans'[j].val.via \in {D!None, t[1]} /\ (chans'[j].val.via # D!None => chans'[j].val.ok)
    <3>1. CASE j # i
      BY <1>8, <2>1, <3>1 DEF D!Uses
    <3>2. CASE j = i
      <4>1. t = <<D!Route(r.goal), D!LeadName(c, r.goal)>>
        BY <1>3, <2>1, <3>2 DEF D!Uses
      <4>2. t[1] = D!Route(r.goal)
        BY <4>1
      <4>. QED
        BY <1>7, <1>8, <1>17, <3>2, <4>2
    <3>. QED
      BY <3>1, <3>2
  <2>5. D!Uses(j, t)'
    BY <2>3, <2>4 DEF D!Uses, D!NameOf, D!Route
  <2>. QED
    BY <2>5
<1>20. D!OneLeader'
  BY <1>11 DEF D!IInv, D!OneLeader
<1>21. D!LeadersHold'
  <2>. SUFFICES ASSUME NEW d \in Calls, NEW g \in D!Goals, calls'[d].lead[g] # 0
                PROVE  /\ D!Holds(d, g)' => inflight'[D!Route(g)][D!LeadName(d, g)'] = calls'[d].lead[g]
                       /\ ~D!Holds(d, g)' => inflight'[D!Route(g)][D!LeadName(d, g)'] # calls'[d].lead[g]
    BY DEF D!LeadersHold, D!Holds, D!Route
  <2>1. /\ D!Holds(d, g) => inflight[D!Route(g)][D!LeadName(d, g)] = calls[d].lead[g]
        /\ ~D!Holds(d, g) => inflight[D!Route(g)][D!LeadName(d, g)] # calls[d].lead[g]
    BY <1>11 DEF D!IInv, D!LeadersHold
  <2>. QED
    BY <1>1, <1>9, <1>11, <1>12, <2>1, ZenonT(60)
<1>22. D!FlightsOpen'
  <2>. SUFFICES ASSUME NEW s \in D!Routes, NEW n \in D!Names, inflight[s][n] # 0
                PROVE  ~chans'[inflight[s][n]].sent
    BY <1>1 DEF D!FlightsOpen
  <2>1. inflight[s][n] \in D!ChanIds /\ inflight[s][n] # i
    BY <1>16 DEF D!IInv, D!Types, D!ChansOrNone
  <2>. QED
    BY <1>8, <2>1 DEF D!IInv, D!FlightsOpen
<1>23. D!AnswersPrompt'
  <2>. SUFFICES ASSUME NEW d \in Calls, calls'[d].pc = "waiting", chans'[calls'[d].wait].sent,
                       chans'[calls'[d].wait].val.via # D!None
                PROVE  chans'[calls'[d].wait].val.at = dialNow
    BY <1>1 DEF D!AnswersPrompt
  <2>1. d # c /\ calls'[d] = calls[d]
    BY <1>5, <1>6
  <2>2. calls[d].wait \in D!ChanIds
    BY <2>1, CallFacts DEF D!Sound, D!ChansOrNone
  <2>3. CASE calls[d].wait = i
    BY <1>7, <1>8, <1>17, <2>1, <2>3
  <2>4. CASE calls[d].wait # i
    BY <1>8, <2>1, <2>2, <2>4 DEF D!IInv, D!AnswersPrompt
  <2>. QED
    BY <2>3, <2>4
<1>24. D!FlightsHaveLeaders'
  <2>. SUFFICES ASSUME NEW s \in D!Routes, NEW n \in D!Names, inflight[s][n] # 0, <<s, n>> \notin abandoned
                PROVE  \E d \in Calls, g \in D!Goals : calls'[d].lead[g] = inflight[s][n]
    BY <1>0 DEF D!FlightsHaveLeaders
  <2>1. PICK d \in Calls, g \in D!Goals : calls[d].lead[g] = inflight[s][n]
    BY DEF D!IInv, D!FlightsHaveLeaders
  <2>2. <<d, g>> # <<c, r.goal>>
    BY <1>16, <2>1
  <2>. QED
    BY <1>10, <2>1, <2>2
<1>25. D!Types' /\ D!CachesBounded' /\ D!NoDnsLeak' /\ D!CachesSound'
  BY <1>1, <1>6, <1>8 DEF D!IInv, D!Types, D!CachesBounded, D!NoDnsLeak, D!CachesSound, ChanRecords
<1>. QED
  BY <1>18, <1>19, <1>20, <1>21, <1>22, <1>23, <1>24, <1>25, IInvFromParts DEF Flights

\* There is always a channel nobody holds: a task holds at most one it waits on, one for
\* the flight of its goal and one for a WARP lookup, and a name at most one on each route.
LEMMA NewChanFree ==
    ASSUME D!DialAssumption, D!IInv, NEW c \in Calls, calls[c].wait = 0
    PROVE  D!NewChan \in D!ChanIds /\ ~D!InUse(D!NewChan)
<1>. DEFINE direct == inflight["Direct"]
            warp == inflight["Warp"]
            waits == [d \in Calls |-> calls[d].wait]
            dests == [d \in Calls |-> calls[d].lead["dest"]]
            goals == [d \in Calls |-> calls[d].lead[calls[d].goal]]
            OnDirect == {direct[n] : n \in D!Names}
            OnWarp == {warp[n] : n \in D!Names}
            T == {waits[d] : d \in Calls}
            E == {dests[d] : d \in Calls}
            G == {goals[d] : d \in Calls}
            nc == Cardinality(Calls)
            nn == Cardinality(D!Names)
            S == (OnDirect \union OnWarp) \union ((T \union E) \union G)
<1>1. IsFiniteSet(Calls) /\ IsFiniteSet(D!Names) /\ nc \in Nat /\ nn \in Nat
  BY NamesFinite, FS_CardinalityType, DialSets DEF D!DialAssumption
<1>2. 0 \in S
  BY DEF T
<1>3. \A i \in D!ChanIds : D!InUse(i) => i \in S
  <2>. SUFFICES ASSUME NEW i \in D!ChanIds, D!InUse(i)
                PROVE  i \in S
    OBVIOUS
  <2>1. CASE \E s \in D!Routes, n \in D!Names : inflight[s][n] = i
    BY <2>1 DEF D!Routes
  <2>2. CASE \E d \in Calls : calls[d].wait = i
    <3>1. PICK d \in Calls : calls[d].wait = i
      BY <2>2
    <3>2. waits[d] = i
      BY <3>1
    <3>. HIDE DEF waits
    <3>. QED
      BY <3>2
  <2>3. CASE \E d \in Calls, g \in D!Goals : calls[d].lead[g] = i
    <3>1. PICK d \in Calls, g \in D!Goals : calls[d].lead[g] = i
      BY <2>3
    <3>2. g = "dest" \/ g = calls[d].goal
      <4>1. i # 0 /\ D!Sound(calls[d])
        BY CallFacts DEF D!ChanIds
      <4>. QED
        BY <3>1, <4>1 DEF D!Sound
    <3>3. dests[d] = i \/ goals[d] = i
      BY <3>1, <3>2
    <3>. HIDE DEF dests, goals
    <3>. QED
      BY <3>3
  <2>. QED
    BY <2>1, <2>2, <2>3 DEF D!InUse
<1>4. IsFiniteSet(OnDirect) /\ Cardinality(OnDirect) <= nn /\ IsFiniteSet(OnWarp) /\ Cardinality(OnWarp) <= nn
  <2>. HIDE DEF direct, warp
  <2>. QED
    BY <1>1, ImageFinite
<1>5. /\ IsFiniteSet(T) /\ Cardinality(T) <= nc /\ IsFiniteSet(E) /\ Cardinality(E) <= nc
      /\ IsFiniteSet(G) /\ Cardinality(G) <= nc
  <2>. HIDE DEF waits, dests, goals
  <2>. QED
    BY <1>1, ImageFinite
<1>. HIDE DEF OnDirect, OnWarp, T, E, G, nc, nn
<1>6. IsFiniteSet(S) /\ Cardinality(S) <= 3 * nc + 2 * nn
  <2>0. ASSUME NEW A, NEW B, IsFiniteSet(A), IsFiniteSet(B)
        PROVE  /\ IsFiniteSet(A \union B) /\ Cardinality(A \union B) <= Cardinality(A) + Cardinality(B)
               /\ Cardinality(A) \in Nat /\ Cardinality(B) \in Nat /\ Cardinality(A \union B) \in Nat
    <3>1. IsFiniteSet(A \union B) /\ IsFiniteSet(A \cap B)
      BY <2>0, FS_Union, FS_Intersection
    <3>2. Cardinality(A \union B) = Cardinality(A) + Cardinality(B) - Cardinality(A \cap B)
      BY <2>0, FS_Union
    <3>3. Cardinality(A) \in Nat /\ Cardinality(B) \in Nat /\ Cardinality(A \union B) \in Nat /\ Cardinality(A \cap B) \in Nat
      BY <2>0, <3>1, FS_CardinalityType
    <3>. QED
      BY <3>1, <3>2, <3>3
  <2>. DEFINE DW == OnDirect \union OnWarp
              TE == T \union E
              TEG == TE \union G
  <2>1. IsFiniteSet(DW) /\ Cardinality(DW) \in Nat /\ Cardinality(DW) <= 2 * nn
    <3>1. /\ IsFiniteSet(DW) /\ Cardinality(DW) <= Cardinality(OnDirect) + Cardinality(OnWarp)
          /\ Cardinality(OnDirect) \in Nat /\ Cardinality(OnWarp) \in Nat /\ Cardinality(DW) \in Nat
      BY <1>4, <2>0
    <3>. QED
      BY <1>1, <1>4, <3>1
  <2>2. IsFiniteSet(TE) /\ Cardinality(TE) \in Nat /\ Cardinality(TE) <= 2 * nc
    <3>1. /\ IsFiniteSet(TE) /\ Cardinality(TE) <= Cardinality(T) + Cardinality(E)
          /\ Cardinality(T) \in Nat /\ Cardinality(E) \in Nat /\ Cardinality(TE) \in Nat
      BY <1>5, <2>0
    <3>. QED
      BY <1>1, <1>5, <3>1
  <2>. HIDE DEF TE, DW
  <2>3. IsFiniteSet(TEG) /\ Cardinality(TEG) \in Nat /\ Cardinality(TEG) <= 3 * nc
    <3>1. /\ IsFiniteSet(TEG) /\ Cardinality(TEG) <= Cardinality(TE) + Cardinality(G)
          /\ Cardinality(G) \in Nat /\ Cardinality(TEG) \in Nat
      BY <1>5, <2>0, <2>2
    <3>. QED
      BY <1>1, <1>5, <2>2, <3>1
  <2>4. S = DW \union TEG
    BY DEF DW, TEG, TE
  <2>. HIDE DEF S, TEG
  <2>5. IsFiniteSet(S) /\ Cardinality(S) <= Cardinality(DW) + Cardinality(TEG) /\ Cardinality(S) \in Nat
    BY <2>0, <2>1, <2>3, <2>4
  <2>. QED
    BY <1>1, <2>1, <2>3, <2>5
<1>. HIDE DEF S
<1>7. \E i \in D!ChanIds : ~D!InUse(i)
  <2>. SUFFICES ASSUME \A i \in D!ChanIds : D!InUse(i)
                PROVE  FALSE
    OBVIOUS
  <2>. DEFINE k == 3 * nc + 2 * nn
  <2>1. k \in Nat /\ D!ChanIds = 1..k
    BY <1>1, DialSets DEF D!ChanIds, nc, nn
  <2>. HIDE DEF k
  <2>2. 0..k \in SUBSET S
    BY <1>2, <1>3, <2>1
  <2>3. Cardinality(0..k) = k + 1
    BY <2>1, FS_Interval
  <2>4. Cardinality(0..k) <= Cardinality(S)
    BY <1>6, <2>2, FS_Subset
  <2>5. Cardinality(S) \in Nat
    BY <1>6, FS_CardinalityType
  <2>6. Cardinality(S) <= k
    BY <1>6 DEF k
  <2>. QED
    BY <2>1, <2>3, <2>4, <2>5, <2>6
<1>. QED
  BY <1>7 DEF D!NewChan

\* A flight that starts removes an entry that expired.
LEMMA FlightCacheSound ==
    ASSUME D!DialAssumption, D!IInv, NEW route \in D!Routes, NEW name,
           cache' = [cache EXCEPT ![D!CacheOf(route)] = D!Without(@, {name})]
    PROVE  CacheParts' /\ D!CachesBounded' /\ D!CachesSound'
<1>. DEFINE h == D!Without(cache[route], {name})
<1>1. CacheSound(route, cache[route])
  BY CachesSoundEach
<1>2. CacheSound(route, h)
  BY <1>1, WithoutSound
<1>3. cache' = [cache EXCEPT ![route] = h]
  BY DEF D!CacheOf
<1>. HIDE DEF h
<1>. QED
  BY <1>2, <1>3, CacheStep

\* A task waits for the flight of another,
LEMMA FollowIInv ==
    ASSUME D!DialAssumption, D!IInv, NEW c \in Calls, D!ResolveFlight(c), D!FlightOf(calls[c]) # 0
    PROVE  D!IInv'
<1>. DEFINE r == calls[c]
            route == D!Route(r.goal)
            name == D!NameOf(r)
            i == inflight[route][name]
            q == [r EXCEPT !.pc = "waiting", !.wait = i]
<1>1. /\ r.pc = "resolve" /\ name \notin D!Literals
      /\ cache' = [cache EXCEPT ![D!CacheOf(route)] = D!Without(@, {name})]
      /\ calls' = [calls EXCEPT ![c] = q] /\ i # 0
      /\ asked' = asked /\ UNCHANGED <<dialNow, inflight, chans, abandoned>>
  BY DEF D!ResolveFlight, D!FlightOf
<1>2. /\ r \in D!CallRecords /\ D!Sound(r) /\ D!Busy(r)
      /\ calls \in [Calls -> D!CallRecords] /\ inflight \in [D!Routes -> [D!Names -> D!ChansOrNone]]
  BY <1>1, CallFacts DEF D!IInv, D!Types, D!Busy
<1>3. route \in D!Routes /\ name \in D!Names /\ i \in D!ChanIds
  BY <1>1, <1>2, NamedCall DEF D!Route, D!Routes, D!ChansOrNone
<1>. HIDE DEF i
<1>4. /\ q \in D!CallRecords /\ q.pc = "waiting" /\ q.goal = r.goal /\ q.wait = i
      /\ q.left = r.left /\ q.dest = r.dest /\ q.proxy = r.proxy /\ q.lead = r.lead
  <2>1. "waiting" \in D!Pcs /\ i \in D!ChansOrNone
    BY <1>3 DEF D!Pcs, D!ChansOrNone
  <2>. QED
    BY <1>2, <2>1 DEF D!CallRecords
<1>. HIDE DEF q
<1>5. /\ calls' \in [Calls -> D!CallRecords] /\ calls'[c] = q
      /\ \A d \in Calls : d # c => calls'[d] = calls[d]
  BY <1>1, <1>2, <1>4
<1>6. \A d \in Calls :
         /\ calls'[d].lead = calls[d].lead /\ calls'[d].goal = calls[d].goal
         /\ D!NameOf(calls'[d]) = D!NameOf(calls[d])
         /\ \A g \in D!Goals : D!LeadName(d, g)' = D!LeadName(d, g) /\ (D!Holds(d, g)' <=> D!Holds(d, g))
  BY <1>1, <1>4, <1>5 DEF D!NameOf, D!LeadName, D!Holds
<1>7. D!CallsSound'
  <2>1. D!Sound(q)
    <3>1. i # 0
      BY <1>1 DEF i
    <3>. QED
      BY <1>1, <1>2, <1>4, <3>1 DEF D!Sound, D!Busy, D!Leading, D!NameOf
  <2>2. D!Current(q)
    BY <1>4 DEF D!Current
  <2>3. \A d \in Calls : D!Sound(calls'[d]) /\ D!Current(calls'[d])
    BY <1>5, <2>1, <2>2 DEF D!IInv, D!CallsSound
  <2>. QED
    BY <1>1, <2>3 DEF D!CallsSound, D!Sound, D!Current
<1>8. D!ChansNamed'
  <2>. SUFFICES ASSUME NEW j \in D!ChanIds
                PROVE  \E t \in D!Routes \X (D!Names \union {D!None}) : D!Uses(j, t)'
    BY DEF D!ChansNamed
  <2>1. PICK t \in D!Routes \X (D!Names \union {D!None}) : D!Uses(j, t)
    BY DEF D!IInv, D!ChansNamed
  <2>2. \A d \in Calls : calls'[d].wait = j => t = <<D!Route(calls'[d].goal), D!NameOf(calls'[d])>>
    <3>. SUFFICES ASSUME NEW d \in Calls, calls'[d].wait = j
                  PROVE  t = <<D!Route(calls'[d].goal), D!NameOf(calls'[d])>>
      OBVIOUS
    <3>1. CASE d = c
      <4>1. inflight[route][name] = j
        BY <1>4, <1>5, <3>1 DEF i
      <4>2. t = <<route, name>>
        BY <1>3, <2>1, <4>1 DEF D!Uses
      <4>. QED
        BY <1>6, <3>1, <4>2
    <3>2. CASE d # c
      BY <1>5, <2>1, <3>2 DEF D!Uses
    <3>. QED
      BY <3>1, <3>2
  <2>3. D!Uses(j, t)'
    BY <1>1, <1>6, <2>1, <2>2 DEF D!Uses, D!NameOf, D!Route
  <2>. QED
    BY <2>3
<1>9. D!OneLeader'
  BY <1>6 DEF D!IInv, D!OneLeader
<1>10. D!LeadersHold'
  <2>. SUFFICES ASSUME NEW d \in Calls, NEW g \in D!Goals
                PROVE  /\ D!Holds(d, g)' => inflight'[D!Route(g)][D!LeadName(d, g)'] = calls'[d].lead[g]
                       /\ calls'[d].lead[g] # 0 /\ ~D!Holds(d, g)' =>
                             inflight'[D!Route(g)][D!LeadName(d, g)'] # calls'[d].lead[g]
    BY DEF D!LeadersHold, D!Route
  <2>1. /\ D!Holds(d, g) => inflight[D!Route(g)][D!LeadName(d, g)] = calls[d].lead[g]
        /\ calls[d].lead[g] # 0 /\ ~D!Holds(d, g) => inflight[D!Route(g)][D!LeadName(d, g)] # calls[d].lead[g]
    BY DEF D!IInv, D!LeadersHold
  <2>. QED
    BY <1>1, <1>6, <2>1
<1>11. D!FlightsOpen'
  BY <1>1 DEF D!IInv, D!FlightsOpen
<1>12. D!AnswersPrompt'
  <2>. SUFFICES ASSUME NEW d \in Calls, calls'[d].pc = "waiting", chans[calls'[d].wait].sent,
                       chans[calls'[d].wait].val.via # D!None
                PROVE  chans[calls'[d].wait].val.at = dialNow
    BY <1>1 DEF D!AnswersPrompt
  <2>1. CASE d = c
    <3>1. ~chans[i].sent
      BY <1>1, <1>3 DEF D!IInv, D!FlightsOpen, i
    <3>. QED
      BY <1>4, <1>5, <2>1, <3>1
  <2>2. CASE d # c
    BY <1>5, <2>2 DEF D!IInv, D!AnswersPrompt
  <2>. QED
    BY <2>1, <2>2
<1>13. D!FlightsHaveLeaders'
  BY <1>1, <1>6 DEF D!IInv, D!FlightsHaveLeaders
<1>14. CacheParts' /\ D!CachesBounded' /\ D!CachesSound'
  BY <1>1, <1>3, FlightCacheSound
<1>15. D!Types' /\ D!NoDnsLeak'
  BY <1>1, <1>5, <1>14 DEF D!IInv, D!Types, D!NoDnsLeak, CacheParts
<1>. QED
  BY <1>7, <1>8, <1>9, <1>10, <1>11, <1>12, <1>13, <1>14, <1>15, IInvFromParts DEF Flights

\* The task that leads a flight: at the system resolver, or on its way to a DNS server.
LeaderOf(r, i) ==
    LET led == [r EXCEPT !.lead[r.goal] = i] IN
    IF D!Route(r.goal) = "Direct" THEN [led EXCEPT !.pc = "lookup"] ELSE D!NextServer([led EXCEPT !.srv = 0])

\* or takes a flight of its own: its record
LEMMA Leader ==
    ASSUME D!DialAssumption, D!IInv, NEW c \in Calls, calls[c].pc = "resolve", D!NameOf(calls[c]) \notin D!Literals,
           NEW i \in D!ChanIds, NEW q, q = LeaderOf(calls[c], i)
    PROVE  /\ q \in D!CallRecords /\ D!Sound(q) /\ D!Current(q) /\ q.wait = 0 /\ q.pc \in {"lookup", "resolve"}
           /\ q.dest = calls[c].dest /\ q.proxy = calls[c].proxy
           /\ \A g \in D!Goals : q.lead[g] = IF g = calls[c].goal THEN i ELSE calls[c].lead[g]
<1>. DEFINE r == calls[c]
            lead == [r.lead EXCEPT ![r.goal] = i]
            led == [r EXCEPT !.lead = lead]
<1>1. /\ r \in D!CallRecords /\ D!Sound(r) /\ D!Busy(r) /\ ~D!Leading(r) /\ r.goal \in D!Goals /\ r.wait = 0
      /\ r.lead \in [D!Goals -> D!ChansOrNone] /\ i # 0
  BY CallFacts DEF D!Busy, D!Sound, D!Leading, D!ChanIds
<1>2. lead \in D!Leads /\ \A g \in D!Goals : lead[g] = IF g = r.goal THEN i ELSE r.lead[g]
  BY <1>1 DEF D!Leads, D!ChansOrNone
<1>3. led = [calls[c] EXCEPT !.lead[calls[c].goal] = i]
  BY <1>1 DEF D!CallRecords
<1>. HIDE DEF lead
<1>4. /\ led \in D!CallRecords /\ led.pc = r.pc /\ led.goal = r.goal /\ led.wait = 0 /\ led.left = r.left
      /\ led.dest = r.dest /\ led.proxy = r.proxy /\ led.lead = lead /\ led.srv = r.srv
  BY <1>1, <1>2 DEF D!CallRecords
<1>. HIDE DEF led
<1>5. CASE D!Route(r.goal) = "Direct"
  <2>1. q = [led EXCEPT !.pc = "lookup"]
    BY <1>3, <1>5 DEF LeaderOf
  <2>2. /\ q \in D!CallRecords /\ q.pc = "lookup" /\ q.goal = r.goal /\ q.wait = 0 /\ q.left = r.left
        /\ q.dest = r.dest /\ q.proxy = r.proxy /\ q.lead = lead
    <3>1. "lookup" \in D!Pcs
      BY DEF D!Pcs
    <3>. QED
      BY <1>4, <2>1, <3>1 DEF D!CallRecords
  <2>3. r.goal # "dest"
    BY <1>5 DEF D!Route
  <2>4. D!Sound(q)
    BY <1>1, <1>2, <2>2, <2>3 DEF D!Sound, D!Busy, D!Leading, D!NameOf
  <2>5. D!Current(q)
    BY <2>2 DEF D!Current
  <2>. QED
    BY <1>2, <2>2, <2>4, <2>5
<1>6. CASE D!Route(r.goal) # "Direct"
  <2>0. r.goal = "dest"
    BY <1>1, <1>6 DEF D!Route
  <2>. DEFINE l0 == [led EXCEPT !.srv = 0]
              g0 == D!Goto(l0, "dns")
  <2>1. /\ l0 \in D!CallRecords /\ l0.left = r.left /\ l0.srv = 0
        /\ l0.dest = r.dest /\ l0.proxy = r.proxy /\ l0.lead = lead
    <3>1. 0 \in D!Servers
      BY DEF D!Servers, D!DnsServers
    <3>. QED
      BY <1>4, <3>1 DEF D!CallRecords
  <2>2. q = D!NextServer(l0)
    BY <1>3, <1>6 DEF LeaderOf
  <2>. HIDE DEF l0
  <2>3. /\ g0 \in D!CallRecords
        /\ g0.pc = "resolve" /\ g0.goal = "dns" /\ g0.wait = 0
        /\ g0.dest = r.dest /\ g0.proxy = r.proxy /\ g0.lead = lead /\ g0.left = r.left /\ g0.srv = 0
    BY <2>1, FieldsOfGoto DEF D!Goals
  <2>4. q = [g0 EXCEPT !.srv = @ + 1, !.left = 0]
    BY <2>1, <2>2 DEF D!NextServer, D!DnsServers, g0
  <2>. HIDE DEF g0
  <2>5. /\ q \in D!CallRecords /\ q.pc = "resolve" /\ q.goal = "dns" /\ q.wait = 0 /\ q.left = 0
        /\ q.dest = r.dest /\ q.proxy = r.proxy /\ q.lead = lead
    <3>1. 0 + 1 \in D!Servers /\ 0 \in Nat
      BY DEF D!Servers, D!DnsServers
    <3>. QED
      BY <2>3, <2>4, <3>1, ZenonT(60) DEF D!CallRecords
  <2>6. D!Sound(q)
    <3>1. 1 \in Sizes \union {1} /\ 0 <= 1
      OBVIOUS
    <3>2. \A g \in D!Goals : lead[g] # 0 <=> g = "dest"
      BY <1>1, <1>2, <2>0 DEF D!Sound
    <3>3. /\ r.dest # D!None /\ r.proxy # D!NoProxy /\ r.dest \notin D!Literals /\ (r.proxy.host = D!None => r.proxy = D!NoProxy)
      BY <1>1, <2>0 DEF D!Sound
    <3>4. \A g \in D!Goals : q.lead[g] # 0 <=> (g = q.goal /\ D!Leading(q)) \/ (g = "dest" /\ q.goal = "dns")
      BY <2>5, <3>2 DEF D!Leading
    <3>5. D!Busy(q) /\ ~D!Leading(q) /\ q.goal \in D!Goals /\ q.dest # D!None /\ (q.goal = "direct" <=> q.proxy = D!NoProxy)
      BY <2>5, <3>3 DEF D!Busy, D!Leading, D!Goals
    <3>. QED
      BY <2>5, <3>1, <3>3, <3>4, <3>5 DEF D!Sound
  <2>7. D!Current(q)
    BY <2>5 DEF D!Current
  <2>. QED
    BY <1>2, <2>5, <2>6, <2>7
<1>. QED
  BY <1>5, <1>6

\* and the step.
LEMMA LeadIInv ==
    ASSUME D!DialAssumption, D!IInv, NEW c \in Calls, D!ResolveFlight(c), D!FlightOf(calls[c]) = 0
    PROVE  D!IInv'
<1>. DEFINE r == calls[c]
            route == D!Route(r.goal)
            name == D!NameOf(r)
            i == D!NewChan
            q == LeaderOf(r, i)
<1>1. /\ r.pc = "resolve" /\ name \notin D!Literals /\ inflight[route][name] = 0
      /\ cache' = [cache EXCEPT ![D!CacheOf(route)] = D!Without(@, {name})]
      /\ chans' = [chans EXCEPT ![i] = D!Quiet]
      /\ inflight' = [inflight EXCEPT ![route][name] = i]
      /\ calls' = [calls EXCEPT ![c] = q]
      /\ UNCHANGED <<dialNow, abandoned>>
  BY DEF D!ResolveFlight, D!FlightOf, LeaderOf
<1>2. asked' = asked \union (IF route = "Direct" THEN {[proxy |-> r.proxy.host, name |-> name]} ELSE {})
  BY DEF D!ResolveFlight
<1>3. /\ r \in D!CallRecords /\ D!Sound(r) /\ D!Busy(r) /\ r.wait = 0 /\ r.goal \in D!Goals /\ r.lead[r.goal] = 0
      /\ calls \in [Calls -> D!CallRecords] /\ inflight \in [D!Routes -> [D!Names -> D!ChansOrNone]]
      /\ chans \in [D!ChanIds -> ChanRecords]
  BY <1>1, CallFacts DEF D!IInv, D!Types, D!Busy, D!Sound, D!Leading, ChanRecords
<1>4. i \in D!ChanIds /\ ~D!InUse(i)
  BY <1>3, NewChanFree
<1>5. route \in D!Routes /\ name \in D!Names
  BY <1>1, <1>3, NamedCall DEF D!Route, D!Routes
<1>. HIDE DEF i
<1>6. /\ q \in D!CallRecords /\ D!Sound(q) /\ D!Current(q) /\ q.wait = 0 /\ q.pc \in {"lookup", "resolve"}
      /\ q.dest = r.dest /\ q.proxy = r.proxy
      /\ \A g \in D!Goals : q.lead[g] = IF g = r.goal THEN i ELSE r.lead[g]
  BY <1>1, <1>4, Leader
<1>. HIDE DEF q
<1>7. /\ calls' \in [Calls -> D!CallRecords] /\ calls'[c] = q
      /\ \A d \in Calls : d # c => calls'[d] = calls[d]
  BY <1>1, <1>3, <1>6
<1>8. /\ \A s \in D!Routes, n \in D!Names : inflight[s][n] # i
      /\ \A d \in Calls : calls[d].wait # i
      /\ \A d \in Calls, g \in D!Goals : calls[d].lead[g] # i
  BY <1>4 DEF D!InUse
<1>9. /\ inflight' \in [D!Routes -> [D!Names -> D!ChansOrNone]] /\ inflight'[route][name] = i
      /\ \A s \in D!Routes, n \in D!Names : <<s, n>> # <<route, name>> => inflight'[s][n] = inflight[s][n]
  BY <1>1, <1>3, <1>4, <1>5 DEF D!ChansOrNone
<1>10. /\ chans' \in [D!ChanIds -> ChanRecords] /\ ~chans'[i].sent
       /\ \A j \in D!ChanIds : j # i => chans'[j] = chans[j]
  <2>1. D!Quiet \in ChanRecords /\ ~D!Quiet.sent
    BY DEF D!Quiet, ChanRecords, D!Err, D!Answers
  <2>. QED
    BY <1>1, <1>3, <1>4, <2>1
<1>11. i # 0
  BY <1>4 DEF D!ChanIds
<1>12. \A d \in Calls, g \in D!Goals :
          calls'[d].lead[g] = IF <<d, g>> = <<c, r.goal>> THEN i ELSE calls[d].lead[g]
  BY <1>6, <1>7
<1>13. /\ \A d \in Calls, g \in D!Goals : D!LeadName(d, g)' = D!LeadName(d, g)
       /\ \A d \in Calls, g \in D!Goals : <<d, g>> # <<c, r.goal>> => (D!Holds(d, g)' <=> D!Holds(d, g))
       /\ D!LeadName(c, r.goal) = name
       /\ \A d \in Calls, g \in D!Goals : <<d, g>> = <<c, r.goal>> => D!Holds(d, g)'
  <2>1. \A d \in Calls, g \in D!Goals : D!LeadName(d, g)' = D!LeadName(d, g)
    BY <1>6, <1>7 DEF D!LeadName
  <2>2. \A d \in Calls, g \in D!Goals : <<d, g>> # <<c, r.goal>> => (D!Holds(d, g)' <=> D!Holds(d, g))
    BY <1>1, <1>6, <1>7, <1>12 DEF D!Holds
  <2>3. D!LeadName(c, r.goal) = name
    BY DEF D!LeadName, D!NameOf
  <2>4. \A d \in Calls, g \in D!Goals : <<d, g>> = <<c, r.goal>> => D!Holds(d, g)'
    BY <1>3, <1>6, <1>7, <1>11 DEF D!Holds
  <2>. QED
    BY <2>1, <2>2, <2>3, <2>4
<1>14. \A d \in Calls : calls'[d].wait # 0 => d # c /\ calls'[d] = calls[d]
  BY <1>6, <1>7
<1>15. D!CallsSound'
  <2>1. \A d \in Calls : D!Sound(calls'[d]) /\ D!Current(calls'[d])
    BY <1>6, <1>7 DEF D!IInv, D!CallsSound
  <2>. QED
    BY <1>1, <2>1 DEF D!CallsSound, D!Sound, D!Current
<1>16. D!ChansNamed'
  <2>. SUFFICES ASSUME NEW j \in D!ChanIds
                PROVE  \E t \in D!Routes \X (D!Names \union {D!None}) : D!Uses(j, t)'
    BY DEF D!ChansNamed
  <2>0. j # 0
    BY DEF D!ChanIds
  <2>1. CASE j = i
    <3>0. PICK t : t = <<route, name>>
      OBVIOUS
    <3>1. /\ \A s \in D!Routes, n \in D!Names : inflight'[s][n] = j => t = <<s, n>>
          /\ \A d \in Calls, g \in D!Goals : calls'[d].lead[g] = j => t = <<D!Route(g), D!LeadName(d, g)'>>
          /\ \A d \in Calls : calls'[d].wait # j
          /\ ~chans'[j].sent
      <4>1. \A s \in D!Routes, n \in D!Names : inflight'[s][n] = j => t = <<s, n>>
        BY <1>8, <1>9, <2>1, <3>0
      <4>2. \A d \in Calls, g \in D!Goals : calls'[d].lead[g] = j => t = <<D!Route(g), D!LeadName(d, g)'>>
        BY <1>8, <1>12, <1>13, <2>1, <3>0
      <4>3. \A d \in Calls : calls'[d].wait # j
        BY <1>8, <1>14, <2>0, <2>1
      <4>. QED
        BY <1>10, <2>1, <4>1, <4>2, <4>3
    <3>2. t \in D!Routes \X (D!Names \union {D!None})
      BY <1>5, <3>0
    <3>3. D!Uses(j, t)'
      BY <3>1 DEF D!Uses, D!NameOf, D!Route
    <3>. QED
      BY <3>2, <3>3
  <2>2. CASE j # i
    <3>1. PICK t \in D!Routes \X (D!Names \union {D!None}) : D!Uses(j, t)
      BY DEF D!IInv, D!ChansNamed
    <3>2. /\ \A s \in D!Routes, n \in D!Names : inflight'[s][n] = j => t = <<s, n>>
          /\ \A d \in Calls, g \in D!Goals : calls'[d].lead[g] = j => t = <<D!Route(g), D!LeadName(d, g)'>>
          /\ \A d \in Calls : calls'[d].wait = j => t = <<D!Route(calls'[d].goal), D!NameOf(calls'[d])>>
      <4>1. \A s \in D!Routes, n \in D!Names : inflight'[s][n] = j => t = <<s, n>>
        BY <1>9, <2>2, <3>1 DEF D!Uses
      <4>2. \A d \in Calls, g \in D!Goals : calls'[d].lead[g] = j => t = <<D!Route(g), D!LeadName(d, g)'>>
        BY <1>12, <1>13, <2>2, <3>1 DEF D!Uses
      <4>3. \A d \in Calls : calls'[d].wait = j => t = <<D!Route(calls'[d].goal), D!NameOf(calls'[d])>>
        BY <1>14, <2>0, <3>1 DEF D!Uses
      <4>. QED
        BY <4>1, <4>2, <4>3
    <3>3. chans'[j].sent => chans'[j].val.via \in {D!None, t[1]} /\ (chans'[j].val.via # D!None => chans'[j].val.ok)
      BY <1>10, <2>2, <3>1 DEF D!Uses
    <3>4. D!Uses(j, t)'
      BY <3>2, <3>3 DEF D!Uses, D!NameOf, D!Route
    <3>. QED
      BY <3>4
  <2>. QED
    BY <2>1, <2>2
<1>17. D!OneLeader'
  BY <1>8, <1>12 DEF D!IInv, D!OneLeader
<1>18. D!LeadersHold'
  <2>. SUFFICES ASSUME NEW d \in Calls, NEW g \in D!Goals, calls'[d].lead[g] # 0
                PROVE  /\ D!Holds(d, g)' => inflight'[D!Route(g)][D!LeadName(d, g)'] = calls'[d].lead[g]
                       /\ ~D!Holds(d, g)' => inflight'[D!Route(g)][D!LeadName(d, g)'] # calls'[d].lead[g]
    BY DEF D!LeadersHold, D!Holds, D!Route
  <2>1. CASE <<d, g>> = <<c, r.goal>>
    BY <1>9, <1>12, <1>13, <2>1
  <2>2. CASE <<d, g>> # <<c, r.goal>>
    <3>1. calls[d].lead[g] # 0 /\ calls'[d].lead[g] = calls[d].lead[g] /\ calls[d].lead[g] # i
      BY <1>8, <1>12, <2>2
    <3>2. D!LeadName(d, g) \in D!Names /\ D!Route(g) \in D!Routes
      BY <3>1, LeadNamed DEF D!Route, D!Routes
    <3>3. /\ D!Holds(d, g) => inflight[D!Route(g)][D!LeadName(d, g)] = calls[d].lead[g]
          /\ ~D!Holds(d, g) => inflight[D!Route(g)][D!LeadName(d, g)] # calls[d].lead[g]
      BY <3>1 DEF D!IInv, D!LeadersHold
    <3>4. D!Holds(d, g) => <<D!Route(g), D!LeadName(d, g)>> # <<route, name>>
      BY <1>1, <3>1, <3>3
    <3>. QED
      BY <1>9, <1>13, <2>2, <3>1, <3>2, <3>3, <3>4
  <2>. QED
    BY <2>1, <2>2
<1>19. D!FlightsOpen'
  <2>. SUFFICES ASSUME NEW s \in D!Routes, NEW n \in D!Names, inflight'[s][n] # 0
                PROVE  ~chans'[inflight'[s][n]].sent
    BY DEF D!FlightsOpen
  <2>1. CASE <<s, n>> = <<route, name>>
    BY <1>9, <1>10, <2>1
  <2>2. CASE <<s, n>> # <<route, name>>
    <3>1. inflight'[s][n] = inflight[s][n] /\ inflight[s][n] # i /\ inflight[s][n] \in D!ChanIds
      BY <1>3, <1>8, <1>9, <2>2 DEF D!ChansOrNone
    <3>. QED
      BY <1>10, <3>1 DEF D!IInv, D!FlightsOpen
  <2>. QED
    BY <2>1, <2>2
<1>20. D!AnswersPrompt'
  <2>. SUFFICES ASSUME NEW d \in Calls, calls'[d].pc = "waiting", chans'[calls'[d].wait].sent,
                       chans'[calls'[d].wait].val.via # D!None
                PROVE  chans'[calls'[d].wait].val.at = dialNow
    BY <1>1 DEF D!AnswersPrompt
  <2>1. calls'[d] = calls[d]
    BY <1>6, <1>7
  <2>2. calls[d].wait \in D!ChanIds /\ calls[d].wait # i
    BY <1>8, <2>1, CallFacts DEF D!Sound, D!ChansOrNone
  <2>. QED
    BY <1>10, <2>1, <2>2 DEF D!IInv, D!AnswersPrompt
<1>21. D!FlightsHaveLeaders'
  <2>. SUFFICES ASSUME NEW s \in D!Routes, NEW n \in D!Names, inflight'[s][n] # 0, <<s, n>> \notin abandoned
                PROVE  \E d \in Calls, g \in D!Goals : calls'[d].lead[g] = inflight'[s][n]
    BY <1>1 DEF D!FlightsHaveLeaders
  <2>1. CASE <<s, n>> = <<route, name>>
    BY <1>3, <1>9, <1>12, <2>1
  <2>2. CASE <<s, n>> # <<route, name>>
    <3>1. inflight'[s][n] = inflight[s][n]
      BY <1>9, <2>2
    <3>2. PICK d \in Calls, g \in D!Goals : calls[d].lead[g] = inflight[s][n]
      BY <3>1 DEF D!IInv, D!FlightsHaveLeaders
    <3>3. <<d, g>> # <<c, r.goal>>
      BY <1>3, <3>1, <3>2
    <3>. QED
      BY <1>12, <3>1, <3>2, <3>3
  <2>. QED
    BY <2>1, <2>2
<1>22. CacheParts' /\ D!CachesBounded' /\ D!CachesSound'
  BY <1>1, <1>5, FlightCacheSound
<1>23. D!NoDnsLeak'
  <2>1. r.proxy.host # D!None /\ route = "Direct" => name = r.proxy.host
    <3>1. r.goal = "direct" => r.proxy.host = D!None
      BY <1>3 DEF D!Sound, D!NoProxy
    <3>. QED
      BY <1>3, <3>1 DEF D!Route, D!NameOf, D!Goals
  <2>. SUFFICES ASSUME NEW a \in asked', a.proxy # D!None
                PROVE  a.name = a.proxy
    BY DEF D!NoDnsLeak
  <2>2. CASE a \in asked
    BY <2>2 DEF D!IInv, D!NoDnsLeak
  <2>3. CASE route = "Direct" /\ a = [proxy |-> r.proxy.host, name |-> name]
    BY <2>1, <2>3
  <2>. QED
    BY <1>2, <2>2, <2>3
<1>24. D!Types'
  BY <1>1, <1>7, <1>9, <1>10, <1>22 DEF D!IInv, D!Types, CacheParts, ChanRecords
<1>. QED
  BY <1>15, <1>16, <1>17, <1>18, <1>19, <1>20, <1>21, <1>22, <1>23, <1>24, IInvFromParts DEF Flights

\* A second passes only when nobody has an answer in hands, or on the way.
LEMMA TickIInv ==
    ASSUME D!DialAssumption, D!IInv, D!Tick
    PROVE  D!IInv'
<1>1. /\ dialNow < MaxDialTime /\ \A c \in Calls : ~D!Runnable(calls[c])
      /\ dialNow' = dialNow + 1
      /\ UNCHANGED <<cache, inflight, chans, calls, asked, abandoned>>
  BY DEF D!Tick
<1>2. \A c \in Calls : /\ calls[c].pc \notin {"answered", "removed", "sent"}
                       /\ calls[c].pc = "waiting" => ~chans[calls[c].wait].sent
  BY <1>1 DEF D!Runnable, D!Woken
<1>3. dialNow' \in 0..MaxDialTime
  BY <1>1 DEF D!IInv, D!Types, D!DialAssumption
<1>4. D!CallsSound'
  <2>1. \A c \in Calls : D!Sound(calls[c]) /\ D!Current(calls[c])
    BY DEF D!IInv, D!CallsSound
  <2>. QED
    BY <1>1, <1>2, <2>1 DEF D!CallsSound, D!Sound, D!Current
<1>5. D!AnswersPrompt'
  BY <1>1, <1>2 DEF D!AnswersPrompt
<1>6. D!ChansNamed'
  <2>1. \A j \in D!ChanIds : \E t \in D!Routes \X (D!Names \union {D!None}) : D!Uses(j, t)
    BY DEF D!IInv, D!ChansNamed
  <2>2. \A j, t : D!Uses(j, t) => D!Uses(j, t)'
    BY <1>1 DEF D!Uses, D!LeadName
  <2>. QED
    BY <2>1, <2>2 DEF D!ChansNamed
<1>7. D!OneLeader' /\ D!LeadersHold' /\ D!FlightsOpen' /\ D!FlightsHaveLeaders'
  <2>1. D!OneLeader' /\ D!FlightsOpen' /\ D!FlightsHaveLeaders'
    BY <1>1 DEF D!IInv, D!OneLeader, D!FlightsOpen, D!FlightsHaveLeaders
  <2>. QED
    BY <1>1, <2>1 DEF D!IInv, D!LeadersHold, D!LeadName, D!Holds
<1>8. D!Types' /\ D!CachesBounded' /\ D!NoDnsLeak' /\ D!CachesSound'
  BY <1>1, <1>3 DEF D!IInv, D!Types, D!CachesBounded, D!NoDnsLeak, D!CachesSound
<1>. QED
  BY <1>4, <1>5, <1>6, <1>7, <1>8, IInvFromParts DEF Flights

\* The invariant holds at first.
LEMMA DialInitIInv ==
    ASSUME D!DialAssumption, D!Init
    PROVE  D!IInv
<1>1. /\ D!Fresh \in D!CallRecords /\ D!Fresh.wait = 0 /\ D!Fresh.left = 0 /\ D!Fresh.pc = "idle"
      /\ \A g \in D!Goals : D!Fresh.lead[g] = 0
  BY DEF D!Fresh, D!CallRecords, D!Err, D!Answers, D!DnsServers, D!Pcs, D!Kinds, D!Targets, D!Proxies, D!Binds, D!GoalsOrNone, D!Leads,
         D!ChansOrNone, D!Servers
<1>2. \A c \in Calls : calls[c] = D!Fresh
  BY DEF D!Init
<1>3. /\ dialNow = 0 /\ cache = [r \in D!Routes |-> <<>>] /\ inflight = [r \in D!Routes |-> [n \in D!Names |-> 0]]
      /\ chans = [i \in D!ChanIds |-> D!Quiet] /\ calls = [c \in Calls |-> D!Fresh] /\ asked = {} /\ abandoned = {}
  BY DEF D!Init
<1>. HIDE DEF D!Fresh
<1>4. D!Types
  <2>1. D!Quiet \in ChanRecords
    BY DEF D!Quiet, ChanRecords, D!Err, D!Answers
  <2>2. DOMAIN cache = D!Routes /\ \A r \in D!Routes : DOMAIN cache[r] = {} /\ cache[r] \in [DOMAIN cache[r] -> D!CacheEntries]
    BY <1>3
  <2>. QED
    BY <1>1, <1>3, <2>1, <2>2 DEF D!Types, ChanRecords, D!ChansOrNone, D!DialAssumption
<1>5. D!CachesBounded /\ D!CachesSound
  <2>1. \A r \in D!Routes : DOMAIN cache[r] = {}
    BY <1>3
  <2>2. \A r \in D!Routes : Cardinality(DOMAIN cache[r]) = 0
    BY <2>1, FS_EmptySet
  <2>. QED
    BY <2>1, <2>2, DialSets DEF D!CachesBounded, D!CachesSound, D!DialAssumption
<1>6. D!CallsSound
  <2>1. 1 \in Sizes \union {1} /\ 0 <= 1
    OBVIOUS
  <2>. QED
    BY <1>1, <1>2, <2>1 DEF D!CallsSound, D!Sound, D!Current, D!Busy, D!Leading
<1>7. D!ChansNamed
  <2>. SUFFICES ASSUME NEW i \in D!ChanIds
                PROVE  \E t \in D!Routes \X (D!Names \union {D!None}) : D!Uses(i, t)
    BY DEF D!ChansNamed
  <2>1. i # 0
    BY DEF D!ChanIds
  <2>2. <<"Direct", D!None>> \in D!Routes \X (D!Names \union {D!None})
    BY DEF D!Routes
  <2>3. ~chans[i].sent
    BY <1>3 DEF D!Quiet
  <2>4. D!Uses(i, <<"Direct", D!None>>)
    BY <1>1, <1>2, <1>3, <2>1, <2>3 DEF D!Uses
  <2>. QED
    BY <2>2, <2>4
<1>8. D!OneLeader /\ D!LeadersHold
  BY <1>1, <1>2 DEF D!OneLeader, D!LeadersHold, D!Holds
<1>9. D!FlightsOpen /\ D!AnswersPrompt /\ D!FlightsHaveLeaders /\ D!NoDnsLeak
  BY <1>1, <1>2, <1>3 DEF D!FlightsOpen, D!AnswersPrompt, D!FlightsHaveLeaders, D!NoDnsLeak
<1>. QED
  BY <1>4, <1>5, <1>6, <1>7, <1>8, <1>9 DEF D!IInv

\* A step of nobody changes nothing.
LEMMA StutterIInv ==
    ASSUME D!DialAssumption, D!IInv, UNCHANGED D!vars
    PROVE  D!IInv'
<1>1. D!ChansNamed'
  <2>1. \A j \in D!ChanIds : \E t \in D!Routes \X (D!Names \union {D!None}) : D!Uses(j, t)
    BY DEF D!IInv, D!ChansNamed
  <2>2. \A j, t : D!Uses(j, t) => D!Uses(j, t)'
    BY DEF D!Uses, D!LeadName, D!vars
  <2>. QED
    BY <2>1, <2>2 DEF D!ChansNamed
<1>2. D!CallsSound' /\ D!OneLeader' /\ D!LeadersHold' /\ D!FlightsOpen' /\ D!FlightsHaveLeaders' /\ D!AnswersPrompt'
  BY DEF D!IInv, D!vars, D!CallsSound, D!Sound, D!Current, D!OneLeader, D!LeadersHold, D!FlightsOpen, D!FlightsHaveLeaders,
         D!AnswersPrompt, D!LeadName, D!Holds
<1>3. D!Types' /\ D!CachesBounded' /\ D!NoDnsLeak' /\ D!CachesSound'
  BY DEF D!IInv, D!vars, D!Types, D!CachesBounded, D!NoDnsLeak, D!CachesSound
<1>. QED
  BY <1>1, <1>2, <1>3, IInvFromParts DEF Flights

\* Each step has its lemma.
LEMMA DialNextIInv ==
    ASSUME D!DialAssumption, D!IInv, [D!Next]_(D!vars)
    PROVE  D!IInv'
<1>1. ASSUME NEW c \in Calls, D!ResolveFlight(c) PROVE D!IInv'
  BY <1>1, FollowIInv, LeadIInv
<1>2. ASSUME NEW c \in Calls, D!Local(c) PROVE D!IInv'
  BY <1>1, <1>2, ResolveLiteralIInv, ResolveCachedIInv, RemoveIInv, SendIInv, InsertIInv, WakeIInv, ConnectIInv
     DEF D!Local
<1>3. ASSUME NEW c \in Calls, D!Outside(c) PROVE D!IInv'
  BY <1>3, LookupIInv, QueryIInv, ShakeIInv DEF D!Outside
<1>4. ASSUME NEW c \in Calls, D!Timeout(c) PROVE D!IInv'
  BY <1>4, WarpTimeoutIInv, CallerTimeoutIInv DEF D!Timeout
<1>. QED
  BY <1>2, <1>3, <1>4, TickIInv, StartCallIInv, StutterIInv DEF D!Next

\* What every state satisfies.
LEMMA DialSpecIInv ==
    ASSUME D!DialAssumption
    PROVE  D!Spec => []D!IInv
<1>1. D!Init => D!IInv
  BY DialInitIInv
<1>2. D!IInv /\ [D!Next]_(D!vars) => D!IInv'
  BY DialNextIInv
<1>. QED
  BY <1>1, <1>2, PTL DEF D!Spec

\* What the invariant says in the terms of the properties.
LEMMA DialIInvImplies ==
    ASSUME D!DialAssumption, D!IInv
    PROVE  D!TypeOK /\ D!NoDnsLeak /\ D!RoutesSeparate /\ D!OneLookup /\ D!FlightsHaveLeaders /\ D!AnswersFresh
<1>1. \A c \in Calls : /\ calls[c] \in D!CallRecords /\ D!Sound(calls[c]) /\ D!Current(calls[c])
                       /\ calls[c].wait \in D!ChansOrNone /\ calls[c].lead \in [D!Goals -> D!ChansOrNone]
                       /\ calls[c].srv \in D!Servers /\ calls[c].left \in Nat
  BY CallFacts DEF D!CallRecords
<1>2. D!TypeOK
  <2>1. \A c \in Calls : \E n \in Sizes \union {1} : calls[c].left <= n
    BY <1>1 DEF D!Sound
  <2>. QED
    BY <1>1, <2>1 DEF D!TypeOK, D!IInv, D!Types, D!CachesBounded, D!ChansOrNone, D!Servers
<1>3. D!RoutesSeparate
  BY <1>1 DEF D!RoutesSeparate, D!Current, D!Route
<1>4. D!OneLookup
  <2>1. \A c \in Calls, g \in D!Goals : D!Looking(c, g) => inflight[D!Route(g)][D!LeadName(c, g)] = calls[c].lead[g]
    BY DEF D!IInv, D!LeadersHold, D!Looking, D!Holds
  <2>. QED
    BY <2>1 DEF D!OneLookup
<1>5. D!AnswersFresh
  BY <1>1 DEF D!AnswersFresh, D!Current
<1>. QED
  BY <1>2, <1>3, <1>4, <1>5 DEF D!IInv
\* The parts of the outbound side go at their own pace: a step of one is a stutter of the others.
LEMMA OutboundSteps ==
    ASSUME [OutboundNext]_outboundVars
    PROVE  [D!Next]_(D!vars) /\ [Next]_vars
BY DEF OutboundNext, DialStep, UdpStep, WarpStep, outboundVars, dialVars, vars, D!vars

\* What holds of Dial and of UdpOutbound by themselves holds of the whole side.
LEMMA OutboundIInv ==
    ASSUME D!DialAssumption, UdpAssumption
    PROVE  OutboundSpec => [](D!IInv /\ IInv)
<1>1. OutboundInit => D!IInv /\ IInv
  BY DialInitIInv, InitIInv DEF OutboundInit
<1>2. D!IInv /\ IInv /\ [OutboundNext]_outboundVars => (D!IInv /\ IInv)'
  BY OutboundSteps, DialNextIInv, NextIInv
<1>. QED
  BY <1>1, <1>2, PTL DEF OutboundSpec

\* A call or a datagram behind a proxy leaves every name to it, the multiplexed framing's
\* apart, and connects only to addresses found by its own route, whatever is
\* cached, coalesced, dropped or timed out meanwhile.
THEOREM OutboundNamesLeftToProxy ==
    ASSUME D!DialAssumption, UdpAssumption
    PROVE  OutboundSpec => []NamesLeftToProxy
<1>1. D!IInv /\ IInv => NamesLeftToProxy
  BY DialIInvImplies DEF IInv, NamesLeftToProxy
<1>. QED
  BY <1>1, OutboundIInv, PTL

\* However many callers ask for a name, one lookup of it is under way on each route, whoever
\* waits has a leader unless a timeout dropped it, no stale answer is taken, and the caches
\* stay within their bound.
THEOREM OutboundLookupsShared ==
    ASSUME D!DialAssumption, UdpAssumption
    PROVE  OutboundSpec => []LookupsShared
<1>1. D!IInv => LookupsShared
  BY DialIInvImplies DEF LookupsShared
<1>. QED
  BY <1>1, OutboundIInv, PTL
=============================================================================
