---------------------------- MODULE QuotaProofs ----------------------------
(***************************************************************************)
(* For any number of connections, any buffer and commit sizes and any      *)
(* grants: the balance is exact and never turns unlimited, no loop loses   *)
(* more than one commit and one buffer of counted bytes, and the relays    *)
(* implement QuotaLedger.                                                  *)
(***************************************************************************)
EXTENDS Quota, TLAPS

\* What a reservation returns: nothing, or at most the request, covered by the
\* balance of a limited user.
LEMMA ReserveBounded ==
    ASSUME remaining \in Int, BalanceExact, NEW n \in 1..MaxRead
    PROVE  /\ reserve_quota(n) \in 0..n
           /\ remaining # Unlimited => reserve_quota(n) <= remaining
BY QuotaAssumption DEF reserve_quota, BalanceExact, Unlimited

THEOREM InitIInv == Init => IInv
<1>. SUFFICES ASSUME Init PROVE IInv
  OBVIOUS
<1>. USE QuotaAssumption
<1>1. remaining \in Int /\ granted \in Nat /\ BalanceExact
  BY DEF Init, BalanceExact, Unlimited
<1>2. TypeOK
  <2>1. rated \in BOOLEAN /\ dirty \in BOOLEAN /\ short \in [Copies -> BOOLEAN]
    BY DEF Init
  <2>2. /\ held \in [Copies -> 0..MaxRead] /\ acc \in [Copies -> 0..CommitAt-1]
        /\ counted \in [Copies -> Nat] /\ userCount \in [Dirs -> Nat]
        /\ written \in [Copies -> Nat] /\ spent \in Nat /\ grants \in Nat
        /\ saved \in [Dirs -> Nat]
    BY DEF Init
  <2>3. /\ relay \in [Conns -> {"new", "open", "draining", "closed"}]
        /\ path \in [Conns -> {"none", "unlimited", "fast", "rated"}]
        /\ pc \in [Copies -> {"off", "read", "write", "shutdown", "done", "dropped"}]
        /\ why \in [Copies -> {"none", "eof", "quota"}]
    BY DEF Init
  <2>. QED
    BY <1>1, <2>1, <2>2, <2>3 DEF TypeOK
<1>3. CleanMeansSaved
  BY DEF Init, CleanMeansSaved
<1>4. \A x \in Copies : LoopBooks(x)
  BY DEF Init, LoopBooks
<1>. QED
  BY <1>1, <1>2, <1>3, <1>4 DEF IInv

\* What the invariant says of one loop, with the types its arithmetic needs.
LEMMA LoopFacts ==
    ASSUME IInv, NEW y \in Copies
    PROVE  /\ LoopBooks(y)
           /\ counted[y] \in Nat /\ written[y] \in Nat
           /\ acc[y] \in Nat /\ acc[y] < CommitAt
           /\ held[y] \in Nat /\ held[y] <= MaxRead
BY QuotaAssumption DEF IInv, TypeOK

\* A commit keeps the counters numbers and marks the state dirty whenever a
\* user counter moves.
LEMMA CommitBooks ==
    ASSUME IInv, NEW c \in Conns, NEW d \in Dirs, NEW b \in Nat, Commit(c, d, b),
           saved' = saved
    PROVE  /\ counted' \in [Copies -> Nat] /\ userCount' \in [Dirs -> Nat]
           /\ dirty' \in BOOLEAN
           /\ counted'[<<c, d>>] = counted[<<c, d>>] + b
           /\ \A x \in Copies \ {<<c, d>>} : counted'[x] = counted[x]
           /\ CleanMeansSaved'
<1>1. <<c, d>> \in Copies
  BY DEF Copies
<1>2. counted \in [Copies -> Nat] /\ userCount \in [Dirs -> Nat] /\ dirty \in BOOLEAN
  BY DEF IInv, TypeOK
<1>3. counted' \in [Copies -> Nat] /\ userCount' \in [Dirs -> Nat]
  BY <1>1, <1>2 DEF Commit
<1>4. dirty' \in BOOLEAN
  BY <1>2 DEF Commit
<1>5. CleanMeansSaved'
  <2>1. CASE b = 0
    <3>1. userCount' = userCount
      BY <1>2, <2>1 DEF Commit
    <3>2. dirty' = dirty
      BY <1>2, <2>1 DEF Commit
    <3>. QED
      BY <3>1, <3>2 DEF IInv, CleanMeansSaved
  <2>2. CASE b > 0
    BY <2>2 DEF Commit, CleanMeansSaved
  <2>. QED
    BY <2>1, <2>2
<1>. QED
  BY <1>1, <1>2, <1>3, <1>4, <1>5 DEF Commit

\* The end of a loop, with b the bytes still to be committed.
LEMMA FinishBooks ==
    ASSUME IInv, NEW c \in Conns, NEW d \in Dirs, NEW b \in Nat,
           NEW reason \in {"eof", "quota"}, Finish(c, d, b, reason), saved' = saved
    PROVE  /\ counted' \in [Copies -> Nat] /\ userCount' \in [Dirs -> Nat]
           /\ dirty' \in BOOLEAN
           /\ acc' \in [Copies -> 0..CommitAt-1]
           /\ pc' \in [Copies -> {"off", "read", "write", "shutdown", "done", "dropped"}]
           /\ why' \in [Copies -> {"none", "eof", "quota"}]
           /\ counted'[<<c, d>>] = counted[<<c, d>>] + b
           /\ acc'[<<c, d>>] = 0 /\ pc'[<<c, d>>] = "shutdown"
           /\ \A x \in Copies \ {<<c, d>>} :
                  counted'[x] = counted[x] /\ acc'[x] = acc[x] /\ pc'[x] = pc[x]
           /\ CleanMeansSaved'
<1>1. <<c, d>> \in Copies
  BY DEF Copies
<1>2. acc' \in [Copies -> 0..CommitAt-1]
  BY <1>1, QuotaAssumption DEF Finish, IInv, TypeOK
<1>3. /\ pc' \in [Copies -> {"off", "read", "write", "shutdown", "done", "dropped"}]
      /\ why' \in [Copies -> {"none", "eof", "quota"}]
  BY <1>1 DEF Finish, IInv, TypeOK
<1>4. /\ acc'[<<c, d>>] = 0 /\ pc'[<<c, d>>] = "shutdown"
      /\ \A x \in Copies \ {<<c, d>>} : acc'[x] = acc[x] /\ pc'[x] = pc[x]
  BY <1>1 DEF Finish, IInv, TypeOK
<1>. QED
  BY <1>2, <1>3, <1>4, CommitBooks DEF Finish

\* A read either ends the loop or turns a covered reservation into a write.
LEMMA ReadIInv ==
    ASSUME IInv, NEW c \in Conns, NEW d \in Dirs, NEW n \in 1..MaxRead, Read(c, d, n)
    PROVE  IInv'
<1>. DEFINE got == IF Metered(path[c]) THEN reserve_quota(n) ELSE n
            x == <<c, d>>
<1>. USE QuotaAssumption
<1>1. x \in Copies /\ pc[x] = "read" /\ acc[x] \in Nat
  BY DEF Copies, Read, IInv, TypeOK
<1>2. got \in 0..n /\ (Metered(path[c]) /\ remaining # Unlimited => got <= remaining)
  BY ReserveBounded DEF IInv, TypeOK
<1>3. CASE /\ got = 0
           /\ Finish(c, d, acc[x], "quota")
           /\ UNCHANGED <<held, short, quotaVars>>
           /\ UNCHANGED <<rated, relay, path, written, grants, saved>>
  <2>1. /\ counted' \in [Copies -> Nat] /\ userCount' \in [Dirs -> Nat]
        /\ dirty' \in BOOLEAN
        /\ acc' \in [Copies -> 0..CommitAt-1]
        /\ pc' \in [Copies -> {"off", "read", "write", "shutdown", "done", "dropped"}]
        /\ why' \in [Copies -> {"none", "eof", "quota"}]
        /\ counted'[x] = counted[x] + acc[x]
        /\ acc'[x] = 0 /\ pc'[x] = "shutdown"
        /\ \A y \in Copies \ {x} :
               counted'[y] = counted[y] /\ acc'[y] = acc[y] /\ pc'[y] = pc[y]
        /\ CleanMeansSaved'
    BY <1>1, <1>3, FinishBooks
  <2>2. TypeOK'
    BY <1>3, <2>1 DEF IInv, TypeOK, quotaVars
  <2>3. BalanceExact'
    BY <1>3 DEF IInv, BalanceExact, quotaVars
  <2>4. ASSUME NEW y \in Copies PROVE LoopBooks(y)'
    <3>1. /\ LoopBooks(y) /\ counted[y] \in Nat /\ written[y] \in Nat /\ acc[y] \in Nat
          /\ acc[y] < CommitAt /\ held[y] \in Nat /\ held[y] <= MaxRead
      BY <2>4, LoopFacts
    <3>2. CASE y = x
      BY <1>1, <1>3, <2>1, <2>4, <3>1, <3>2, QuotaAssumption DEF LoopBooks
    <3>3. CASE y # x
      BY <1>1, <1>3, <2>1, <2>4, <3>1, <3>3, QuotaAssumption DEF LoopBooks
    <3>. QED
      BY <3>2, <3>3
  <2>. QED
    BY <2>1, <2>2, <2>3, <2>4 DEF IInv
<1>4. CASE /\ got > 0
           /\ pc' = [pc EXCEPT ![x] = "write"]
           /\ held' = [held EXCEPT ![x] = got]
           /\ short' = [short EXCEPT ![x] = got < n]
           /\ IF Metered(path[c]) /\ remaining # Unlimited
              THEN remaining' = remaining - got /\ spent' = spent + got
              ELSE UNCHANGED <<remaining, spent>>
           /\ UNCHANGED <<acc, why, counted, userCount, dirty, granted>>
           /\ UNCHANGED <<rated, relay, path, written, grants, saved>>
  <2>1. BalanceExact' /\ remaining' \in Int /\ spent' \in Nat
    <3>1. BalanceExact /\ remaining \in Int /\ spent \in Nat /\ granted' = granted /\ granted \in Nat
      BY <1>4 DEF IInv, TypeOK
    <3>2. CASE Metered(path[c]) /\ remaining # Unlimited
      BY <1>2, <1>4, <3>1, <3>2 DEF BalanceExact, Unlimited
    <3>3. CASE ~(Metered(path[c]) /\ remaining # Unlimited)
      BY <1>4, <3>1, <3>3 DEF BalanceExact
    <3>. QED
      BY <3>2, <3>3
  <2>2. held' \in [Copies -> 0..MaxRead]
    BY <1>1, <1>2, <1>4 DEF IInv, TypeOK
  <2>3. pc' \in [Copies -> {"off", "read", "write", "shutdown", "done", "dropped"}]
    BY <1>1, <1>4 DEF IInv, TypeOK
  <2>4. short' \in [Copies -> BOOLEAN]
    <3>1. (got < n) \in BOOLEAN
      OBVIOUS
    <3>. QED
      BY <3>1, <1>1, <1>4, Zenon DEF IInv, TypeOK
  <2>5. TypeOK'
    BY <1>4, <2>1, <2>2, <2>3, <2>4 DEF IInv, TypeOK
  <2>6. CleanMeansSaved'
    BY <1>4 DEF IInv, CleanMeansSaved
  <2>8. /\ pc'[x] = "write" /\ held'[x] = got
        /\ \A y \in Copies \ {x} : pc'[y] = pc[y] /\ held'[y] = held[y]
    BY <1>1, <1>4 DEF IInv, TypeOK
  <2>7. ASSUME NEW y \in Copies PROVE LoopBooks(y)'
    <3>1. /\ LoopBooks(y) /\ counted[y] \in Nat /\ written[y] \in Nat /\ acc[y] \in Nat
          /\ acc[y] < CommitAt /\ held[y] \in Nat /\ held[y] <= MaxRead
      BY <2>7, LoopFacts
    <3>2. CASE y = x
      BY <1>1, <1>4, <2>7, <2>8, <3>1, <3>2, QuotaAssumption DEF LoopBooks
    <3>3. CASE y # x
      BY <1>1, <1>4, <2>7, <2>8, <3>1, <3>3, QuotaAssumption DEF LoopBooks
    <3>. QED
      BY <3>2, <3>3
  <2>. QED
    BY <2>1, <2>5, <2>6, <2>7 DEF IInv
<1>. QED
  BY <1>3, <1>4 DEF Read

\* The end of the input.
LEMMA ReadEofIInv ==
    ASSUME IInv, NEW c \in Conns, NEW d \in Dirs, ReadEof(c, d)
    PROVE  IInv'
<1>. DEFINE x == <<c, d>>
<1>1. x \in Copies /\ pc[x] = "read" /\ acc[x] \in Nat
  BY QuotaAssumption DEF Copies, ReadEof, IInv, TypeOK
<1>2. /\ counted' \in [Copies -> Nat] /\ userCount' \in [Dirs -> Nat]
      /\ dirty' \in BOOLEAN
      /\ acc' \in [Copies -> 0..CommitAt-1]
      /\ pc' \in [Copies -> {"off", "read", "write", "shutdown", "done", "dropped"}]
      /\ why' \in [Copies -> {"none", "eof", "quota"}]
      /\ counted'[x] = counted[x] + acc[x]
      /\ acc'[x] = 0 /\ pc'[x] = "shutdown"
      /\ \A y \in Copies \ {x} :
             counted'[y] = counted[y] /\ acc'[y] = acc[y] /\ pc'[y] = pc[y]
      /\ CleanMeansSaved'
  BY <1>1, FinishBooks DEF ReadEof
<1>3. TypeOK'
  BY <1>2 DEF ReadEof, IInv, TypeOK, quotaVars
<1>4. BalanceExact'
  BY DEF ReadEof, IInv, BalanceExact, quotaVars
<1>5. ASSUME NEW y \in Copies PROVE LoopBooks(y)'
  <2>1. /\ LoopBooks(y) /\ counted[y] \in Nat /\ written[y] \in Nat /\ acc[y] \in Nat
        /\ acc[y] < CommitAt /\ held[y] \in Nat /\ held[y] <= MaxRead
    BY <1>5, LoopFacts
  <2>2. CASE y = x
    BY <1>1, <1>2, <1>5, <2>1, <2>2, QuotaAssumption DEF ReadEof, LoopBooks
  <2>3. CASE y # x
    BY <1>1, <1>2, <1>5, <2>1, <2>3, QuotaAssumption DEF ReadEof, LoopBooks
  <2>. QED
    BY <2>2, <2>3
<1>. QED
  BY <1>2, <1>3, <1>4, <1>5 DEF IInv

\* A finished write moves the held bytes into the accumulator or the counters.
LEMMA WriteDoneIInv ==
    ASSUME IInv, NEW c \in Conns, NEW d \in Dirs, NEW timer \in BOOLEAN,
           WriteDone(c, d, timer)
    PROVE  IInv'
<1>. DEFINE x == <<c, d>>
            b == acc[x] + held[x]
<1>. USE QuotaAssumption
<1>1. x \in Copies /\ pc[x] = "write" /\ b \in Nat /\ held[x] \in Nat
  BY DEF Copies, WriteDone, IInv, TypeOK
<1>2. /\ written' \in [Copies -> Nat] /\ held' \in [Copies -> 0..MaxRead]
      /\ written'[x] = written[x] + held[x] /\ held'[x] = 0
      /\ \A y \in Copies \ {x} : written'[y] = written[y] /\ held'[y] = held[y]
  BY <1>1 DEF WriteDone, IInv, TypeOK
<1>3. short' \in [Copies -> BOOLEAN]
  BY <1>1 DEF WriteDone, IInv, TypeOK
<1>4. UNCHANGED <<rated, relay, path, grants, saved>> /\ UNCHANGED <<remaining, granted, spent>>
  BY DEF WriteDone, quotaVars
<1>5. BalanceExact'
  BY <1>4 DEF IInv, BalanceExact
<1>6. CASE Finish(c, d, b, "quota")
  <2>1. /\ counted' \in [Copies -> Nat] /\ userCount' \in [Dirs -> Nat]
        /\ dirty' \in BOOLEAN
        /\ acc' \in [Copies -> 0..CommitAt-1]
        /\ pc' \in [Copies -> {"off", "read", "write", "shutdown", "done", "dropped"}]
        /\ why' \in [Copies -> {"none", "eof", "quota"}]
        /\ counted'[x] = counted[x] + b
        /\ acc'[x] = 0 /\ pc'[x] = "shutdown"
        /\ \A y \in Copies \ {x} :
               counted'[y] = counted[y] /\ acc'[y] = acc[y] /\ pc'[y] = pc[y]
        /\ CleanMeansSaved'
    BY <1>1, <1>4, <1>6, FinishBooks
  <2>2. TypeOK'
    BY <1>2, <1>3, <1>4, <2>1 DEF IInv, TypeOK
  <2>3. ASSUME NEW y \in Copies PROVE LoopBooks(y)'
    <3>1. /\ LoopBooks(y) /\ counted[y] \in Nat /\ written[y] \in Nat /\ acc[y] \in Nat
          /\ acc[y] < CommitAt /\ held[y] \in Nat /\ held[y] <= MaxRead
      BY <2>3, LoopFacts
    <3>4. pc[y] = "write" => relay'[y[1]] # "new"
      BY <1>4, <3>1 DEF LoopBooks
    <3>2. CASE y = x
      <4>. HIDE DEF x
      <4>. QED
        BY <1>1, <1>2, <1>4, <2>1, <2>3, <3>1, <3>2, <3>4, QuotaAssumption DEF LoopBooks
    <3>3. CASE y # x
      BY <1>1, <1>2, <1>4, <2>1, <2>3, <3>1, <3>3, QuotaAssumption DEF LoopBooks
    <3>. QED
      BY <3>2, <3>3
  <2>. QED
    BY <1>5, <2>1, <2>2, <2>3 DEF IInv
<1>7. CASE /\ pc' = [pc EXCEPT ![x] = "read"] /\ UNCHANGED why
           /\ Commit(c, d, b) /\ acc' = [acc EXCEPT ![x] = 0]
  <2>1. /\ counted' \in [Copies -> Nat] /\ userCount' \in [Dirs -> Nat]
        /\ dirty' \in BOOLEAN
        /\ counted'[x] = counted[x] + b
        /\ \A y \in Copies \ {x} : counted'[y] = counted[y]
        /\ CleanMeansSaved'
    BY <1>1, <1>4, <1>7, CommitBooks
  <2>2. /\ acc' \in [Copies -> 0..CommitAt-1] /\ acc'[x] = 0
        /\ pc' \in [Copies -> {"off", "read", "write", "shutdown", "done", "dropped"}]
        /\ pc'[x] = "read"
        /\ \A y \in Copies \ {x} : acc'[y] = acc[y] /\ pc'[y] = pc[y]
    BY <1>1, <1>7 DEF IInv, TypeOK
  <2>3. TypeOK'
    BY <1>2, <1>3, <1>4, <1>7, <2>1, <2>2 DEF IInv, TypeOK
  <2>4. ASSUME NEW y \in Copies PROVE LoopBooks(y)'
    <3>1. /\ LoopBooks(y) /\ counted[y] \in Nat /\ written[y] \in Nat /\ acc[y] \in Nat
          /\ acc[y] < CommitAt /\ held[y] \in Nat /\ held[y] <= MaxRead
      BY <2>4, LoopFacts
    <3>4. pc[y] = "write" => relay'[y[1]] # "new"
      BY <1>4, <3>1 DEF LoopBooks
    <3>2. CASE y = x
      <4>. HIDE DEF x
      <4>. QED
        BY <1>1, <1>2, <1>4, <2>1, <2>2, <2>4, <3>1, <3>2, <3>4, QuotaAssumption DEF LoopBooks
    <3>3. CASE y # x
      BY <1>1, <1>2, <1>4, <2>1, <2>2, <2>4, <3>1, <3>3, QuotaAssumption DEF LoopBooks
    <3>. QED
      BY <3>2, <3>3
  <2>. QED
    BY <1>5, <2>1, <2>3, <2>4 DEF IInv
<1>8. CASE /\ pc' = [pc EXCEPT ![x] = "read"] /\ UNCHANGED why
           /\ ~(b >= CommitAt) /\ acc' = [acc EXCEPT ![x] = b]
           /\ UNCHANGED <<counted, userCount, dirty>>
  <2>1. /\ acc' \in [Copies -> 0..CommitAt-1] /\ acc'[x] = b
        /\ pc' \in [Copies -> {"off", "read", "write", "shutdown", "done", "dropped"}]
        /\ pc'[x] = "read"
        /\ \A y \in Copies \ {x} : acc'[y] = acc[y] /\ pc'[y] = pc[y]
    BY <1>1, <1>8 DEF IInv, TypeOK
  <2>2. TypeOK'
    BY <1>2, <1>3, <1>4, <1>8, <2>1 DEF IInv, TypeOK
  <2>3. CleanMeansSaved'
    BY <1>4, <1>8 DEF IInv, CleanMeansSaved
  <2>4. ASSUME NEW y \in Copies PROVE LoopBooks(y)'
    <3>1. /\ LoopBooks(y) /\ counted[y] \in Nat /\ written[y] \in Nat /\ acc[y] \in Nat
          /\ acc[y] < CommitAt /\ held[y] \in Nat /\ held[y] <= MaxRead
      BY <2>4, LoopFacts
    <3>4. pc[y] = "write" => relay'[y[1]] # "new"
      BY <1>4, <3>1 DEF LoopBooks
    <3>2. CASE y = x
      <4>. HIDE DEF x
      <4>. QED
        BY <1>1, <1>2, <1>4, <1>8, <2>1, <2>4, <3>1, <3>2, <3>4, QuotaAssumption DEF LoopBooks
    <3>3. CASE y # x
      BY <1>1, <1>2, <1>4, <1>8, <2>1, <2>4, <3>1, <3>3, QuotaAssumption DEF LoopBooks
    <3>. QED
      BY <3>2, <3>3
  <2>. QED
    BY <1>5, <2>2, <2>3, <2>4 DEF IInv
<1>. QED
  BY <1>6, <1>7, <1>8 DEF WriteDone

\* A dropped relay: nothing is counted any more, at most the held bytes have
\* been delivered without being counted, finished loops are left as they were.
LEMMA DropIInv ==
    ASSUME IInv, NEW c \in Conns, NEW part \in Parts(c), Drop(c, part),
           pc' \in [Copies -> {"off", "read", "write", "shutdown", "done", "dropped"}],
           \A x \in Copies : pc'[x] # pc[x] =>
               x[1] = c /\ pc'[x] \in {"dropped", "done"} /\ (pc'[x] = "done" => pc[x] = "shutdown"),
           \A x \in Copies : x[1] = c => pc'[x] \in {"done", "dropped"},
           UNCHANGED <<rated, path, why, counted, userCount, dirty, grants, saved>>,
           UNCHANGED quotaVars
    PROVE  IInv'
<1>. USE QuotaAssumption
<1>1. part \in [Dirs -> 0..MaxRead] /\ \A d \in Dirs : part[d] \in Nat /\ part[d] <= held[<<c, d>>]
  BY DEF Parts
<1>2. \A x \in Copies : x[1] \in Conns /\ x[2] \in Dirs /\ x = <<x[1], x[2]>>
  BY DEF Copies
<1>3. \A x \in Copies : x \in {c} \X Dirs <=> x[1] = c
  BY <1>2
<1>4. ASSUME NEW x \in Copies
      PROVE  /\ x[1] = c => written'[x] = written[x] + part[x[2]] /\ held'[x] = 0 /\ acc'[x] = 0
             /\ x[1] # c => written'[x] = written[x] /\ held'[x] = held[x] /\ acc'[x] = acc[x]
             /\ x[1] = c => part[x[2]] \in Nat /\ part[x[2]] <= held[x]
  BY <1>1, <1>2, <1>3 DEF Drop
<1>5. ASSUME NEW x \in Copies PROVE LoopBooks(x)'
  <2>1. /\ LoopBooks(x) /\ counted[x] \in Nat /\ written[x] \in Nat /\ acc[x] \in Nat
        /\ acc[x] < CommitAt /\ held[x] \in Nat /\ held[x] <= MaxRead
    BY LoopFacts
  <2>4. /\ x[1] = c => relay'[x[1]] = "closed"
        /\ x[1] # c => relay'[x[1]] = relay[x[1]]
    BY <1>2 DEF Drop, IInv, TypeOK
  <2>2. CASE x[1] = c
    <3>. DEFINE k == part[x[2]]
    <3>1. /\ written'[x] = written[x] + k /\ held'[x] = 0 /\ acc'[x] = 0 /\ counted'[x] = counted[x]
          /\ k \in Nat /\ k <= held[x] /\ pc'[x] \in {"done", "dropped"}
      BY <1>4, <2>2
    <3>. HIDE DEF k
    <3>2. pc[x] = "dropped" \/ written[x] = counted[x] + acc[x]
      BY <2>1 DEF LoopBooks
    <3>3. pc[x] # "write" => k = 0
      BY <2>1, <3>1 DEF LoopBooks
    <3>4. counted[x] <= written[x] + k /\ written[x] + k - counted[x] < CommitAt + MaxRead
      <4>1. CASE pc[x] = "dropped"
        BY <2>1, <3>1, <3>3, <4>1 DEF LoopBooks
      <4>2. CASE pc[x] # "dropped"
        BY <2>1, <3>1, <3>2, <4>2
      <4>. QED
        BY <4>1, <4>2
    <3>5. pc'[x] = "done" => written[x] + k = counted[x]
      <4>1. ASSUME pc'[x] = "done" PROVE pc[x] \in {"done", "shutdown"}
        BY <4>1
      <4>. QED
        BY <4>1, <2>1, <3>1, <3>3 DEF LoopBooks
    <3>. QED
      BY <2>1, <2>2, <2>4, <3>1, <3>4, <3>5 DEF LoopBooks
  <2>3. CASE x[1] # c
    BY <1>4, <2>1, <2>3, <2>4 DEF LoopBooks
  <2>. QED
    BY <2>2, <2>3
<1>6. written' \in [Copies -> Nat]
  <2>1. written' = [x \in Copies |-> IF x \in {c} \X Dirs THEN written[x] + part[x[2]] ELSE written[x]]
    BY DEF Drop
  <2>2. \A x \in Copies : (IF x \in {c} \X Dirs THEN written[x] + part[x[2]] ELSE written[x]) \in Nat
    BY <1>3, <1>4 DEF IInv, TypeOK
  <2>. QED
    BY <2>1, <2>2
<1>7. held' \in [Copies -> 0..MaxRead] /\ acc' \in [Copies -> 0..CommitAt-1]
  BY DEF Drop, IInv, TypeOK
<1>8. short' \in [Copies -> BOOLEAN]
  BY DEF Drop, IInv, TypeOK
<1>9. relay' \in [Conns -> {"new", "open", "draining", "closed"}]
  BY DEF Drop, IInv, TypeOK
<1>10. TypeOK'
  BY <1>6, <1>7, <1>8, <1>9 DEF IInv, TypeOK, quotaVars
<1>11. BalanceExact' /\ CleanMeansSaved'
  BY DEF IInv, BalanceExact, CleanMeansSaved, quotaVars
<1>. QED
  BY <1>5, <1>10, <1>11 DEF IInv

\* Errors, timeouts and disconnections.
LEMMA DropAllIInv ==
    ASSUME IInv, NEW c \in Conns, NEW part \in Parts(c), DropAll(c, part)
    PROVE  IInv'
<1>1. pc \in [Copies -> {"off", "read", "write", "shutdown", "done", "dropped"}]
  BY DEF IInv, TypeOK
<1>2. pc' = [x \in Copies |-> IF x \in {c} \X Dirs /\ pc[x] # "done" THEN "dropped" ELSE pc[x]]
  BY DEF DropAll
<1>3. \A x \in Copies : x \in {c} \X Dirs <=> x[1] = c
  BY DEF Copies
<1>. QED
  BY <1>1, <1>2, <1>3, DropIInv DEF DropAll

\* The download ends and takes the upload with it.
LEMMA DownloadDoneIInv ==
    ASSUME IInv, NEW c \in Conns, NEW part \in Parts(c), DownloadDone(c, part)
    PROVE  IInv'
<1>. DEFINE up == <<c, "upload">>
            down == <<c, "download">>
<1>1. pc \in [Copies -> {"off", "read", "write", "shutdown", "done", "dropped"}]
  BY DEF IInv, TypeOK
<1>2. up \in Copies /\ down \in Copies /\ up # down /\ pc[down] = "shutdown"
  BY DEF Copies, Dirs, DownloadDone
<1>3. pc' = [pc EXCEPT ![down] = "done", ![up] = IF @ = "done" THEN @ ELSE "dropped"]
  BY DEF DownloadDone
<1>4. /\ pc'[down] = "done" /\ pc'[up] = IF pc[up] = "done" THEN "done" ELSE "dropped"
      /\ \A x \in Copies \ {up, down} : pc'[x] = pc[x]
      /\ pc' \in [Copies -> {"off", "read", "write", "shutdown", "done", "dropped"}]
  BY <1>1, <1>2, <1>3
<1>5. \A x \in Copies : x[1] = c <=> x \in {up, down}
  BY DEF Copies, Dirs
<1>6. \A x \in Copies : pc'[x] # pc[x] =>
          x[1] = c /\ pc'[x] \in {"dropped", "done"} /\ (pc'[x] = "done" => pc[x] = "shutdown")
  BY <1>2, <1>4, <1>5
<1>7. \A x \in Copies : x[1] = c => pc'[x] \in {"done", "dropped"}
  BY <1>4, <1>5
<1>. QED
  BY <1>4, <1>6, <1>7, DropIInv DEF DownloadDone

\* A relay starts: its loops read, or stop at once when nothing is left.
LEMMA OpenIInv ==
    ASSUME IInv, NEW c \in Conns, Open(c)
    PROVE  IInv'
<1>. DEFINE p == IF rated THEN "rated" ELSE IF remaining # Unlimited THEN "fast" ELSE "unlimited"
<1>. HIDE DEF p
<1>1. /\ relay[c] = "new" /\ relay' = [relay EXCEPT ![c] = "open"]
      /\ path' = [path EXCEPT ![c] = p]
      /\ pc' = [x \in Copies |-> IF x \notin {c} \X Dirs THEN pc[x]
                                 ELSE IF Exhausted(p) THEN "shutdown" ELSE "read"]
      /\ why' = [x \in Copies |-> IF x \in {c} \X Dirs /\ Exhausted(p) THEN "quota" ELSE why[x]]
      /\ UNCHANGED <<rated, held, short, acc, counted, userCount, dirty, written, grants, saved>>
      /\ UNCHANGED <<remaining, granted, spent>>
  BY DEF Open, p, quotaVars
<1>2. p \in {"none", "unlimited", "fast", "rated"}
  BY DEF p
<1>3. \A x \in Copies : x \in {c} \X Dirs <=> x[1] = c
  BY DEF Copies
<1>4. TypeOK'
  <2>1. /\ relay' \in [Conns -> {"new", "open", "draining", "closed"}]
        /\ path' \in [Conns -> {"none", "unlimited", "fast", "rated"}]
    BY <1>1, <1>2 DEF IInv, TypeOK
  <2>2. /\ pc' \in [Copies -> {"off", "read", "write", "shutdown", "done", "dropped"}]
        /\ why' \in [Copies -> {"none", "eof", "quota"}]
    BY <1>1 DEF IInv, TypeOK
  <2>. QED
    BY <1>1, <2>1, <2>2 DEF IInv, TypeOK
<1>5. BalanceExact' /\ CleanMeansSaved'
  BY <1>1 DEF IInv, BalanceExact, CleanMeansSaved
<1>6. ASSUME NEW x \in Copies PROVE LoopBooks(x)'
  <2>1. /\ LoopBooks(x) /\ counted[x] \in Nat /\ written[x] \in Nat /\ acc[x] \in Nat
        /\ acc[x] < CommitAt /\ held[x] \in Nat /\ held[x] <= MaxRead
    BY LoopFacts
  <2>2. x[1] \in Conns /\ relay \in [Conns -> {"new", "open", "draining", "closed"}]
    BY DEF Copies, IInv, TypeOK
  <2>3. CASE x[1] = c
    <3>1. pc'[x] \in {"read", "shutdown"} /\ relay'[x[1]] = "open"
      BY <1>1, <1>3, <2>2, <2>3
    <3>2. pc[x] = "off"
      BY <1>1, <2>1, <2>3 DEF LoopBooks
    <3>. QED
      BY <1>1, <2>1, <3>1, <3>2, QuotaAssumption DEF LoopBooks
  <2>4. CASE x[1] # c
    <3>1. pc'[x] = pc[x] /\ relay'[x[1]] = relay[x[1]]
      BY <1>1, <1>3, <2>2, <2>4
    <3>. QED
      BY <1>1, <2>1, <3>1 DEF LoopBooks
  <2>. QED
    BY <2>3, <2>4
<1>. QED
  BY <1>4, <1>5, <1>6 DEF IInv

\* The upload's writer is shut down.
LEMMA UploadDoneIInv ==
    ASSUME IInv, NEW c \in Conns, UploadDone(c)
    PROVE  IInv'
<1>. DEFINE up == <<c, "upload">>
<1>1. up \in Copies /\ pc[up] = "shutdown" /\ relay[c] = "open"
  BY DEF Copies, Dirs, UploadDone
<1>2. /\ pc' \in [Copies -> {"off", "read", "write", "shutdown", "done", "dropped"}]
      /\ pc'[up] = "done" /\ \A x \in Copies \ {up} : pc'[x] = pc[x]
  BY <1>1 DEF UploadDone, IInv, TypeOK
<1>3. /\ relay' \in [Conns -> {"new", "open", "draining", "closed"}]
      /\ \A b \in Conns : relay'[b] = "new" => relay[b] = "new"
      /\ relay'[c] = "draining"
  BY DEF UploadDone, IInv, TypeOK
<1>4. /\ UNCHANGED <<rated, path, held, short, acc, why, counted, userCount, dirty, written, grants, saved>>
      /\ UNCHANGED <<remaining, granted, spent>>
  BY DEF UploadDone, quotaVars
<1>5. TypeOK'
  BY <1>2, <1>3, <1>4 DEF IInv, TypeOK
<1>6. BalanceExact' /\ CleanMeansSaved'
  BY <1>4 DEF IInv, BalanceExact, CleanMeansSaved
<1>7. ASSUME NEW x \in Copies PROVE LoopBooks(x)'
  <2>1. LoopBooks(x) /\ x[1] \in Conns /\ up[1] = c
    BY LoopFacts DEF Copies
  <2>2. CASE x = up
    BY <1>1, <1>2, <1>3, <1>4, <2>1, <2>2 DEF LoopBooks
  <2>3. CASE x # up
    BY <1>2, <1>3, <1>4, <2>1, <2>3 DEF LoopBooks
  <2>. QED
    BY <2>2, <2>3
<1>. QED
  BY <1>5, <1>6, <1>7 DEF IInv

\* A grant replaces an unlimited or used up balance, and raises any other.
LEMMA AddQuotaIInv ==
    ASSUME IInv, NEW a \in Grants, AddQuota(a)
    PROVE  IInv'
<1>1. a \in Nat /\ a > 0 /\ remaining \in Int /\ BalanceExact /\ granted \in Nat /\ spent \in Nat
  BY QuotaAssumption DEF IInv, TypeOK
<1>2. BalanceExact' /\ remaining' \in Int /\ granted' \in Nat
  BY <1>1 DEF AddQuota, BalanceExact, Unlimited
<1>3. /\ UNCHANGED <<rated, relay, path, spent>> /\ saved' = userCount
      /\ UNCHANGED <<pc, held, short, acc, why, counted, userCount, dirty, written>>
  BY DEF AddQuota, loopVars
<1>4. grants' \in Nat
  BY DEF AddQuota, IInv, TypeOK
<1>5. TypeOK' /\ CleanMeansSaved'
  BY <1>2, <1>3, <1>4 DEF IInv, TypeOK, CleanMeansSaved
<1>6. \A x \in Copies : LoopBooks(x)'
  BY <1>3 DEF IInv, LoopBooks
<1>. QED
  BY <1>2, <1>5, <1>6 DEF IInv

\* update_config and the flusher leave the balance and the loops alone.
LEMMA ControlIInv ==
    ASSUME IInv, (\E r \in BOOLEAN : UpdateConfig(r)) \/ Flush
    PROVE  IInv'
<1>1. /\ UNCHANGED <<relay, path, pc, held, short, acc, why, counted, userCount, written, grants>>
      /\ UNCHANGED <<remaining, granted, spent>>
  BY DEF UpdateConfig, Flush, quotaVars
<1>2. rated' \in BOOLEAN /\ dirty' \in BOOLEAN
  BY DEF UpdateConfig, Flush, IInv, TypeOK
<1>3. saved' \in [Dirs -> Nat] /\ CleanMeansSaved'
  BY <1>1 DEF UpdateConfig, Flush, IInv, TypeOK, CleanMeansSaved
<1>4. TypeOK'
  BY <1>1, <1>2, <1>3 DEF IInv, TypeOK
<1>5. BalanceExact' /\ \A x \in Copies : LoopBooks(x)'
  BY <1>1 DEF IInv, BalanceExact, LoopBooks
<1>. QED
  BY <1>3, <1>4, <1>5 DEF IInv

\* Every step of the system preserves the invariant.
THEOREM NextIInv == IInv /\ [Next]_vars => IInv'
<1>. SUFFICES ASSUME IInv, [Next]_vars PROVE IInv'
  OBVIOUS
<1>1. ASSUME NEW c \in Conns, Open(c) PROVE IInv'
  BY <1>1, OpenIInv
<1>2. ASSUME NEW c \in Conns, UploadDone(c) PROVE IInv'
  BY <1>2, UploadDoneIInv
<1>3. ASSUME NEW c \in Conns, NEW d \in Dirs, NEW n \in 1..MaxRead, Read(c, d, n) PROVE IInv'
  BY <1>3, ReadIInv
<1>4. ASSUME NEW c \in Conns, NEW d \in Dirs, ReadEof(c, d) PROVE IInv'
  BY <1>4, ReadEofIInv
<1>5. ASSUME NEW c \in Conns, NEW d \in Dirs, NEW timer \in BOOLEAN, WriteDone(c, d, timer)
      PROVE IInv'
  BY <1>5, WriteDoneIInv
<1>6. ASSUME NEW c \in Conns, NEW part \in Parts(c), DownloadDone(c, part) PROVE IInv'
  BY <1>6, DownloadDoneIInv
<1>7. ASSUME NEW c \in Conns, NEW part \in Parts(c), NEW d \in Dirs, LoopError(c, d, part)
      PROVE IInv'
  BY <1>7, DropAllIInv DEF LoopError
<1>8. ASSUME NEW c \in Conns, NEW part \in Parts(c), DrainTimeout(c, part) PROVE IInv'
  BY <1>8, DropAllIInv DEF DrainTimeout
<1>9. ASSUME NEW c \in Conns, NEW part \in Parts(c), Disconnect(c, part) PROVE IInv'
  BY <1>9, DropAllIInv DEF Disconnect
<1>10. ASSUME NEW a \in Grants, AddQuota(a) PROVE IInv'
  BY <1>10, AddQuotaIInv
<1>11. CASE (\E r \in BOOLEAN : UpdateConfig(r)) \/ Flush
  BY <1>11, ControlIInv
<1>12. CASE UNCHANGED vars
  BY <1>12 DEF vars, IInv, TypeOK, BalanceExact, CleanMeansSaved, LoopBooks
<1>. QED
  BY <1>1, <1>2, <1>3, <1>4, <1>5, <1>6, <1>7, <1>8, <1>9, <1>10, <1>11, <1>12 DEF Next

\* The books of one loop bound what it can lose.
LEMMA IInvImpliesBounded == IInv => CountingLossBounded
<1>. SUFFICES ASSUME IInv, NEW x \in Copies
              PROVE  /\ counted[x] <= written[x]
                     /\ pc[x] \in {"shutdown", "done"} => counted[x] = written[x]
                     /\ written[x] - counted[x] < CommitAt + MaxRead
  BY DEF CountingLossBounded
<1>. QED
  BY LoopFacts DEF LoopBooks

\* For every number of connections and every interleaving of reads, writes,
\* grants and drops: the state is well typed, the balance is exact, and a clean
\* state has been saved.
THEOREM QuotaSafe == Spec => [](TypeOK /\ BalanceExact /\ CleanMeansSaved)
<1>1. IInv => TypeOK /\ BalanceExact /\ CleanMeansSaved
  BY DEF IInv
<1>. QED
  BY InitIInv, NextIInv, <1>1, PTL DEF Spec

\* No loop of copy_bidirectional_with_rate_limit fails to count more than one
\* commit and one buffer, and one that ends by itself counts everything.
THEOREM LossBounded == Spec => []CountingLossBounded
BY InitIInv, NextIInv, IInvImpliesBounded, PTL DEF Spec

\* Every step of the relays and of the API is a step of the account or leaves
\* it alone: a reservation is a covered withdrawal, a grant is an addition.
LEMMA StepIsLedgerStep == IInv /\ [Next]_vars => [Ledger!Next]_(Ledger!ledgerVars)
<1>. SUFFICES ASSUME IInv, [Next]_vars PROVE [Ledger!Next]_(Ledger!ledgerVars)
  OBVIOUS
<1>. USE DEF Ledger!ledgerVars
<1>0. remaining \in Int /\ granted \in Nat /\ spent \in Nat /\ BalanceExact
  BY DEF IInv, TypeOK
<1>1. ASSUME NEW c \in Conns, NEW d \in Dirs, NEW n \in 1..MaxRead, Read(c, d, n)
      PROVE  [Ledger!Next]_(Ledger!ledgerVars)
  <2>. DEFINE got == IF Metered(path[c]) THEN reserve_quota(n) ELSE n
  <2>1. got \in Nat /\ (Metered(path[c]) /\ remaining # Unlimited => got <= remaining)
    BY <1>0, ReserveBounded, QuotaAssumption
  <2>2. \/ UNCHANGED <<remaining, granted, spent>>
        \/ /\ got > 0 /\ Metered(path[c]) /\ remaining # Unlimited
           /\ remaining' = remaining - got /\ spent' = spent + got /\ granted' = granted
    BY <1>1 DEF Read, quotaVars
  <2>. HIDE DEF got
  <2>3. CASE UNCHANGED <<remaining, granted, spent>>
    BY <2>3
  <2>4. CASE /\ got > 0 /\ Metered(path[c]) /\ remaining # Unlimited
             /\ remaining' = remaining - got /\ spent' = spent + got /\ granted' = granted
    <3>1. got \in 1..remaining
      BY <1>0, <2>1, <2>4
    <3>2. Ledger!Withdraw(got)
      BY <2>1, <2>4 DEF Ledger!Withdraw, Ledger!Limited, Unlimited
    <3>. QED
      BY <3>1, <3>2 DEF Ledger!Next
  <2>. QED
    BY <2>2, <2>3, <2>4
<1>2. ASSUME NEW a \in Grants, AddQuota(a) PROVE [Ledger!Next]_(Ledger!ledgerVars)
  <2>1. a \in Nat
    BY QuotaAssumption
  <2>2. Ledger!Grant(a)
    BY <1>0, <1>2, <2>1 DEF AddQuota, Ledger!Grant, Ledger!Limited, BalanceExact, Unlimited
  <2>. QED
    BY <2>2 DEF Ledger!Next
<1>3. CASE UNCHANGED <<remaining, granted, spent>>
  BY <1>3
<1>4. ASSUME NEW c \in Conns, Open(c) \/ UploadDone(c) PROVE UNCHANGED <<remaining, granted, spent>>
  BY <1>4 DEF Open, UploadDone, quotaVars
<1>5. ASSUME NEW c \in Conns, NEW d \in Dirs, NEW timer \in BOOLEAN, ReadEof(c, d) \/ WriteDone(c, d, timer)
      PROVE  UNCHANGED <<remaining, granted, spent>>
  BY <1>5 DEF ReadEof, WriteDone, quotaVars
<1>6. ASSUME NEW c \in Conns, NEW part \in Parts(c), NEW d \in Dirs,
             DownloadDone(c, part) \/ LoopError(c, d, part) \/ DrainTimeout(c, part) \/ Disconnect(c, part)
      PROVE  UNCHANGED <<remaining, granted, spent>>
  BY <1>6 DEF DownloadDone, LoopError, DrainTimeout, Disconnect, DropAll, quotaVars
<1>7. ASSUME (\E r \in BOOLEAN : UpdateConfig(r)) \/ Flush \/ UNCHANGED vars
      PROVE  UNCHANGED <<remaining, granted, spent>>
  BY <1>7 DEF UpdateConfig, Flush, vars, quotaVars
<1>8. Dirs # {}
  BY DEF Dirs
<1>. QED
  BY <1>1, <1>2, <1>3, <1>4, <1>5, <1>6, <1>7, <1>8 DEF Next

\* The relays implement the account: the promise of QuotaLedger holds of
\* remaining_bytes whatever the connections and the API do.
THEOREM RelaysImplementLedger == Spec => ImplementsLedger
<1>1. Init => Ledger!Init
  BY QuotaAssumption DEF Init, Ledger!Init, Ledger!Limited, Unlimited
<1>. QED
  BY <1>1, InitIInv, NextIInv, StepIsLedgerStep, PTL DEF Spec, ImplementsLedger, Ledger!Spec

\* A limited user never becomes unlimited again.
THEOREM StaysLimited == Spec => LimitedStaysLimited
<1>1. IInv /\ [Next]_vars => [remaining # Unlimited => remaining' # Unlimited]_vars
  <2>. SUFFICES ASSUME IInv, [Next]_vars, remaining # Unlimited PROVE remaining' # Unlimited
    BY DEF vars
  <2>1. remaining \in Int /\ remaining >= 0
    BY DEF IInv, TypeOK, BalanceExact
  <2>2. [Ledger!Next]_(Ledger!ledgerVars)
    BY StepIsLedgerStep
  <2>3. CASE UNCHANGED Ledger!ledgerVars
    BY <2>1, <2>3 DEF Ledger!ledgerVars
  <2>4. ASSUME NEW a \in Grants, Ledger!Grant(a) PROVE remaining' # Unlimited
    BY <2>1, <2>4, QuotaAssumption DEF Ledger!Grant, Ledger!Limited, Unlimited
  <2>5. ASSUME NEW k \in 1..remaining, Ledger!Withdraw(k) PROVE remaining' # Unlimited
    BY <2>1, <2>5 DEF Ledger!Withdraw, Unlimited
  <2>. QED
    BY <2>2, <2>3, <2>4, <2>5 DEF Ledger!Next
<1>. QED
  BY <1>1, InitIInv, NextIInv, PTL DEF Spec, LimitedStaysLimited
=============================================================================
