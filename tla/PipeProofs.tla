----------------------------- MODULE PipeProofs -----------------------------
(***************************************************************************)
(* Proofs about pipes, for every number of readers and writers, every size *)
(* of the ring and every width of its counters: PInv is inductive, so the  *)
(* safety properties hold, and the ring buffer implements Fifo.            *)
(***************************************************************************)
EXTENDS Pipe, SequenceTheorems, TLAPS

(***************************************************************************)
(* Counters that wrap around, and cells of the ring                        *)
(***************************************************************************)
\* Unsigned arithmetic is off by at most one turn of the counter.
LEMMA Wraps ==
    ASSUME NEW x \in Int, NEW U \in Nat, U > 0
    PROVE  /\ x % U \in 0..U - 1
           /\ 0 <= x /\ x < U => x % U = x
           /\ U <= x /\ x < 2 * U => x % U = x - U
           /\ -U <= x /\ x < 0 => x % U = x + U
OBVIOUS

\* Division with remainder: there is one quotient and one remainder.
LEMMA Quotient ==
    ASSUME NEW P \in Nat, P > 0, NEW a \in Int
    PROVE  \E q \in Int : a = P * q + (a % P) /\ a % P \in 0..P - 1
<1>1. a \div P \in Int
    OBVIOUS
<1>2. a % P \in 0..P - 1
    OBVIOUS
<1>3. a = P * (a \div P) + (a % P)
    OBVIOUS
<1> QED BY <1>1, <1>2, <1>3, ZenonT(60)

\* A remainder that is below the size of the ring is the cell itself.
LEMMA Remainder ==
    ASSUME NEW P \in Nat, P > 0, NEW q \in Int, NEW r \in 0..P - 1
    PROVE  (P * q + r) % P = r
OBVIOUS

\* A turn of the counter is a whole number of turns of the ring.
LEMMA SameCell ==
    ASSUME NEW U \in Nat, NEW P \in Nat, P > 0, U % P = 0, NEW x \in Int
    PROVE  (x - U) % P = x % P
<1>1. PICK k \in Int : U = P * k
    BY Quotient
<1>2. PICK q \in Int : x = P * q + (x % P) /\ x % P \in 0..P - 1
    BY Quotient, ZenonT(60)
<1>3. q - k \in Int /\ x - U = P * (q - k) + (x % P)
    BY <1>1, <1>2
<1>4. (P * (q - k) + (x % P)) % P = x % P
    BY <1>2, <1>3, Remainder, ZenonT(60)
<1> QED BY <1>3, <1>4

\* Bytes less than a ring apart are in different cells.
LEMMA DistinctCells ==
    ASSUME NEW P \in Nat, P > 0, NEW a \in Int, NEW b \in Int, a < b, b < a + P
    PROVE  a % P # b % P
<1> SUFFICES ASSUME a % P = b % P PROVE FALSE
    OBVIOUS
<1>1. PICK q \in Int : a = P * q + (a % P) /\ a % P \in 0..P - 1
    BY Quotient, ZenonT(60)
<1>2. PICK k \in Int : b = P * k + (b % P) /\ b % P \in 0..P - 1
    BY Quotient, ZenonT(60)
<1>3. b - a = P * (k - q)
    BY <1>1, <1>2
<1>4. k - q <= 0 => P * (k - q) <= 0
    OBVIOUS
<1>5. k - q >= 1 => P * (k - q) >= P
    OBVIOUS
<1> QED BY <1>3, <1>4, <1>5

\* The smaller one of n and what there is.
LEMMA MinOfTwo ==
    ASSUME NEW a \in Nat, NEW b \in Nat
    PROVE  /\ Min({a, b}) \in {a, b}
           /\ Min({a, b}) <= a /\ Min({a, b}) <= b
BY DEF Min

\* The distance of two counters, and when they are a ring apart.
LEMMA Distance ==
    ASSUME NEW r \in 0..UINT - 1, NEW w \in 0..UINT - 1
    PROVE  /\ (w - r) % UINT \in 0..UINT - 1
           /\ r <= w => (w - r) % UINT = w - r
           /\ r > w => (w - r) % UINT = w - r + UINT
           /\ w = plus(r, PIPESIZE) <=> (w - r) % UINT = PIPESIZE
<1>1. UINT \in Nat /\ UINT > PIPESIZE /\ PIPESIZE \in Nat /\ PIPESIZE > 0
    BY PipeAssumption
<1>2. /\ (w - r) % UINT \in 0..UINT - 1
      /\ r <= w => (w - r) % UINT = w - r
      /\ r > w => (w - r) % UINT = w - r + UINT
    BY <1>1, Wraps
<1>3. w = plus(r, PIPESIZE) <=> (w - r) % UINT = PIPESIZE
    BY <1>1, <1>2, Wraps DEF plus
<1> QED BY <1>2, <1>3

\* Used is the distance between the counters, and a full ring is one in which
\* it is PIPESIZE.
LEMMA UsedDistance ==
    ASSUME TypeOK
    PROVE  /\ Used \in 0..UINT - 1
           /\ nread <= nwrite => Used = nwrite - nread
           /\ nread > nwrite => Used = nwrite - nread + UINT
           /\ Full <=> Used = PIPESIZE
           /\ nread = nwrite <=> Used = 0
<1>1. nread \in 0..UINT - 1 /\ nwrite \in 0..UINT - 1 /\ UINT \in Nat
    BY PipeAssumption DEF TypeOK
<1>2. /\ Used \in 0..UINT - 1
      /\ nread <= nwrite => Used = nwrite - nread
      /\ nread > nwrite => Used = nwrite - nread + UINT
      /\ Full <=> Used = PIPESIZE
    BY <1>1, Distance DEF Used, Full
<1> QED BY <1>1, <1>2

\* What a writer adds to nwrite, and a reader to nread, it adds to or takes
\* from the distance.
LEMMA Advance ==
    ASSUME TypeOK, NEW m \in Nat
    PROVE  /\ plus(nwrite, m) \in 0..UINT - 1 /\ plus(nread, m) \in 0..UINT - 1
           /\ Used + m <= PIPESIZE => (plus(nwrite, m) - nread) % UINT = Used + m
           /\ m <= Used => (nwrite - plus(nread, m)) % UINT = Used - m
<1>1. /\ nread \in 0..UINT - 1 /\ nwrite \in 0..UINT - 1
      /\ UINT \in Nat /\ UINT > PIPESIZE /\ PIPESIZE \in Nat /\ PIPESIZE > 0
    BY PipeAssumption DEF TypeOK
<1>2. plus(nwrite, m) \in 0..UINT - 1 /\ plus(nread, m) \in 0..UINT - 1
    BY <1>1, Wraps DEF plus
<1>3. ASSUME Used + m <= PIPESIZE PROVE (plus(nwrite, m) - nread) % UINT = Used + m
    <2>1. plus(nwrite, m) = nwrite + m \/ plus(nwrite, m) = nwrite + m - UINT
        BY <1>1, <1>3, UsedDistance, Wraps DEF plus
    <2> QED BY <1>1, <1>2, <1>3, <2>1, UsedDistance, Wraps
<1>4. ASSUME m <= Used PROVE (nwrite - plus(nread, m)) % UINT = Used - m
    <2>1. plus(nread, m) = nread + m \/ plus(nread, m) = nread + m - UINT
        BY <1>1, <1>4, UsedDistance, Wraps DEF plus
    <2> QED BY <1>1, <1>2, <1>4, <2>1, UsedDistance, Wraps
<1> QED BY <1>2, <1>3, <1>4

\* What pipewrite() copies fits into the ring, and it stops early only when
\* the ring is full.
LEMMA WriteAmount ==
    ASSUME PInv, NEW p \in Procs, pipewrite(p)
    PROVE  \E m \in Nat :
            /\ m = Min({left[p], Space})
            /\ m <= left[p] /\ Used + m <= PIPESIZE
            /\ m < left[p] => Used + m = PIPESIZE
            /\ nwrite' = plus(nwrite, m) /\ nread' = nread
            /\ nwrite' \in 0..UINT - 1
            /\ Used' = Used + m
            /\ data' \in [0..PIPESIZE - 1 -> Bytes]
<1> DEFINE m == Min({left[p], Space})
<1>1. TypeOK /\ Used <= PIPESIZE /\ Used \in Nat /\ PIPESIZE \in Nat /\ left[p] \in Nat
    BY UsedDistance, PipeAssumption DEF PInv, Bounded, TypeOK
<1>2. Space \in Nat /\ Used + Space = PIPESIZE
    BY <1>1 DEF Space
<1>3. /\ m \in Nat /\ m <= left[p] /\ Used + m <= PIPESIZE
      /\ m < left[p] => Used + m = PIPESIZE
    BY <1>1, <1>2, MinOfTwo
<1>4. nwrite' = plus(nwrite, m) /\ nread' = nread
    BY DEF pipewrite
<1>5. data' \in [0..PIPESIZE - 1 -> Bytes]
    <2>1. PICK s \in [1..m -> Bytes] :
            data' = [i \in DOMAIN data |->
                        IF \E k \in 1..m : (nwrite + k - 1) % PIPESIZE = i
                        THEN s[CHOOSE k \in 1..m : (nwrite + k - 1) % PIPESIZE = i]
                        ELSE data[i]]
        BY ZenonT(60) DEF pipewrite
    <2> HIDE DEF m
    <2>2. data \in [0..PIPESIZE - 1 -> Bytes]
        BY <1>1 DEF TypeOK
    <2>3. ASSUME NEW i \in 0..PIPESIZE - 1, \E k \in 1..m : (nwrite + k - 1) % PIPESIZE = i
          PROVE  s[CHOOSE k \in 1..m : (nwrite + k - 1) % PIPESIZE = i] \in Bytes
        <3>1. (CHOOSE k \in 1..m : (nwrite + k - 1) % PIPESIZE = i) \in 1..m
            BY <2>3
        <3> QED BY <2>1, <3>1
    <2> QED BY <2>1, <2>2, <2>3
<1> HIDE DEF m
<1>6. nwrite' \in 0..UINT - 1 /\ Used' = Used + m
    BY <1>1, <1>3, <1>4, Advance DEF Used
<1>7. m = Min({left[p], Space})
    BY DEF m
<1> QED BY <1>3, <1>4, <1>5, <1>6, <1>7

\* What piperead() copies is there, and it takes all there is unless it got
\* its n bytes.
LEMMA ReadAmount ==
    ASSUME PInv, NEW p \in Procs, piperead_copy(p)
    PROVE  \E m \in Nat :
            /\ m <= Used
            /\ nread' = plus(nread, m) /\ nread' \in 0..UINT - 1
            /\ Used' = Used - m
            /\ out' = [k \in 1..m |-> data[(nread + k - 1) % PIPESIZE]]
<1> DEFINE m == Min({left[p], Used})
<1>1. TypeOK /\ Used \in Nat /\ left[p] \in Nat
    BY UsedDistance, PipeAssumption DEF PInv, TypeOK
<1>2. m \in Nat /\ m <= Used
    BY <1>1, MinOfTwo
<1>3. /\ nread' = plus(nread, m) /\ nwrite' = nwrite
      /\ out' = [k \in 1..m |-> data[(nread + k - 1) % PIPESIZE]]
    BY DEF piperead_copy
<1> HIDE DEF m
<1>4. nread' \in 0..UINT - 1 /\ Used' = Used - m
    BY <1>1, <1>2, <1>3, Advance DEF Used
<1> QED BY <1>2, <1>3, <1>4

(***************************************************************************)
(* The steps keep the invariant                                            *)
(***************************************************************************)
\* Counters that stay leave the distance as it is.
LEMMA SameCounters ==
    ASSUME UNCHANGED <<nread, nwrite>>
    PROVE  Used' = Used /\ Full' = Full
BY DEF Used, Full, plus

\* A round of pipewrite(): it keeps the counters within a ring of each other,
\* and if it does not wake the readers it is killed or has nobody to wake.
LEMMA PipewriteStep ==
    ASSUME PInv, NEW p \in Procs, pipewrite(p)
    PROVE  PInv'
<1>1. PICK m \in Nat :
        /\ m = Min({left[p], Space})
        /\ m <= left[p] /\ Used + m <= PIPESIZE
        /\ m < left[p] => Used + m = PIPESIZE
        /\ nwrite' \in 0..UINT - 1 /\ nread' = nread
        /\ Used' = Used + m
        /\ nwrite' = plus(nwrite, m)
        /\ data' \in [0..PIPESIZE - 1 -> Bytes]
    BY WriteAmount, ZenonT(60)
<1>2. /\ p \in Writers /\ p \notin Readers /\ pc[p] = "loop" /\ LockFree
      /\ UNCHANGED <<nread, readopen, writeopen, freed, fd, killed, out>>
    BY PipeAssumption DEF pipewrite
<1>3. \/ /\ pc' = wakeup(return(pc, p), Readers)
         /\ left' = [left EXCEPT ![p] = 0]
      \/ /\ ~readopen \/ killed[p]
         /\ pc' = return(pc, p)
         /\ left' = [left EXCEPT ![p] = 0]
      \/ /\ left[p] > m /\ readopen
         /\ pc' = wakeup([pc EXCEPT ![p] = "sleep"], Readers)
         /\ left' = [left EXCEPT ![p] = @ - m]
    BY <1>1, ZenonT(60) DEF pipewrite
<1>4. TypeOK'
    <2>1. pc' \in [Procs -> {"user", "loop", "sleep", "asleep"}]
        BY <1>3 DEF PInv, TypeOK, wakeup, return
    <2>2. left' \in [Procs -> 0..MaxN]
        BY <1>1, <1>3, PipeAssumption, SMTT(60) DEF PInv, TypeOK
    <2> QED BY <1>1, <1>2, <2>1, <2>2 DEF PInv, TypeOK
<1>5. Used \in Nat /\ (Full <=> Used = PIPESIZE) /\ (Full' <=> Used' = PIPESIZE)
    <2>1. Full' <=> Used' = PIPESIZE
        BY <1>4, Distance, ZenonT(60) DEF TypeOK, Full, Used
    <2> QED BY <2>1, UsedDistance DEF PInv
<1>6. Bounded'
    BY <1>1 DEF Bounded
<1>7. ASSUME NEW q \in Procs PROVE /\ pc'[q] = "sleep" => q = p
                                   /\ q \in Readers => pc'[q] # "sleep"
                                   /\ pc'[q] = "asleep" => pc[q] = "asleep"
                                   /\ q # p /\ pc[q] = "user" => pc'[q] = "user"
    BY <1>2, <1>3 DEF PInv, TypeOK, LockFree, wakeup, return
<1>8. Ends'
    BY <1>2, <1>7 DEF PInv, Ends
<1>9. OneHolder'
    BY <1>7 DEF OneHolder
<1>10. Waiting'
    <2>1. ASSUME NEW q \in Writers, Sleepy(q)' PROVE Full' /\ readopen'
        <3>1. CASE q # p
            <4>1. pc[q] = "asleep" /\ q \in Procs
                BY <1>7, <2>1, <3>1 DEF Sleepy, Procs
            <4>2. Full /\ readopen
                BY <4>1 DEF PInv, Waiting, Sleepy
            <4> QED BY <1>1, <1>2, <1>5, <4>2, PipeAssumption
        <3>2. CASE q = p
            <4>1. left[p] > m /\ readopen
                BY <1>2, <1>3, <2>1, <3>2 DEF Sleepy, wakeup, return, PInv, TypeOK
            <4>2. left[p] \in Nat
                BY DEF PInv, TypeOK
            <4> QED BY <1>1, <1>2, <1>5, <4>1, <4>2
        <3> QED BY <3>1, <3>2
    <2>2. ASSUME NEW q \in Readers, Sleepy(q)'
          PROVE  writeopen' /\ (nread' = nwrite' \/ \E w \in Writers : killed'[w])
        <3>1. q \in Procs /\ pc[q] = "asleep" /\ pc'[q] = "asleep"
            BY <1>7, <2>2 DEF Sleepy, Procs
        <3>2. readopen
            BY <3>1 DEF PInv, Ends
        <3>3. killed[p]
            BY <1>2, <1>3, <2>2, <3>1, <3>2 DEF wakeup
        <3>4. writeopen
            BY <2>2, <3>1 DEF PInv, Waiting, Sleepy
        <3> QED BY <1>2, <3>3, <3>4
    <2> QED BY <2>1, <2>2 DEF Waiting
<1> QED BY <1>4, <1>6, <1>8, <1>9, <1>10 DEF PInv

\* piperead() goes to sleep only before an empty pipe that may be written to.
LEMMA PipereadWaitStep ==
    ASSUME PInv, NEW p \in Procs, piperead_wait(p)
    PROVE  PInv'
<1>1. /\ p \in Readers /\ p \notin Writers /\ pc[p] = "loop" /\ LockFree
      /\ nread = nwrite /\ writeopen
      /\ UNCHANGED <<data, nread, nwrite, readopen, writeopen, freed, fd, killed, out>>
      /\ pc' = [pc EXCEPT ![p] = "user"] \/ pc' = [pc EXCEPT ![p] = "sleep"]
      /\ left' = left \/ left' = [left EXCEPT ![p] = 0]
    BY PipeAssumption DEF piperead_wait, pipe, return
<1>2. TypeOK'
    <2>1. pc' \in [Procs -> {"user", "loop", "sleep", "asleep"}]
        BY <1>1 DEF PInv, TypeOK
    <2>2. left' \in [Procs -> 0..MaxN]
        BY <1>1, PipeAssumption DEF PInv, TypeOK
    <2> QED BY <1>1, <2>1, <2>2 DEF PInv, TypeOK
<1>3. Used' = Used /\ Full' = Full
    BY <1>1, SameCounters
<1>4. Bounded'
    BY <1>3 DEF PInv, Bounded
<1>5. Ends'
    BY <1>1 DEF PInv, TypeOK, Ends
<1>6. OneHolder'
    BY <1>1 DEF PInv, TypeOK, OneHolder, LockFree
<1>7. Waiting'
    BY <1>1, <1>3 DEF PInv, TypeOK, Waiting, Sleepy, Procs
<1> QED BY <1>2, <1>4, <1>5, <1>6, <1>7 DEF PInv

\* piperead() wakes every writer that waits for room.
LEMMA PipereadCopyStep ==
    ASSUME PInv, NEW p \in Procs, piperead_copy(p)
    PROVE  PInv'
<1>1. PICK m \in Nat : m <= Used /\ Used' = Used - m /\ nread' \in 0..UINT - 1
    BY ReadAmount
<1>2. /\ p \in Readers /\ pc[p] = "loop" /\ LockFree
      /\ ~(nread = nwrite /\ writeopen)
      /\ pc' = wakeup(return(pc, p), Writers)
      /\ left' = [left EXCEPT ![p] = 0]
      /\ UNCHANGED <<data, nwrite, readopen, writeopen, freed, fd, killed>>
    BY DEF piperead_copy
<1>3. TypeOK'
    <2>1. pc' \in [Procs -> {"user", "loop", "sleep", "asleep"}]
        BY <1>2 DEF PInv, TypeOK, wakeup, return
    <2>2. left' \in [Procs -> 0..MaxN]
        BY <1>2, PipeAssumption DEF PInv, TypeOK
    <2> QED BY <1>1, <1>2, <2>1, <2>2 DEF PInv, TypeOK
<1>4. Used \in Nat
    BY UsedDistance DEF PInv
<1>5. Bounded'
    BY <1>1, <1>4, PipeAssumption DEF PInv, Bounded
<1>6. ASSUME NEW q \in Procs PROVE /\ pc'[q] # "sleep"
                                   /\ q \in Writers => pc'[q] # "asleep"
                                   /\ pc'[q] = "asleep" => pc[q] = "asleep"
                                   /\ pc[q] = "user" => pc'[q] = "user"
    BY <1>2 DEF PInv, TypeOK, LockFree, wakeup, return
<1>7. Ends'
    BY <1>2, <1>6 DEF PInv, Ends
<1>8. OneHolder'
    BY <1>6 DEF OneHolder
<1>9. Waiting'
    <2>1. ASSUME NEW q \in Writers PROVE ~Sleepy(q)'
        BY <1>6 DEF Sleepy, Procs
    <2>2. ASSUME NEW q \in Readers, Sleepy(q)'
          PROVE  writeopen' /\ \E w \in Writers : killed'[w]
        <3>1. pc[q] = "asleep"
            BY <1>6, <2>2 DEF Sleepy, Procs
        <3> QED BY <1>2, <3>1 DEF PInv, Waiting, Sleepy
    <2> QED BY <2>1, <2>2 DEF Waiting
<1> QED BY <1>3, <1>5, <1>7, <1>8, <1>9 DEF PInv

\* read() or write() begins, or a process goes to sleep or is woken by kill().
LEMMA ProcessStep ==
    ASSUME PInv, NEW p \in Procs,
           \/ \E n \in 0..MaxN : call(p, n)
           \/ sleep(p)
           \/ kill(p)
    PROVE  PInv'
<1>1. /\ UNCHANGED <<data, nread, nwrite, readopen, writeopen, freed, fd>>
      /\ left' \in [Procs -> 0..MaxN]
      /\ killed' \in [Procs -> BOOLEAN]
      /\ \A w \in Procs : killed[w] => killed'[w]
    BY ZenonT(60) DEF PInv, TypeOK, call, sleep, kill, pipe
<1>2. /\ pc' \in [Procs -> {"user", "loop", "sleep", "asleep"}]
      /\ \A q \in Procs : /\ pc'[q] = "sleep" => pc[q] = "sleep"
                          /\ pc'[q] = "asleep" => Sleepy(q)
                          /\ q \notin fd => pc'[q] = pc[q]
    BY SMTT(60) DEF PInv, TypeOK, Ends, call, sleep, kill, Sleepy
<1>3. TypeOK'
    BY <1>1, <1>2 DEF PInv, TypeOK
<1>4. Used' = Used /\ Full' = Full
    BY <1>1, SameCounters
<1>5. Bounded'
    BY <1>4 DEF PInv, Bounded
<1>6. Ends'
    BY <1>1, <1>2 DEF PInv, Ends
<1>7. OneHolder'
    BY <1>2 DEF PInv, OneHolder
<1>8. Waiting'
    BY <1>1, <1>2, <1>4 DEF PInv, Waiting, Sleepy, Procs
<1> QED BY <1>3, <1>5, <1>6, <1>7, <1>8 DEF PInv

\* pipeclose() of the last reference to an end wakes everyone who waits at the
\* other one, and frees the pipe when that end has gone before.
LEMMA PipecloseStep ==
    ASSUME PInv, NEW p \in Procs, pipeclose(p)
    PROVE  PInv'
<1>1. /\ p \in fd /\ pc[p] = "user" /\ fd' = fd \ {p}
      /\ UNCHANGED <<data, nread, nwrite, left, killed, out>>
    BY DEF pipeclose
<1>2. Used' = Used /\ Full' = Full
    BY <1>1, SameCounters
<1>3. Bounded'
    BY <1>2 DEF PInv, Bounded
<1>4. Readers \cap Writers = {} /\ Procs = Readers \cup Writers
    BY PipeAssumption DEF Procs
<1>5. ASSUME NEW q \in Procs PROVE /\ pc'[q] = "sleep" => pc[q] = "sleep"
                                   /\ pc'[q] = "asleep" => pc[q] = "asleep"
                                   /\ pc[q] = "user" => pc'[q] = "user"
    BY ZenonT(60) DEF pipeclose, wakeup, PInv, TypeOK
<1>6. TypeOK'
    <2>1. pc' \in [Procs -> {"user", "loop", "sleep", "asleep"}]
        BY ZenonT(60) DEF pipeclose, wakeup, PInv, TypeOK
    <2>2. readopen' \in BOOLEAN /\ writeopen' \in BOOLEAN /\ freed' \in BOOLEAN
        BY ZenonT(60) DEF pipeclose, unused, PInv, TypeOK
    <2> QED BY <1>1, <2>1, <2>2 DEF PInv, TypeOK
<1>7. Ends'
    <2>1. /\ p \in Writers => fd' \cap Readers = fd \cap Readers
          /\ p \in Readers => fd' \cap Writers = fd \cap Writers
          /\ p \in Readers => fd \cap Readers # {}
          /\ p \in Writers => fd \cap Writers # {}
          /\ p \in Readers \/ p \in Writers
        BY <1>1, <1>4
    <2>2. \/ /\ fd' \cap Readers # {} \/ p \in Writers
             /\ fd' \cap Writers # {} \/ p \in Readers
             /\ (readopen' <=> readopen) /\ (writeopen' <=> writeopen) /\ (freed' <=> freed)
          \/ /\ fd' \cap Readers = {} /\ p \in Readers
             /\ ~readopen' /\ (writeopen' <=> writeopen) /\ (freed' <=> ~writeopen)
          \/ /\ fd' \cap Writers = {} /\ p \in Writers
             /\ (readopen' <=> readopen) /\ ~writeopen' /\ (freed' <=> ~readopen)
        BY ZenonT(60) DEF pipeclose, unused
    <2>3. /\ readopen' <=> fd' \cap Readers # {}
          /\ writeopen' <=> fd' \cap Writers # {}
        <3>1. /\ readopen <=> fd \cap Readers # {}
              /\ writeopen <=> fd \cap Writers # {}
            BY DEF PInv, Ends
        <3> QED BY <2>1, <2>2, <3>1, ZenonT(60)
    <2>4. freed' <=> ~readopen' /\ ~writeopen'
        <3>1. freed <=> ~readopen /\ ~writeopen
            BY <1>4 DEF PInv, TypeOK, Ends
        <3> QED BY <2>2, <3>1, ZenonT(60)
    <2>5. fd' \subseteq Readers \cup Writers
        BY <1>4, <1>6 DEF TypeOK
    <2>6. freed' <=> fd' = {}
        BY <2>3, <2>5, <2>4
    <2>7. \A q \in Procs \ fd' : pc'[q] = "user"
        BY <1>1, <1>5 DEF PInv, Ends
    <2> QED BY <2>3, <2>6, <2>7 DEF Ends
<1>8. OneHolder'
    BY <1>5 DEF PInv, OneHolder
<1>9. Waiting'
    <2>1. ASSUME NEW q \in Writers, Sleepy(q)' PROVE Full' /\ readopen'
        <3>1. Full /\ readopen
            BY <1>4, <1>5, <2>1 DEF Sleepy, PInv, Waiting
        <3>2. CASE readopen'
            BY <1>2, <3>1, <3>2
        <3>3. CASE ~readopen'
            BY <1>4, <2>1, <3>1, <3>3, ZenonT(60) DEF pipeclose, wakeup, Sleepy, LockFree
        <3> QED BY <3>2, <3>3
    <2>2. ASSUME NEW q \in Readers, Sleepy(q)'
          PROVE  writeopen' /\ (nread' = nwrite' \/ \E w \in Writers : killed'[w])
        <3>1. writeopen /\ (nread = nwrite \/ \E w \in Writers : killed[w])
            BY <1>4, <1>5, <2>2 DEF Sleepy, PInv, Waiting
        <3>2. CASE writeopen'
            BY <1>1, <3>1, <3>2
        <3>3. CASE ~writeopen'
            BY <1>4, <2>2, <3>1, <3>3, ZenonT(60) DEF pipeclose, wakeup, Sleepy, LockFree
        <3> QED BY <3>2, <3>3
    <2> QED BY <2>1, <2>2 DEF Waiting
<1> QED BY <1>3, <1>6, <1>7, <1>8, <1>9 DEF PInv

(***************************************************************************)
(* The invariant and the properties                                        *)
(***************************************************************************)
\* pipealloc() makes an empty pipe with both ends open.
LEMMA InitPInv ==
    ASSUME Init
    PROVE  PInv
<1>1. TypeOK
    <2>1. nread \in 0..UINT - 1 /\ nwrite \in 0..UINT - 1
        BY PipeAssumption DEF Init, pipealloc
    <2>2. /\ pc \in [Procs -> {"user", "loop", "sleep", "asleep"}]
          /\ left \in [Procs -> 0..MaxN]
          /\ killed \in [Procs -> BOOLEAN]
        BY PipeAssumption DEF Init
    <2> QED BY <2>1, <2>2, ZenonT(60) DEF Init, pipealloc, TypeOK
<1>2. Used = 0
    BY <1>1, UsedDistance DEF Init, pipealloc
<1>3. Bounded
    BY <1>2, PipeAssumption DEF Bounded
<1>4. Ends
    BY PipeAssumption DEF Init, pipealloc, Ends, Procs
<1>5. OneHolder /\ Waiting
    BY DEF Init, OneHolder, Waiting, Sleepy, Procs
<1> QED BY <1>1, <1>3, <1>4, <1>5 DEF PInv

\* Every step keeps the invariant.
LEMMA NextPInv ==
    ASSUME PInv, [Next]_vars
    PROVE  PInv'
<1>1. CASE UNCHANGED vars
    <2>1. Used' = Used /\ Full' = Full
        BY <1>1, SameCounters DEF vars
    <2> QED BY <1>1, <2>1 DEF vars, PInv, TypeOK, Bounded, Ends, OneHolder, Waiting, Sleepy
<1>2. CASE Next
    <2>1. CASE Done
        BY <1>1, <2>1 DEF Done
    <2>2. ASSUME NEW p \in Procs, pipewrite(p) PROVE PInv'
        BY <2>2, PipewriteStep
    <2>3. ASSUME NEW p \in Procs, piperead_wait(p) PROVE PInv'
        BY <2>3, PipereadWaitStep
    <2>4. ASSUME NEW p \in Procs, piperead_copy(p) PROVE PInv'
        BY <2>4, PipereadCopyStep
    <2>5. ASSUME NEW p \in Procs, pipeclose(p) PROVE PInv'
        BY <2>5, PipecloseStep
    <2>6. ASSUME NEW p \in Procs, (\E n \in 0..MaxN : call(p, n)) \/ sleep(p) \/ kill(p)
          PROVE  PInv'
        BY <2>6, ProcessStep
    <2> QED BY <1>2, <2>1, <2>2, <2>3, <2>4, <2>5, <2>6, ZenonT(60) DEF Next
<1> QED BY <1>1, <1>2

\* PInv holds in every reachable state of a pipe.
THEOREM PipeInvariance == Spec => []PInv
<1>1. Init => PInv
    BY InitPInv
<1>2. PInv /\ [Next]_vars => PInv'
    BY NextPInv
<1> QED BY <1>1, <1>2, PTL DEF Spec

\* No process is inside piperead() or pipewrite() of a pipe that pipeclose()
\* has freed, and it is freed exactly when both ends are closed.
THEOREM PipeFreedOnce == Spec => []NoUseAfterFree
<1>1. PInv => NoUseAfterFree
    BY DEF PInv, Ends, NoUseAfterFree, TypeOK
<1> QED BY <1>1, PipeInvariance, PTL

\* No process sleeps in piperead() or pipewrite() on a condition that does not
\* hold: wakeup() is never lost, except for the one a killed writer omits.
THEOREM PipeSleepersWait == Spec => []SleepersWait
<1>1. PInv => SleepersWait
    BY DEF PInv, Waiting, Sleepy, SleepersWait, WriterWaits, ReaderWaits
<1> QED BY <1>1, PipeInvariance, PTL

(***************************************************************************)
(* The ring buffer implements Fifo                                         *)
(***************************************************************************)
\* n bytes are a sequence.
LEMMA BytesSequence ==
    ASSUME NEW n \in Nat, NEW s \in [1..n -> Bytes]
    PROVE  s \in Seq(Bytes) /\ Len(s) = n
<1>1. s \in Seq(Bytes)
    BY SeqDef
<1> QED BY <1>1, LenProperties

\* Every counter leads to a cell of the ring.
LEMMA RingCell ==
    ASSUME NEW r \in Int, NEW k \in Int
    PROVE  (r + k - 1) % PIPESIZE \in 0..PIPESIZE - 1
<1>1. r + k - 1 \in Int /\ PIPESIZE \in Nat /\ PIPESIZE > 0
    BY PipeAssumption
<1> QED BY <1>1, Wraps

\* The bytes in the pipe, before a step and after it.
LEMMA QueueSequence ==
    ASSUME PInv
    PROVE  /\ Used \in Nat /\ Queue \in Seq(Bytes) /\ Len(Queue) = Used
           /\ \A k \in 1..Used : Queue[k] = data[(nread + k - 1) % PIPESIZE]
<1>1. Used \in Nat /\ data \in [0..PIPESIZE - 1 -> Bytes] /\ nread \in Int
    BY UsedDistance, PipeAssumption DEF PInv, TypeOK
<1>2. Queue \in [1..Used -> Bytes]
    <2>1. ASSUME NEW k \in 1..Used PROVE data[(nread + k - 1) % PIPESIZE] \in Bytes
        <3>1. (nread + k - 1) % PIPESIZE \in 0..PIPESIZE - 1
            BY <1>1, RingCell
        <3> QED BY <1>1, <3>1
    <2> QED BY <2>1 DEF Queue
<1> QED BY <1>1, <1>2, BytesSequence, ZenonT(60) DEF Queue

\* The same of the state after a step.
LEMMA QueueSequenceNext ==
    ASSUME PInv'
    PROVE  /\ Used' \in Nat /\ Queue' \in Seq(Bytes) /\ Len(Queue') = Used'
           /\ \A k \in 1..Used' : Queue'[k] = data'[(nread' + k - 1) % PIPESIZE]
<1>1. /\ data' \in [0..PIPESIZE - 1 -> Bytes] /\ nread' \in Int
      /\ nread' \in 0..UINT - 1 /\ nwrite' \in 0..UINT - 1
    BY PipeAssumption DEF PInv, TypeOK
<1>2. Used' \in Nat
    <2>1. Used' = (nwrite' - nread') % UINT
        BY DEF Used
    <2>2. (nwrite' - nread') % UINT \in 0..UINT - 1
        BY <1>1, Distance, ZenonT(60)
    <2> QED BY <2>1, <2>2, PipeAssumption
<1>3. Queue' \in [1..Used' -> Bytes]
    <2>1. ASSUME NEW k \in 1..Used' PROVE data'[(nread' + k - 1) % PIPESIZE] \in Bytes
        <3>1. (nread' + k - 1) % PIPESIZE \in 0..PIPESIZE - 1
            BY <1>1, RingCell
        <3> QED BY <1>1, <3>1
    <2> QED BY <2>1 DEF Queue
<1> QED BY <1>2, <1>3, BytesSequence, ZenonT(60) DEF Queue

\* Where pipewrite() stores its j-th byte: behind the Used bytes in the ring.
LEMMA WriteCell ==
    ASSUME PInv, NEW j \in Nat
    PROVE  (nwrite + j - 1) % PIPESIZE = (nread + (Used + j) - 1) % PIPESIZE
<1>1. /\ UINT \in Nat /\ PIPESIZE \in Nat /\ PIPESIZE > 0 /\ UINT % PIPESIZE = 0
      /\ nread \in Nat /\ nwrite \in Nat /\ Used \in Nat
    BY UsedDistance, PipeAssumption DEF PInv, TypeOK
<1>2. nwrite = nread + Used \/ nwrite = nread + Used - UINT
    BY <1>1, UsedDistance DEF PInv
<1>3. CASE nwrite = nread + Used
    BY <1>1, <1>3
<1>4. CASE nwrite = nread + Used - UINT
    <2>1. nread + (Used + j) - 1 \in Int
        BY <1>1
    <2>2. nwrite + j - 1 = (nread + (Used + j) - 1) - UINT
        BY <1>1, <1>4
    <2>3. ((nread + (Used + j) - 1) - UINT) % PIPESIZE = (nread + (Used + j) - 1) % PIPESIZE
        BY <1>1, <2>1, SameCell, ZenonT(60)
    <2> QED BY <2>2, <2>3
<1> QED BY <1>2, <1>3, <1>4

\* Different bytes within a ring of each other, counted from nread.
LEMMA CellsApart ==
    ASSUME PInv, NEW j \in 1..PIPESIZE, NEW k \in 1..PIPESIZE, j # k
    PROVE  (nread + j - 1) % PIPESIZE # (nread + k - 1) % PIPESIZE
<1>1. PIPESIZE \in Nat /\ PIPESIZE > 0 /\ nread \in Int /\ j \in Int /\ k \in Int
    BY PipeAssumption DEF PInv, TypeOK
<1>2. CASE j < k
    BY <1>1, <1>2, DistinctCells
<1>3. CASE k < j
    BY <1>1, <1>3, DistinctCells
<1> QED BY <1>1, <1>2, <1>3

\* pipewrite() appends the bytes that it copies to those in the pipe.
LEMMA WriteAppends ==
    ASSUME PInv, PInv', NEW p \in Procs, pipewrite(p)
    PROVE  \E m \in 0..PIPESIZE - Used : \E s \in [1..m -> Bytes] : Queue' = Queue \o s
<1> DEFINE m == Min({left[p], Space})
<1>1. /\ m \in Nat /\ Used + m <= PIPESIZE
      /\ nread' = nread /\ Used' = Used + m
    BY WriteAmount
<1>2. PICK s \in [1..m -> Bytes] :
        data' = [i \in DOMAIN data |->
                    IF \E k \in 1..m : (nwrite + k - 1) % PIPESIZE = i
                    THEN s[CHOOSE k \in 1..m : (nwrite + k - 1) % PIPESIZE = i]
                    ELSE data[i]]
    BY ZenonT(60) DEF pipewrite
<1> HIDE DEF m
<1>3. /\ Used \in Nat /\ PIPESIZE \in Nat /\ nread \in Int
      /\ DOMAIN data = 0..PIPESIZE - 1
    BY UsedDistance, PipeAssumption DEF PInv, TypeOK
<1>4. ASSUME NEW j \in 1..m
      PROVE  (nwrite + j - 1) % PIPESIZE = (nread + (Used + j) - 1) % PIPESIZE
    BY WriteCell
<1>5. ASSUME NEW k \in 1..Used
      PROVE  data'[(nread + k - 1) % PIPESIZE] = data[(nread + k - 1) % PIPESIZE]
    <2>1. (nread + k - 1) % PIPESIZE \in 0..PIPESIZE - 1
        BY <1>3, RingCell
    <2>2. ASSUME NEW j \in 1..m PROVE (nwrite + j - 1) % PIPESIZE # (nread + k - 1) % PIPESIZE
        <3>1. k \in 1..PIPESIZE /\ Used + j \in 1..PIPESIZE /\ k # Used + j
            BY <1>1, <1>3
        <3>2. (nread + k - 1) % PIPESIZE # (nread + (Used + j) - 1) % PIPESIZE
            BY <3>1, CellsApart
        <3> QED BY <1>4, <3>2
    <2> QED BY <1>2, <1>3, <2>1, <2>2
<1>6. ASSUME NEW j \in 1..m
      PROVE  data'[(nread + (Used + j) - 1) % PIPESIZE] = s[j]
    <2> DEFINE c == (nwrite + j - 1) % PIPESIZE
    <2>1. c = (nread + (Used + j) - 1) % PIPESIZE
        BY <1>4
    <2>2. c \in 0..PIPESIZE - 1
        BY <1>3, <2>1, RingCell
    <2>3. ASSUME NEW k \in 1..m, (nwrite + k - 1) % PIPESIZE = c PROVE k = j
        <3>1. Used + j \in 1..PIPESIZE /\ Used + k \in 1..PIPESIZE
            BY <1>1, <1>3
        <3>2. (nread + (Used + j) - 1) % PIPESIZE = (nread + (Used + k) - 1) % PIPESIZE
            BY <1>4, <2>1, <2>3
        <3>3. Used + j = Used + k
            BY <3>1, <3>2, CellsApart
        <3> QED BY <1>3, <3>3
    <2>4. (nwrite + j - 1) % PIPESIZE = c
        OBVIOUS
    <2> HIDE DEF c
    <2>5. (CHOOSE k \in 1..m : (nwrite + k - 1) % PIPESIZE = c) = j
        BY <2>3, <2>4
    <2>6. data'[c] = s[CHOOSE k \in 1..m : (nwrite + k - 1) % PIPESIZE = c]
        BY <1>2, <1>3, <2>2, <2>4
    <2> QED BY <2>1, <2>5, <2>6, ZenonT(60)
<1>7. s \in Seq(Bytes) /\ Len(s) = m
    BY <1>1, BytesSequence
<1>8. /\ Queue \in Seq(Bytes) /\ Len(Queue) = Used
      /\ \A k \in 1..Used : Queue[k] = data[(nread + k - 1) % PIPESIZE]
    BY QueueSequence
<1>9. /\ Queue' \in Seq(Bytes) /\ Len(Queue') = Used + m
      /\ \A k \in 1..Used + m : Queue'[k] = data'[(nread + k - 1) % PIPESIZE]
    BY <1>1, QueueSequenceNext
<1> DEFINE appended == Queue \o s
<1>10. /\ appended \in Seq(Bytes) /\ Len(appended) = Used + m
       /\ \A k \in 1..Used + m :
            appended[k] = IF k <= Used THEN Queue[k] ELSE s[k - Used]
    BY <1>7, <1>8, ConcatProperties, ZenonT(60)
<1> HIDE DEF appended
<1>11. ASSUME NEW k \in 1..Used + m PROVE Queue'[k] = appended[k]
    <2>1. CASE k <= Used
        <3>1. k \in 1..Used
            BY <1>1, <1>3, <2>1
        <3> QED BY <1>5, <1>8, <1>9, <1>10, <2>1, <3>1, SMTT(60)
    <2>2. CASE k > Used
        <3>1. k - Used \in 1..m /\ Used + (k - Used) = k
            BY <1>1, <1>3, <2>2
        <3>2. data'[(nread + k - 1) % PIPESIZE] = s[k - Used]
            BY <1>6, <3>1
        <3> QED BY <1>3, <1>9, <1>10, <2>2, <3>2
    <2> QED BY <1>3, <2>1, <2>2
<1>12. Queue' = appended
    BY <1>9, <1>10, <1>11, SeqEqual
<1>13. m \in 0..PIPESIZE - Used
    BY <1>1, <1>3
<1> QED BY <1>12, <1>13, ZenonT(60) DEF appended

\* piperead() returns the first bytes in the pipe and leaves the others.
LEMMA ReadTakes ==
    ASSUME PInv, PInv', NEW p \in Procs, piperead_copy(p)
    PROVE  \E m \in 0..Used : /\ out' = SubSeq(Queue, 1, m)
                              /\ Queue' = SubSeq(Queue, m + 1, Len(Queue))
<1>1. PICK m \in Nat :
        /\ m <= Used /\ Used' = Used - m
        /\ nread' = plus(nread, m)
        /\ out' = [k \in 1..m |-> data[(nread + k - 1) % PIPESIZE]]
    BY ReadAmount
<1>2. /\ UINT \in Nat /\ PIPESIZE \in Nat /\ PIPESIZE > 0 /\ UINT % PIPESIZE = 0
      /\ UINT > PIPESIZE /\ Used <= PIPESIZE
      /\ nread \in Nat /\ nread < UINT /\ Used \in Nat
    BY UsedDistance, PipeAssumption DEF PInv, TypeOK, Bounded
<1>3. data' = data
    BY DEF piperead_copy
<1>4. nread' = nread + m \/ nread' = nread + m - UINT
    BY <1>1, <1>2, Wraps DEF plus
<1>5. ASSUME NEW k \in 1..Used - m
      PROVE  (nread' + k - 1) % PIPESIZE = (nread + (m + k) - 1) % PIPESIZE
    <2>1. CASE nread' = nread + m
        BY <1>2, <2>1
    <2>2. CASE nread' = nread + m - UINT
        <3>1. nread + (m + k) - 1 \in Int
            BY <1>1, <1>2
        <3>2. nread' + k - 1 = (nread + (m + k) - 1) - UINT
            BY <1>1, <1>2, <2>2
        <3>3. ((nread + (m + k) - 1) - UINT) % PIPESIZE = (nread + (m + k) - 1) % PIPESIZE
            BY <1>2, <3>1, SameCell, ZenonT(60)
        <3> QED BY <3>2, <3>3
    <2> QED BY <1>4, <2>1, <2>2
<1>6. /\ Queue \in Seq(Bytes) /\ Len(Queue) = Used
      /\ \A k \in 1..Used : Queue[k] = data[(nread + k - 1) % PIPESIZE]
      /\ \A k \in 1..Used : Queue[k] \in Bytes
    BY QueueSequence, ElementOfSeq, ZenonT(60)
<1>7. /\ Queue' \in Seq(Bytes) /\ Len(Queue') = Used - m
      /\ \A k \in 1..Used - m : Queue'[k] = data[(nread' + k - 1) % PIPESIZE]
    BY <1>1, <1>3, QueueSequenceNext
<1> DEFINE taken == SubSeq(Queue, 1, m)
           rest == SubSeq(Queue, m + 1, Used)
<1>8. /\ taken \in Seq(Bytes) /\ Len(taken) = m
      /\ \A k \in 1..m : taken[k] = Queue[k]
    <2>1. \A k \in 1..m : Queue[k] \in Bytes
        BY <1>1, <1>2, <1>6
    <2> QED BY <1>1, <2>1, SubSeqProperties
<1>9. /\ rest \in Seq(Bytes) /\ Len(rest) = Used - m
      /\ \A k \in 1..Used - m : rest[k] = Queue[m + k]
    <2>1. \A k \in m + 1..Used : Queue[k] \in Bytes
        BY <1>1, <1>2, <1>6
    <2>2. m + 1 \in Int /\ Used - (m + 1) + 1 = Used - m
        BY <1>1, <1>2
    <2>3. /\ rest \in Seq(Bytes)
          /\ Len(rest) = IF m + 1 <= Used THEN Used - (m + 1) + 1 ELSE 0
          /\ \A k \in 1..Used - (m + 1) + 1 : rest[k] = Queue[m + 1 + k - 1]
        BY <1>2, <2>1, <2>2, SubSeqProperties
    <2> HIDE DEF rest
    <2>4. \A k \in 1..Used - m : m + 1 + k - 1 = m + k
        BY <1>1, <1>2
    <2> QED BY <1>1, <1>2, <2>2, <2>3, <2>4
<1> HIDE DEF taken, rest
<1>10. out' = taken
    <2>1. /\ \A k \in 1..m : out'[k] = Queue[k] /\ Queue[k] \in Bytes
          /\ out' = [k \in 1..m |-> out'[k]]
        BY <1>1, <1>2, <1>6
    <2>2. out' \in [1..m -> Bytes]
        BY <2>1
    <2>3. out' \in Seq(Bytes) /\ Len(out') = m
        BY <2>2, BytesSequence
    <2> QED BY <1>8, <2>1, <2>3, SeqEqual
<1>11. Queue' = rest
    <2>1. ASSUME NEW k \in 1..Used - m PROVE Queue'[k] = rest[k]
        <3>1. m + k \in 1..Used
            BY <1>1, <1>2
        <3>2. Queue[m + k] = data[(nread + (m + k) - 1) % PIPESIZE]
            BY <1>6, <3>1
        <3> QED BY <1>5, <1>7, <1>9, <3>2
    <2> QED BY <1>7, <1>9, <2>1, SeqEqual
<1>12. m \in 0..Used
    BY <1>1, <1>2
<1> QED BY <1>6, <1>10, <1>11, <1>12, ZenonT(60) DEF taken, rest

\* pipewrite() is Put, or changes nothing when there is no room or n is 0.
LEMMA PipewriteRefines ==
    ASSUME PInv, PInv', NEW p \in Procs, pipewrite(p)
    PROVE  F!Next \/ UNCHANGED F!vars
<1>1. p \in Writers /\ pc[p] = "loop" /\ UNCHANGED <<readopen, writeopen, out>>
    BY SMTT(60) DEF pipewrite
<1>2. writeopen
    BY <1>1 DEF PInv, Ends
<1>3. Queue \in Seq(Bytes) /\ Len(Queue) = Used
    BY QueueSequence
<1>4. PICK m \in 0..PIPESIZE - Used : \E s \in [1..m -> Bytes] : Queue' = Queue \o s
    BY WriteAppends
<1>5. PICK s \in [1..m -> Bytes] : Queue' = Queue \o s
    BY <1>4
<1>6. m \in Nat
    OBVIOUS
<1>7. CASE m = 0
    <2>1. s \in Seq(Bytes) /\ Len(s) = 0
        BY <1>6, <1>7, BytesSequence
    <2>2. s = <<>>
        BY <2>1, EmptySeq
    <2>3. Queue' = Queue
        BY <1>3, <1>5, <2>2, ConcatEmptySeq
    <2> QED BY <1>1, <2>3 DEF F!vars
<1>8. CASE m # 0
    <2>1. m \in 1..PIPESIZE - Len(Queue)
        BY <1>3, <1>6, <1>8
    <2>2. F!Put
        BY <1>1, <1>2, <1>5, <2>1, SMTT(60) DEF F!Put
    <2> QED BY <2>2 DEF F!Next
<1> QED BY <1>7, <1>8, SMTT(60)

\* piperead() is Get.
LEMMA PipereadRefines ==
    ASSUME PInv, PInv', NEW p \in Procs, piperead_copy(p)
    PROVE  F!Next
<1>1. /\ p \in Readers /\ pc[p] = "loop" /\ UNCHANGED <<readopen, writeopen>>
      /\ ~(nread = nwrite /\ writeopen)
    BY DEF piperead_copy
<1>2. readopen
    BY <1>1 DEF PInv, Ends
<1>3. Len(Queue) = Used
    BY QueueSequence
<1>4. Queue # <<>> \/ ~writeopen
    <2>1. CASE nread # nwrite
        <3>1. Used # 0
            BY <2>1, UsedDistance DEF PInv
        <3>2. Len(<<>>) = 0
            BY EmptySeq
        <3> QED BY <1>3, <3>1, <3>2
    <2> QED BY <1>1, <2>1
<1>5. PICK m \in 0..Used : /\ out' = SubSeq(Queue, 1, m)
                           /\ Queue' = SubSeq(Queue, m + 1, Len(Queue))
    BY ReadTakes
<1>6. F!Get
    BY <1>1, <1>2, <1>3, <1>4, <1>5, ZenonT(60) DEF F!Get
<1> QED BY <1>6 DEF F!Next

\* pipeclose() closes an end, once, or changes nothing.
LEMMA PipecloseRefines ==
    ASSUME PInv, NEW p \in Procs, pipeclose(p)
    PROVE  F!Next \/ UNCHANGED F!vars
<1>1. p \in fd /\ UNCHANGED <<data, nread, nwrite, out>>
    BY DEF pipeclose
<1>2. Queue' = Queue
    BY <1>1 DEF Queue, Used
<1>3. /\ p \in Readers => readopen
      /\ p \in Writers => writeopen
    BY <1>1 DEF PInv, Ends
<1>4. \/ UNCHANGED <<readopen, writeopen>>
      \/ p \in Readers /\ readopen' = FALSE /\ UNCHANGED writeopen
      \/ p \in Writers /\ writeopen' = FALSE /\ UNCHANGED readopen
    BY ZenonT(60) DEF pipeclose
<1> QED BY <1>1, <1>2, <1>3, <1>4 DEF F!Next, F!CloseRead, F!CloseWrite, F!vars

\* The other steps change nothing that Fifo describes.
LEMMA OthersStutter ==
    ASSUME UNCHANGED <<data, nread, nwrite, readopen, writeopen, out>>
    PROVE  UNCHANGED F!vars
<1>1. Queue' = Queue
    BY DEF Queue, Used
<1> QED BY <1>1 DEF F!vars

\* The pipe of pipe.c is a first-in first-out queue: its bytes are delivered
\* once and in the order they were written, however readers and writers
\* interleave and however often nread and nwrite wrap around.
THEOREM PipeIsFifo == Spec => FifoQueue
<1>1. Init => F!Init
    <2> SUFFICES ASSUME Init PROVE F!Init
        OBVIOUS
    <2>1. PInv
        BY InitPInv
    <2>2. Used = 0
        BY <2>1, UsedDistance DEF PInv, Init, pipealloc
    <2>3. Queue \in Seq(Bytes) /\ Len(Queue) = 0
        BY <2>1, <2>2, QueueSequence
    <2>4. Queue = <<>>
        BY <2>3, EmptySeq
    <2> QED BY <2>4 DEF F!Init, Init, pipealloc
<1>2. PInv /\ PInv' /\ [Next]_vars => [F!Next]_F!vars
    <2> SUFFICES ASSUME PInv, PInv', [Next]_vars PROVE F!Next \/ UNCHANGED F!vars
        OBVIOUS
    <2>1. CASE UNCHANGED vars
        BY <2>1, OthersStutter DEF vars
    <2>2. ASSUME NEW p \in Procs, pipewrite(p) PROVE F!Next \/ UNCHANGED F!vars
        BY <2>2, PipewriteRefines
    <2>3. ASSUME NEW p \in Procs, piperead_copy(p) PROVE F!Next \/ UNCHANGED F!vars
        BY <2>3, PipereadRefines
    <2>4. ASSUME NEW p \in Procs, pipeclose(p) PROVE F!Next \/ UNCHANGED F!vars
        BY <2>4, PipecloseRefines
    <2>5. ASSUME NEW p \in Procs, piperead_wait(p) \/ sleep(p) \/ kill(p)
          PROVE  F!Next \/ UNCHANGED F!vars
        BY <2>5, OthersStutter DEF piperead_wait, sleep, kill, pipe
    <2>6. ASSUME NEW p \in Procs, NEW n \in 0..MaxN, call(p, n)
          PROVE  F!Next \/ UNCHANGED F!vars
        BY <2>6, OthersStutter DEF call, pipe
    <2>7. CASE Done
        BY <2>1, <2>7 DEF Done
    <2> QED BY <2>1, <2>2, <2>3, <2>4, <2>5, <2>6, <2>7, ZenonT(60) DEF Next
<1> QED BY <1>1, <1>2, PipeInvariance, PTL DEF Spec, FifoQueue, F!Spec
=============================================================================
