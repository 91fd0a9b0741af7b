----------------------------- MODULE DiskProofs ------------------------------
(***************************************************************************)
(* Proofs about the disk driver, for any disk, any number of reads and any *)
(* order in which suspended reads go on.                                   *)
(*                                                                         *)
(* As long as no reads clash, one activation at most is past its push, and *)
(* what relates __current, the list of tasks and the device to it is said  *)
(* label by label.                                                         *)
(***************************************************************************)
EXTENDS Disk, TLAPS

Loop    == {"next", "wait", "transfer"}
Holding == {"setup", "command"} \cup Loop

Parts == 0 .. MaxCount - 1

Types ==
  /\ asked \in Seq(Requests) /\ Len(asked) <= MaxReads
  /\ tasks \in Seq(DOMAIN asked) /\ current \in DOMAIN asked \cup {NoTask}
  /\ at \in [Reads -> Labels] /\ count \in [Reads -> 0 .. MaxCount]
  /\ buffer \in [Reads -> [Parts -> Sectors \cup {Empty}]]
  /\ registers.count \in 0 .. MaxCount /\ left \in 0 .. MaxCount /\ (ready => left > 0)
  /\ broken \in BOOLEAN /\ clashed \in BOOLEAN

Apart == \A r, s \in Reads : InDriver(r) /\ InDriver(s) => r = s

Quiet == (\A r \in Reads : ~InDriver(r)) => tasks = <<>> /\ current = NoTask /\ left = 0

\* What a read leaves in its own buffer.
Own(r) ==
  /\ at[r] \in {"push", "take", "setup", "command"} => count[r] = 0
  /\ at[r] \in Loop \cup {"returned"} =>
       \A i \in 0 .. count[r] - 1 : buffer[r][i] = asked[r].lba + i
  /\ at[r] = "returned" => count[r] = asked[r].count

\* How a read that is past its push stands to the driver and the device.
Shared(r) ==
  /\ at[r] = "take" => tasks = <<r>> /\ current = NoTask
  /\ at[r] \in Holding => tasks = <<>> /\ current = r
  /\ at[r] \in {"take", "setup", "command"} => left = 0
  /\ at[r] = "command" =>
       registers.lba = asked[r].lba /\ registers.count = asked[r].count
  /\ at[r] \in Loop =>
       /\ next = asked[r].lba + count[r]
       /\ left = asked[r].count - count[r] /\ count[r] <= asked[r].count
  /\ at[r] \in {"wait", "transfer"} => count[r] < asked[r].count
  /\ at[r] = "transfer" => ready

Begun ==
  \A r \in Reads :
    /\ at[r] = "idle" <=> r \notin DOMAIN asked
    /\ at[r] = "idle" => count[r] = 0

Unclashed == Apart /\ Quiet /\ \A r \in DOMAIN asked : Own(r) /\ Shared(r)

DInv == Types /\ Begun /\ (~clashed => Unclashed)

-----------------------------------------------------------------------------
LEMMA Numbers == Sectors \subseteq Nat /\ MaxCount \in Nat \ {0} /\ MaxReads \in Nat
BY DiskAssumption, Zenon

LEMMA Asked ==
  ASSUME Types, NEW r \in DOMAIN asked
  PROVE  /\ r \in Reads /\ r # NoTask
         /\ asked[r].lba \in Nat /\ asked[r].count \in 1 .. MaxCount
         /\ \A i \in 0 .. asked[r].count - 1 : asked[r].lba + i \in Sectors
<1>1. asked \in Seq(Requests) /\ Len(asked) <= MaxReads /\ r \in 1 .. Len(asked)
  BY DEF Types
<1>2. r \in Reads /\ r # NoTask
  BY <1>1, DiskAssumption DEF Reads, NoTask
<1>3. asked[r] \in Requests
  BY <1>1
<1>4. /\ asked[r].lba \in Sectors /\ asked[r].count \in 1 .. MaxCount
      /\ asked[r].lba + asked[r].count - 1 \in Sectors
  BY <1>3 DEF Requests
<1>5. asked[r].lba .. asked[r].lba + asked[r].count - 1 \subseteq Sectors
  <2>1. \A a, b \in Sectors : a .. b \subseteq Sectors
    BY DiskAssumption
  <2> QED BY <1>4, <2>1, Zenon
<1>6. asked[r].lba \in Nat /\ asked[r].count \in Nat
  <2>1. \A c \in 1 .. MaxCount : c \in Nat
    BY Numbers
  <2>2. Sectors \subseteq Nat
    BY Numbers
  <2> QED BY <1>4, <2>1, <2>2, Zenon
<1>7. \A i \in 0 .. asked[r].count - 1 :
        asked[r].lba + i \in asked[r].lba .. asked[r].lba + asked[r].count - 1
  BY <1>6
<1> QED BY <1>2, <1>4, <1>5, <1>6, <1>7

\* The invariant says what the properties do.
LEMMA InvTypes == Types => TypeOK
<1>1. Types => \A r \in Reads : Range(buffer[r]) \subseteq Sectors \cup {Empty}
  BY DEF Types, Range
<1> QED BY <1>1 DEF Types, TypeOK

LEMMA InvDelivers == DInv => ReadDelivers
<1> SUFFICES ASSUME DInv, ~clashed PROVE /\ \A r \in Reads : at[r] = "returned" => Served(r)
                                         /\ Quiet
  BY DEF ReadDelivers, Quiet
<1>1. Quiet
  BY DEF DInv, Unclashed
<1>2. ASSUME NEW r \in Reads, at[r] = "returned" PROVE Served(r)
  <2>1. r \in DOMAIN asked
    BY <1>2 DEF DInv, Begun
  <2>2. Own(r)
    BY <2>1 DEF DInv, Unclashed
  <2> QED BY <1>2, <2>2 DEF Own, Served
<1> QED BY <1>1, <1>2

LEMMA InitInv == Init => DInv
<1> SUFFICES ASSUME Init PROVE DInv
  OBVIOUS
<1>1. Types
  <2>1. asked \in Seq(Requests) /\ tasks \in Seq(DOMAIN asked) /\ Len(asked) = 0
    BY DEF Init
  <2>2. at \in [Reads -> Labels] /\ buffer \in [Reads -> [Parts -> Sectors \cup {Empty}]]
    BY DEF Init, Labels, Parts
  <2>3. 0 \in 0 .. MaxCount /\ 0 <= MaxReads
    BY Numbers
  <2> QED BY <2>1, <2>2, <2>3 DEF Init, Types
<1>2. Begun /\ Unclashed
  BY DEF Init, Begun, Unclashed, Apart, Quiet, InDriver
<1> QED BY <1>1, <1>2 DEF DInv

-----------------------------------------------------------------------------
\* A read that is not in the driver is not affected by what happens there.
LEMMA Others ==
  ASSUME NEW s \in Reads, ~InDriver(s), Own(s), at'[s] = at[s], count'[s] = count[s],
         buffer'[s] = buffer[s], asked'[s] = asked[s]
  PROVE  ~InDriver(s)' /\ Own(s)' /\ Shared(s)'
BY DEF InDriver, Own, Shared, Holding, Loop

(***************************************************************************)
(* A step of one activation that is past its push, before and after.       *)
(***************************************************************************)
LEMMA Moves ==
  ASSUME DInv, NEW r \in Reads, NEW l \in Labels, NEW m \in Labels,
         Goes(r, l, m), l \notin {"idle", "returned"}
  PROVE  /\ ~clashed /\ Unclashed /\ r \in DOMAIN asked /\ at[r] = l /\ Own(r) /\ Shared(r)
         /\ asked' = asked /\ at' \in [Reads -> Labels] /\ at'[r] = m
         /\ \A s \in Reads : s # r => at'[s] = at[s]
<1>1. ~clashed /\ Unclashed /\ at[r] = l /\ r \in DOMAIN asked
  BY DEF DInv, Begun, Goes
<1>2. at \in [Reads -> Labels] /\ at' = [at EXCEPT ![r] = m] /\ asked' = asked
  BY DEF DInv, Types, Goes
<1> QED BY <1>1, <1>2 DEF Unclashed

LEMMA Settles ==
  ASSUME DInv, NEW r \in DOMAIN asked, ~clashed, InDriver(r) \/ \A s \in Reads : ~InDriver(s),
         asked' = asked, \A s \in Reads : s # r => at'[s] = at[s],
         \A s \in Reads : s # r => count'[s] = count[s] /\ buffer'[s] = buffer[s],
         InDriver(r)' \/ (tasks' = <<>> /\ current' = NoTask /\ left' = 0),
         (Own(r) /\ Shared(r))'
  PROVE  Unclashed'
<1>1. r \in Reads /\ Unclashed
  BY Asked DEF DInv
<1>2. \A s \in Reads : s # r => ~InDriver(s)
  BY <1>1 DEF Unclashed, Apart
<1>3. ASSUME NEW s \in DOMAIN asked, s # r PROVE ~InDriver(s)' /\ Own(s)' /\ Shared(s)'
  <2>1. s \in Reads /\ Own(s)
    BY <1>1, Asked DEF DInv, Unclashed
  <2> QED BY <1>2, <1>3, <2>1, Others
<1>4. \A s \in Reads : s # r => ~InDriver(s)'
  BY <1>2 DEF InDriver
<1> QED BY <1>1, <1>3, <1>4 DEF Unclashed, Apart, Quiet

-----------------------------------------------------------------------------
LEMMA BeginStep == ASSUME DInv, NEW q \in Requests, Begin(q) PROVE DInv'
<1> PICK r \in {Len(asked) + 1} : TRUE
  OBVIOUS
<1>1. /\ ~clashed /\ Unclashed /\ Types /\ Begun
      /\ asked' = Append(asked, q) /\ at' = [at EXCEPT ![r] = "push"]
      /\ UNCHANGED <<tasks, current, count, buffer, device, clashed>>
      /\ asked \in Seq(Requests) /\ Len(asked) < MaxReads
  BY DEF Begin, DInv, Types, driver
<1>2. /\ asked' \in Seq(Requests) /\ Len(asked') = r /\ r \in Reads /\ r \notin DOMAIN asked
      /\ DOMAIN asked' = DOMAIN asked \cup {r}
      /\ \A s \in DOMAIN asked : asked'[s] = asked[s]
  BY <1>1, Numbers DEF Reads
<1>3. at[r] = "idle" /\ at \in [Reads -> Labels] /\ "push" \in Labels
  BY <1>1, <1>2 DEF Begun, Types, Labels
<1>4. /\ at' \in [Reads -> Labels] /\ at'[r] = "push"
      /\ \A s \in Reads : s # r => at'[s] = at[s]
  BY <1>1, <1>2, <1>3
<1>5. Types'
  <2>1. tasks \in Seq(DOMAIN asked')
    <3>1. tasks \in Seq(DOMAIN asked) /\ DOMAIN asked \subseteq DOMAIN asked'
      BY <1>1, <1>2 DEF Types
    <3>2. \A k \in 1 .. Len(tasks) : tasks[k] \in DOMAIN asked'
      BY <3>1
    <3> QED BY <3>1, <3>2
  <2>2. Len(asked') <= MaxReads
    BY <1>2, Numbers DEF Reads
  <2> QED BY <1>1, <1>2, <1>4, <2>1, <2>2 DEF Types, device
<1>6. Begun'
  BY <1>1, <1>2, <1>4 DEF Begun
<1>7. \A s \in Reads : InDriver(s)' <=> InDriver(s)
  BY <1>3, <1>4 DEF InDriver
<1>8. Apart' /\ Quiet'
  BY <1>1, <1>7 DEF Unclashed, Apart, Quiet, device
<1>9. (Own(r) /\ Shared(r))'
  <2>1. count[r] = 0 /\ count' = count
    BY <1>1, <1>2, <1>3 DEF Begun
  <2> QED BY <1>4, <2>1 DEF Own, Shared, Holding, Loop
<1>10. ASSUME NEW s \in DOMAIN asked PROVE (Own(s) /\ Shared(s))'
  <2>1. s \in Reads /\ s # r /\ Own(s) /\ Shared(s) /\ asked'[s] = asked[s] /\ at'[s] = at[s]
    BY <1>1, <1>2, <1>4, Asked DEF Unclashed
  <2> QED BY <1>1, <2>1 DEF Own, Shared, device
<1> QED BY <1>2, <1>5, <1>6, <1>8, <1>9, <1>10 DEF DInv, Unclashed

-----------------------------------------------------------------------------
LEMMA PushStep == ASSUME DInv, NEW r \in Reads, Push(r) PROVE DInv'
<1>1. /\ ~clashed /\ Unclashed /\ r \in DOMAIN asked /\ at[r] = "push"
      /\ asked' = asked /\ at' \in [Reads -> Labels] /\ at'[r] = "take"
      /\ \A s \in Reads : s # r => at'[s] = at[s]
      /\ Own(r)
  BY Moves DEF Push, Labels
<1>2. /\ tasks' = Append(tasks, r) /\ clashed' = Clashes
      /\ UNCHANGED <<current, count, buffer, device>>
  BY DEF Push
<1>3. Types'
  <2>1. Append(tasks, r) \in Seq(DOMAIN asked) /\ Clashes \in BOOLEAN
    BY <1>1 DEF DInv, Types, Clashes
  <2> QED BY <1>1, <1>2, <2>1 DEF DInv, Types, device
<1>4. Begun'
  BY <1>1, <1>2 DEF DInv, Begun
<1>5. ASSUME ~clashed' PROVE Unclashed'
  <2>1. tasks = <<>> /\ current = NoTask
    BY <1>2, <1>5 DEF Clashes
  <2>2. ASSUME NEW s \in Reads PROVE ~InDriver(s)
    <3>1. CASE s \in DOMAIN asked
      <4>1. Shared(s) /\ s # NoTask /\ at[s] \in Labels
        BY <1>1, <3>1, Asked DEF DInv, Types, Unclashed
      <4> QED BY <2>1, <4>1 DEF Shared, InDriver, Holding, Loop, Labels
    <3>2. CASE s \notin DOMAIN asked
      BY <3>2 DEF DInv, Begun, InDriver
    <3> QED BY <3>1, <3>2
  <2>3. left = 0
    BY <1>1, <2>2 DEF Unclashed, Quiet
  <2>4. (InDriver(r) /\ Own(r) /\ Shared(r))'
    <3>1. tasks' = <<r>> /\ current' = NoTask /\ left' = 0 /\ count'[r] = 0
      BY <1>1, <1>2, <2>1, <2>3 DEF Own, device
    <3> QED BY <1>1, <3>1 DEF InDriver, Own, Shared, Holding, Loop
  <2> QED BY <1>1, <1>2, <2>2, <2>4, Settles
<1> QED BY <1>3, <1>4, <1>5 DEF DInv

(***************************************************************************)
(* A step past the push, which cannot clash: l to m, with what is shared.  *)
(***************************************************************************)
LEMMA StepsAlone ==
  ASSUME DInv, NEW r \in Reads,
         NEW l \in {"take"} \cup Holding, NEW m \in Holding \cup {"returned"}, Goes(r, l, m),
         UNCHANGED clashed,
         Types', \A s \in Reads : s # r => count'[s] = count[s] /\ buffer'[s] = buffer[s],
         m # "returned" \/ (tasks' = <<>> /\ current' = NoTask /\ left' = 0),
         (Own(r) /\ Shared(r))'
  PROVE  DInv'
<1>1. /\ l \in Labels /\ l \notin {"idle", "push", "returned"}
      /\ m \in Labels /\ m \notin {"idle", "push"}
  BY DEF Holding, Loop, Labels
<1>2. /\ ~clashed /\ r \in DOMAIN asked /\ at[r] = l /\ asked' = asked
      /\ at'[r] = m /\ \A s \in Reads : s # r => at'[s] = at[s]
  BY <1>1, Moves
<1>3. InDriver(r) /\ (m # "returned" => InDriver(r)')
  BY <1>1, <1>2 DEF InDriver
<1>4. Unclashed'
  BY <1>2, <1>3, Settles
<1>5. Begun'
  BY <1>1, <1>2 DEF DInv, Begun
<1> QED BY <1>4, <1>5 DEF DInv

LEMMA TakeStep == ASSUME DInv, NEW r \in Reads, Take(r) PROVE DInv'
<1>1. /\ Goes(r, "take", "setup") /\ UNCHANGED <<count, buffer, device, clashed>>
      /\ (current = NoTask => current' = Head(tasks) /\ tasks' = Tail(tasks))
  BY DEF Take
<1>2. /\ r \in DOMAIN asked /\ at[r] = "take" /\ asked' = asked /\ Own(r) /\ Shared(r)
      /\ at' \in [Reads -> Labels] /\ at'[r] = "setup"
  BY <1>1, Moves DEF Labels
<1>3. tasks = <<r>> /\ current = NoTask /\ left = 0 /\ count[r] = 0
  BY <1>2 DEF Own, Shared
<1>4. current' = r /\ tasks' = <<>>
  BY <1>1, <1>3
<1>5. Types'
  BY <1>1, <1>2, <1>4 DEF DInv, Types, device
<1>6. (Own(r) /\ Shared(r))'
  BY <1>1, <1>2, <1>3, <1>4 DEF Own, Shared, Holding, Loop, device
<1> QED BY <1>1, <1>5, <1>6, StepsAlone DEF Holding

\* What an activation that has taken its task knows.
LEMMA Holds ==
  ASSUME DInv, NEW r \in Reads, NEW l \in Holding, NEW m \in Holding \cup {"returned"},
         Goes(r, l, m)
  PROVE  /\ r \in DOMAIN asked /\ at[r] = l /\ asked' = asked /\ Own(r) /\ Shared(r)
         /\ at' \in [Reads -> Labels] /\ at'[r] = m
         /\ tasks = <<>> /\ current = r /\ r # NoTask
         /\ count[r] \in Nat /\ asked[r].lba \in Nat /\ asked[r].count \in Nat
         /\ asked[r].count \in 1 .. MaxCount /\ MaxCount \in Nat
<1>1. l \in Labels /\ m \in Labels /\ l \notin {"idle", "returned"}
  BY DEF Holding, Loop, Labels
<1>2. /\ r \in DOMAIN asked /\ at[r] = l /\ asked' = asked /\ Own(r) /\ Shared(r)
      /\ at' \in [Reads -> Labels] /\ at'[r] = m
  BY <1>1, Moves
<1>3. /\ r # NoTask /\ asked[r].lba \in Nat /\ asked[r].count \in 1 .. MaxCount
      /\ MaxCount \in Nat
  BY <1>2, Asked, Numbers DEF DInv
<1>4. count[r] \in 0 .. MaxCount
  BY DEF DInv, Types
<1> QED BY <1>2, <1>3, <1>4 DEF Shared

LEMMA SetupStep == ASSUME DInv, NEW r \in Reads, Setup(r) PROVE DInv'
<1>1. /\ Goes(r, "setup", "command")
      /\ registers' = [lba |-> asked[current].lba, count |-> asked[current].count]
      /\ UNCHANGED <<tasks, current, count, buffer, next, left, ready, broken, clashed>>
  BY DEF Setup, driver, CountFor
<1>2. /\ r \in DOMAIN asked /\ at[r] = "setup" /\ asked' = asked /\ Own(r) /\ Shared(r)
      /\ at' \in [Reads -> Labels] /\ at'[r] = "command"
      /\ tasks = <<>> /\ current = r
      /\ asked[r].count \in 1 .. MaxCount /\ MaxCount \in Nat
  BY <1>1, Holds DEF Holding
<1>3. registers'.lba = asked[r].lba /\ registers'.count = asked[r].count
  BY <1>1, <1>2
<1>4. Types'
  <2>1. registers'.count \in 0 .. MaxCount
    BY <1>2, <1>3
  <2> QED BY <1>1, <1>2, <2>1 DEF DInv, Types
<1>5. (Own(r) /\ Shared(r))'
  BY <1>1, <1>2, <1>3 DEF Own, Shared, Holding, Loop
<1> QED BY <1>1, <1>4, <1>5, StepsAlone DEF Holding

LEMMA CommandStep == ASSUME DInv, NEW r \in Reads, Command(r) PROVE DInv'
<1>1. /\ Goes(r, "command", "next")
      /\ next' = registers.lba /\ left' = registers.count /\ ready' = FALSE
      /\ UNCHANGED <<tasks, current, count, buffer, registers, broken, clashed>>
  BY DEF Command, driver
<1>2. /\ r \in DOMAIN asked /\ at[r] = "command" /\ asked' = asked /\ Own(r) /\ Shared(r)
      /\ at' \in [Reads -> Labels] /\ at'[r] = "next"
      /\ tasks = <<>> /\ current = r
      /\ asked[r].lba \in Nat /\ asked[r].count \in Nat
  BY <1>1, Holds DEF Holding, Loop
<1>3. next' = asked[r].lba /\ left' = asked[r].count /\ count[r] = 0
  BY <1>1, <1>2 DEF Own, Shared
<1>4. Types'
  BY <1>1, <1>2 DEF DInv, Types
<1>5. Own(r)'
  BY <1>1, <1>2, <1>3 DEF Own, Loop
<1>6. Shared(r)'
  BY <1>1, <1>2, <1>3 DEF Shared, Holding, Loop
<1> QED BY <1>1, <1>4, <1>5, <1>6, StepsAlone DEF Holding, Loop

LEMMA PollStep == ASSUME DInv, NEW r \in Reads, Poll(r) PROVE DInv'
<1>1. /\ Goes(r, "next", "wait") /\ count[r] < asked[current].count
      /\ UNCHANGED <<tasks, current, count, buffer, device, clashed>>
  BY DEF Poll, More, driver
<1>2. /\ r \in DOMAIN asked /\ at[r] = "next" /\ asked' = asked /\ Own(r) /\ Shared(r)
      /\ at' \in [Reads -> Labels] /\ at'[r] = "wait"
      /\ tasks = <<>> /\ current = r
  BY <1>1, Holds DEF Holding, Loop
<1>3. Types'
  BY <1>1, <1>2 DEF DInv, Types, device
<1>4. (Own(r) /\ Shared(r))'
  BY <1>1, <1>2 DEF Own, Shared, Holding, Loop, device
<1> QED BY <1>1, <1>3, <1>4, StepsAlone DEF Holding, Loop

LEMMA WaitStep == ASSUME DInv, NEW r \in Reads, Wait(r) PROVE DInv'
<1>1. /\ Goes(r, "wait", "transfer") /\ ready
      /\ UNCHANGED <<tasks, current, count, buffer, device, clashed>>
  BY DEF Wait, driver
<1>2. /\ r \in DOMAIN asked /\ at[r] = "wait" /\ asked' = asked /\ Own(r) /\ Shared(r)
      /\ at' \in [Reads -> Labels] /\ at'[r] = "transfer"
      /\ tasks = <<>> /\ current = r
  BY <1>1, Holds DEF Holding, Loop
<1>3. Types'
  BY <1>1, <1>2 DEF DInv, Types, device
<1>4. (Own(r) /\ Shared(r))'
  BY <1>1, <1>2 DEF Own, Shared, Holding, Loop, device
<1> QED BY <1>1, <1>3, <1>4, StepsAlone DEF Holding, Loop

LEMMA TransferStep == ASSUME DInv, NEW r \in Reads, Transfer(r) PROVE DInv'
<1>1. /\ Goes(r, "transfer", "next")
      /\ buffer' = [buffer EXCEPT ![current][count[r]] = next]
      /\ next' = next + 1 /\ left' = left - 1 /\ ready' = FALSE
      /\ count' = [count EXCEPT ![r] = @ + 1]
      /\ UNCHANGED <<tasks, current, registers, broken, clashed>>
  BY DEF Transfer, driver
<1>2. /\ r \in DOMAIN asked /\ at[r] = "transfer" /\ asked' = asked /\ Own(r) /\ Shared(r)
      /\ at' \in [Reads -> Labels] /\ at'[r] = "next"
      /\ tasks = <<>> /\ current = r
      /\ count[r] \in Nat /\ asked[r].lba \in Nat /\ asked[r].count \in Nat
      /\ asked[r].count \in 1 .. MaxCount /\ MaxCount \in Nat
  BY <1>1, Holds DEF Holding, Loop
<1>3. /\ count[r] < asked[r].count /\ next = asked[r].lba + count[r]
      /\ left = asked[r].count - count[r]
      /\ \A i \in 0 .. count[r] - 1 : buffer[r][i] = asked[r].lba + i
  BY <1>2 DEF Own, Shared, Loop
<1>4. /\ count[r] \in Parts /\ next \in Sectors
      /\ buffer \in [Reads -> [Parts -> Sectors \cup {Empty}]]
      /\ count \in [Reads -> 0 .. MaxCount]
  <2>1. \A i \in 0 .. asked[r].count - 1 : asked[r].lba + i \in Sectors
    BY <1>2, Asked DEF DInv
  <2>2. count[r] \in 0 .. asked[r].count - 1 /\ count[r] \in 0 .. MaxCount - 1
    BY <1>2, <1>3
  <2> QED BY <1>3, <2>1, <2>2 DEF Parts, DInv, Types
<1> DEFINE row == [buffer[r] EXCEPT ![count[r]] = next]
<1>5. /\ row \in [Parts -> Sectors \cup {Empty}] /\ row[count[r]] = next
      /\ \A i \in Parts : i # count[r] => row[i] = buffer[r][i]
  BY <1>4
<1>6. buffer' = [buffer EXCEPT ![r] = row]
  BY <1>1, <1>2
<1> HIDE DEF row
<1>7. /\ buffer' \in [Reads -> [Parts -> Sectors \cup {Empty}]] /\ buffer'[r] = row
      /\ \A s \in Reads : s # r => buffer'[s] = buffer[s]
  BY <1>4, <1>5, <1>6
<1>8. /\ count' \in [Reads -> 0 .. MaxCount] /\ count'[r] = count[r] + 1
      /\ \A s \in Reads : s # r => count'[s] = count[s]
  <2>1. count[r] + 1 \in 0 .. MaxCount
    BY <1>2, <1>3
  <2> QED BY <1>1, <1>4, <2>1
<1>9. Types'
  <2>1. left' \in 0 .. MaxCount
    BY <1>1, <1>2, <1>3
  <2> QED BY <1>1, <1>2, <1>7, <1>8, <2>1 DEF DInv, Types
<1>10. Own(r)'
  <2>1. ASSUME NEW i \in 0 .. count[r] PROVE buffer'[r][i] = asked[r].lba + i
    <3>1. CASE i = count[r]
      BY <1>3, <1>5, <1>7, <3>1
    <3>2. CASE i # count[r]
      <4>1. i \in 0 .. count[r] - 1 /\ i \in Parts
        BY <1>2, <1>3, <3>2 DEF Parts
      <4> QED BY <1>3, <1>5, <1>7, <3>2, <4>1
    <3> QED BY <3>1, <3>2
  <2>2. count'[r] - 1 = count[r]
    BY <1>2, <1>8
  <2> QED BY <1>2, <2>1, <2>2 DEF Own, Loop
<1>11. Shared(r)'
  <2>1. /\ next' = asked[r].lba + count'[r] /\ left' = asked[r].count - count'[r]
        /\ count'[r] <= asked[r].count
    <3>1. \A a, n, c \in Nat :
            c < n => (a + c) + 1 = a + (c + 1) /\ (n - c) - 1 = n - (c + 1) /\ c + 1 <= n
      OBVIOUS
    <3>2. next' = next + 1 /\ left' = left - 1
      BY <1>1
    <3>3. PICK a \in Nat, n \in Nat, c \in Nat :
            a = asked[r].lba /\ n = asked[r].count /\ c = count[r]
      BY <1>2
    <3>4. c < n /\ next' = (a + c) + 1 /\ left' = (n - c) - 1 /\ count'[r] = c + 1
      BY <1>3, <1>8, <3>2, <3>3
    <3>5. next' = a + (c + 1) /\ left' = n - (c + 1) /\ c + 1 <= n
      BY <3>1, <3>4, Zenon
    <3> QED BY <3>3, <3>4, <3>5
  <2> QED BY <1>1, <1>2, <2>1 DEF Shared, Holding, Loop
<1> QED BY <1>1, <1>7, <1>8, <1>9, <1>10, <1>11, StepsAlone DEF Holding, Loop

LEMMA FinishStep == ASSUME DInv, NEW r \in Reads, Finish(r) PROVE DInv'
<1>1. /\ Goes(r, "next", "returned") /\ ~(count[r] < asked[current].count)
      /\ current' = NoTask
      /\ UNCHANGED <<tasks, count, buffer, device, clashed>>
  BY DEF Finish, More, AfterTask
<1>2. /\ r \in DOMAIN asked /\ at[r] = "next" /\ asked' = asked /\ Own(r) /\ Shared(r)
      /\ at' \in [Reads -> Labels] /\ at'[r] = "returned"
      /\ tasks = <<>> /\ current = r
      /\ count[r] \in Nat /\ asked[r].count \in Nat
  BY <1>1, Holds DEF Holding, Loop
<1>3. count[r] = asked[r].count /\ left = 0
  BY <1>1, <1>2 DEF Shared, Loop
<1>4. Types'
  BY <1>1, <1>2 DEF DInv, Types, device
<1>5. (Own(r) /\ Shared(r))'
  BY <1>1, <1>2, <1>3 DEF Own, Shared, Holding, Loop
<1> QED BY <1>1, <1>2, <1>3, <1>4, <1>5, StepsAlone DEF Holding, Loop, device

LEMMA DeviceStep == ASSUME DInv, Deliver \/ Fail PROVE DInv'
<1>1. /\ UNCHANGED <<asked, tasks, current, at, count, buffer, registers, next, left, clashed>>
      /\ (ready => ready') /\ (ready' => left > 0) /\ broken' \in BOOLEAN
  <2>1. (ready => left > 0) /\ broken \in BOOLEAN
    BY DEF DInv, Types
  <2>2. CASE Deliver
    BY <2>1, <2>2, Zenon DEF Deliver, driver
  <2>3. CASE Fail
    BY <2>1, <2>3, Zenon DEF Fail, driver
  <2> QED BY <2>2, <2>3
<1>2. Types'
  BY <1>1 DEF DInv, Types
<1>3. Begun' /\ Apart' = Apart /\ Quiet' = Quiet
  BY <1>1 DEF DInv, Begun, Apart, Quiet, InDriver
<1>4. \A r \in DOMAIN asked : Own(r) /\ Shared(r) => (Own(r) /\ Shared(r))'
  BY <1>1 DEF Own, Shared
<1> QED BY <1>1, <1>2, <1>3, <1>4 DEF DInv, Unclashed

LEMMA NextInv == DInv /\ [Next]_vars => DInv'
<1> SUFFICES ASSUME DInv, [Next]_vars PROVE DInv'
  OBVIOUS
<1>1. CASE \E q \in Requests : Begin(q)
  BY <1>1, BeginStep
<1>2. CASE \E r \in Reads : Step(r)
  BY <1>2, PushStep, TakeStep, SetupStep, CommandStep, PollStep, WaitStep, TransferStep,
     FinishStep DEF Step
<1>3. CASE Deliver \/ Fail
  BY <1>3, DeviceStep
<1>4. CASE UNCHANGED vars
  <2>1. Types' /\ Begun'
    BY <1>4 DEF vars, driver, device, DInv, Types, Begun
  <2>2. Unclashed' = Unclashed
    BY <1>4 DEF vars, driver, device, Unclashed, Apart, Quiet, InDriver, Own, Shared
  <2> QED BY <1>4, <2>1, <2>2 DEF vars, DInv
<1> QED BY <1>1, <1>2, <1>3, <1>4 DEF Next

(***************************************************************************)
(* The type invariant of the driver: every number it counts with stays     *)
(* within the requests that were made.                                     *)
(***************************************************************************)
THEOREM DiskTypes == Spec => []TypeOK
<1>1. DInv => TypeOK
  BY InvTypes DEF DInv
<1> QED BY <1>1, InitInv, NextInv, PTL DEF Spec

(***************************************************************************)
(* A read that returns has filled its buffer with the sectors it asked     *)
(* for, and leaves the driver and the device as it found them, for any     *)
(* number and size of reads that go on in any order, as long as no task is *)
(* pushed while that of another is in the driver (pio.c:28-43, 53).        *)
(***************************************************************************)
THEOREM ReturnedMeansServed == Spec => []ReadDelivers
BY InitInv, NextInv, InvDelivers, PTL DEF Spec
=============================================================================
