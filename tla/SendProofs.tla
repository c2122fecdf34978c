------------------------------ MODULE SendProofs ------------------------------
(***************************************************************************)
(* Proofs about SendStatus, for any number of sends and of messages from   *)
(* other devices: type correctness with the bound on the early receipts,   *)
(* ticks that never go back and never come from nowhere, and confirmed     *)
(* sends that are shown once when no two messages look alike.              *)
(***************************************************************************)
EXTENDS SendStatus, TLAPS, SequenceTheorems

(***************************************************************************)
(* The early receipts                                                      *)
(***************************************************************************)
\* One receipt per id.
OnePerId(seq) == \A m, n \in DOMAIN seq : seq[m][1] = seq[n][1] => m = n

\* Every receipt of seq has arrived.
AllTold(seq) == \A n \in DOMAIN seq : seq[n][2] <= told[seq[n][1]]

\* Removing the n-th element closes the gap.
LEMMA RemoveAtProperties ==
    ASSUME NEW S, NEW seq \in Seq(S), NEW n \in DOMAIN seq
    PROVE  /\ RemoveAt(seq, n) \in Seq(S)
           /\ Len(RemoveAt(seq, n)) = Len(seq) - 1
           /\ \A m \in 1..(Len(seq) - 1) :
                  RemoveAt(seq, n)[m] = seq[IF m < n THEN m ELSE m + 1]
<1>1. n \in 1..Len(seq) /\ Len(seq) \in Nat
  BY LenProperties, Zenon
<1> DEFINE a == SubSeq(seq, 1, n - 1)
           b == SubSeq(seq, n + 1, Len(seq))
<1>2. a \in Seq(S) /\ Len(a) = n - 1 /\ \A m \in 1..(n - 1) : a[m] = seq[m]
  BY <1>1
<1>3. b \in Seq(S) /\ Len(b) = Len(seq) - n /\ \A m \in 1..(Len(seq) - n) : b[m] = seq[n + m]
  BY <1>1
<1>4. RemoveAt(seq, n) = a \o b
  BY Zenon DEF RemoveAt
<1> HIDE DEF a, b
<1>5. /\ a \o b \in Seq(S)
      /\ Len(a \o b) = Len(a) + Len(b)
      /\ \A m \in 1..(Len(a) + Len(b)) : (a \o b)[m] = IF m <= Len(a) THEN a[m] ELSE b[m - Len(a)]
  BY <1>2, <1>3, ConcatProperties, Zenon
<1>6. ASSUME NEW m \in 1..(Len(seq) - 1)
      PROVE  (a \o b)[m] = seq[IF m < n THEN m ELSE m + 1]
  <2>1. CASE m < n
    BY <2>1, <1>1, <1>2, <1>3, <1>5, SMTT(30)
  <2>2. CASE ~(m < n)
    <3>0. m \in 1..(Len(a) + Len(b)) /\ ~(m <= Len(a))
      BY <2>2, <1>1, <1>2, <1>3
    <3>1. (a \o b)[m] = b[m - (n - 1)]
      BY <3>0, <1>2, <1>5, Zenon
    <3>2. m - (n - 1) \in 1..(Len(seq) - n) /\ n + (m - (n - 1)) = m + 1
      BY <2>2, <1>1
    <3> QED BY <3>1, <3>2, <2>2, <1>3, Zenon
  <2> QED BY <2>1, <2>2, Zenon
<1>7. Len(a \o b) = Len(seq) - 1
  BY <1>1, <1>2, <1>3, <1>5
<1> QED BY <1>4, <1>5, <1>6, <1>7, Zenon

\* Removing an element keeps one receipt per id, and every receipt told.
LEMMA RemoveAtKeeps ==
    ASSUME SendTypeOK, NEW n \in DOMAIN early
    PROVE  /\ RemoveAt(early, n) \in Seq(Receipt)
           /\ Len(RemoveAt(early, n)) = Len(early) - 1
           /\ OnePerId(RemoveAt(early, n))
           /\ AllTold(early) => AllTold(RemoveAt(early, n))
           /\ \A m \in DOMAIN RemoveAt(early, n) :
                  \E k \in DOMAIN early : k # n /\ RemoveAt(early, n)[m] = early[k]
<1> DEFINE r == RemoveAt(early, n)
           at(m) == IF m < n THEN m ELSE m + 1
<1>1. early \in Seq(Receipt) /\ OnePerId(early)
  BY Zenon DEF SendTypeOK, OnePerId
<1>2. /\ r \in Seq(Receipt)
      /\ Len(r) = Len(early) - 1
      /\ \A m \in 1..(Len(early) - 1) : r[m] = early[at(m)]
  BY <1>1, RemoveAtProperties, Zenon
<1>3. DOMAIN early = 1..Len(early) /\ Len(early) \in Nat
  BY <1>1, LenProperties, Zenon
<1>4. DOMAIN r = 1..(Len(early) - 1)
  BY <1>2, LenProperties, Zenon
<1> HIDE DEF r
<1>5. \A m \in DOMAIN r : at(m) \in DOMAIN early /\ at(m) # n /\ r[m] = early[at(m)]
  BY <1>2, <1>3, <1>4
<1>6. \A m, k \in DOMAIN r : at(m) = at(k) => m = k
  BY <1>3, <1>4
<1> HIDE DEF at
<1>7. OnePerId(r)
  BY <1>1, <1>5, <1>6 DEF OnePerId
<1>8. AllTold(early) => AllTold(r)
  BY <1>5, Zenon DEF AllTold
<1>9. \A m \in DOMAIN r : \E k \in DOMAIN early : k # n /\ r[m] = early[k]
  BY <1>5, Zenon
<1> QED BY <1>2, <1>7, <1>8, <1>9, Zenon DEF r

\* What earlyReceipts.delete leaves.
LEMMA ForgottenProperties ==
    ASSUME SendTypeOK, NEW i \in Ids
    PROVE  /\ Forgotten(i) \in Seq(Receipt)
           /\ Len(Forgotten(i)) <= EarlyMax
           /\ OnePerId(Forgotten(i))
           /\ AllTold(early) => AllTold(Forgotten(i))
           /\ \A m \in DOMAIN Forgotten(i) : Forgotten(i)[m][1] # i
<1>1. CASE EarlyAt(i) = {}
  BY <1>1, Zenon DEF Forgotten, EarlyAt, SendTypeOK, OnePerId
<1>2. CASE EarlyAt(i) # {}
  <2> DEFINE n == CHOOSE n \in EarlyAt(i) : TRUE
  <2>1. n \in DOMAIN early /\ early[n][1] = i
    BY <1>2, Zenon DEF EarlyAt
  <2>2. Forgotten(i) = RemoveAt(early, n)
    BY <1>2, Zenon DEF Forgotten
  <2> HIDE DEF n
  <2>3. OnePerId(early) /\ Len(early) \in Nat /\ Len(early) <= EarlyMax /\ EarlyMax \in Nat
    BY SendAssumption, LenProperties, Zenon DEF SendTypeOK, OnePerId
  <2>4. \A k \in DOMAIN early : k # n => early[k][1] # i
    BY <2>1, <2>3, Zenon DEF OnePerId
  <2>5. Len(early) - 1 <= EarlyMax
    BY <2>3
  <2>6. /\ RemoveAt(early, n) \in Seq(Receipt)
        /\ Len(RemoveAt(early, n)) = Len(early) - 1
        /\ OnePerId(RemoveAt(early, n))
        /\ AllTold(early) => AllTold(RemoveAt(early, n))
        /\ \A m \in DOMAIN RemoveAt(early, n) :
               \E k \in DOMAIN early : k # n /\ RemoveAt(early, n)[m] = early[k]
    BY <2>1, RemoveAtKeeps, Zenon
  <2> QED BY <2>2, <2>4, <2>5, <2>6, Zenon
<1> QED BY <1>1, <1>2, Zenon

\* What rememberEarlyReceipt leaves: within the bound, one per id, all told.
LEMMA RememberedProperties ==
    ASSUME SendTypeOK, NEW i \in Ids, NEW st \in {Delivered, Read}
    PROVE  /\ Remembered(i, st) \in Seq(Receipt)
           /\ Len(Remembered(i, st)) <= EarlyMax
           /\ OnePerId(Remembered(i, st))
           /\ AllTold(early) /\ st <= told[i] => AllTold(Remembered(i, st))
<1> DEFINE f == Forgotten(i)
           all == Append(f, <<i, st>>)
<1>0. EarlyMax \in Nat \ {0}
  BY SendAssumption, Zenon
<1>1. /\ f \in Seq(Receipt)
      /\ Len(f) <= EarlyMax
      /\ OnePerId(f)
      /\ AllTold(early) => AllTold(f)
      /\ \A m \in DOMAIN f : f[m][1] # i
  BY ForgottenProperties, Zenon
<1>2. CASE \E n \in EarlyAt(i) : early[n][2] >= st
  BY <1>2, Zenon DEF Remembered, SendTypeOK, OnePerId
<1>3. CASE ~\E n \in EarlyAt(i) : early[n][2] >= st
  <2>1. Remembered(i, st) = IF Len(all) > EarlyMax THEN Tail(all) ELSE all
    BY <1>3, Zenon DEF Remembered
  <2> HIDE DEF f
  <2>2. Len(f) \in Nat /\ DOMAIN f = 1..Len(f) /\ <<i, st>> \in Receipt
    BY <1>1, LenProperties, Zenon DEF Receipt
  <2>3. /\ all \in Seq(Receipt)
        /\ Len(all) = Len(f) + 1
        /\ \A m \in 1..Len(f) : all[m] = f[m]
        /\ all[Len(f) + 1] = <<i, st>>
    BY <1>1, <2>2, AppendProperties
  <2>4. DOMAIN all = 1..(Len(f) + 1)
    BY <2>3, LenProperties, Zenon
  <2> HIDE DEF all
  <2>5. \A m \in DOMAIN all : (m \in DOMAIN f /\ all[m] = f[m]) \/ m = Len(f) + 1
    BY <2>2, <2>3, <2>4
  <2>6. OnePerId(all)
    <3> SUFFICES ASSUME NEW m \in DOMAIN all, NEW n \in DOMAIN all, all[m][1] = all[n][1]
                 PROVE  m = n
      BY Zenon DEF OnePerId
    <3>1. all[Len(f) + 1][1] = i
      BY <2>3
    <3>2. \A k \in DOMAIN all : k = Len(f) + 1 \/ all[k][1] # i
      BY <1>1, <2>5, Zenon
    <3> QED BY <1>1, <2>5, <3>1, <3>2, Zenon DEF OnePerId
  <2>7. ASSUME AllTold(early), st <= told[i]
        PROVE  AllTold(all)
    <3>1. AllTold(f)
      BY <1>1, <2>7, Zenon
    <3>2. all[Len(f) + 1][1] = i /\ all[Len(f) + 1][2] = st
      BY <2>3
    <3> QED BY <2>5, <2>7, <3>1, <3>2, Zenon DEF AllTold
  <2>8. CASE Len(all) > EarlyMax
    <3>1. all # <<>>
      BY <1>0, <2>3, <2>4, <2>2
    <3>2. /\ Tail(all) \in Seq(Receipt)
          /\ Len(Tail(all)) = Len(all) - 1
          /\ \A m \in 1..Len(Tail(all)) : Tail(all)[m] = all[m + 1]
      BY <2>3, <3>1, HeadTailProperties, Zenon
    <3>3. DOMAIN Tail(all) = 1..Len(f)
      BY <2>2, <2>3, <3>2, LenProperties
    <3>4. \A m \in DOMAIN Tail(all) : m + 1 \in DOMAIN all /\ Tail(all)[m] = all[m + 1]
      BY <2>2, <2>3, <2>4, <3>2, <3>3
    <3>5. OnePerId(Tail(all))
      <4> SUFFICES ASSUME NEW m \in DOMAIN Tail(all), NEW n \in DOMAIN Tail(all),
                          Tail(all)[m][1] = Tail(all)[n][1]
                   PROVE  m = n
        BY Zenon DEF OnePerId
      <4>1. m + 1 = n + 1
        BY <2>6, <3>4 DEF OnePerId
      <4> QED BY <4>1, <3>3, <2>2
    <3>6. AllTold(all) => AllTold(Tail(all))
      BY <3>4, Zenon DEF AllTold
    <3>7. Len(Tail(all)) <= EarlyMax
      BY <1>0, <1>1, <2>2, <2>3, <3>2, SMTT(30)
    <3> QED BY <2>1, <2>7, <2>8, <3>2, <3>5, <3>6, <3>7, SMTT(30)
  <2>9. CASE ~(Len(all) > EarlyMax)
    <3>1. Len(all) <= EarlyMax
      BY <1>0, <2>2, <2>3, <2>9
    <3> QED BY <2>1, <2>3, <2>6, <2>7, <2>9, <3>1, SMTT(30)
  <2> QED BY <2>8, <2>9, Zenon
<1> QED BY <1>2, <1>3, Zenon

(***************************************************************************)
(* Types and ticks                                                         *)
(***************************************************************************)
\* Every receipt being looked up has arrived.
AskedTold == \A r \in asked : r[2] <= told[r[1]]

\* Inductive: StatusWasTold needs to know where the early receipts come from.
TickInv == SendTypeOK /\ StatusWasTold /\ AskedTold

\* Nothing has been sent in the initial state.
LEMMA TickInit == SendInit => TickInv
<1> SUFFICES ASSUME SendInit PROVE TickInv
  BY Zenon
<1>1. early \in Seq(Receipt) /\ Len(early) = 0 /\ DOMAIN early = {}
  BY DEF SendInit
<1>2. Len(early) <= EarlyMax
  BY <1>1, SendAssumption
<1>3. SendTypeOK
  BY <1>1, <1>2, Zenon DEF SendInit, SendTypeOK, Statuses
<1>4. StatusWasTold
  BY <1>1, Zenon DEF SendInit, StatusWasTold
<1>5. AskedTold
  BY Zenon DEF SendInit, AskedTold
<1> QED BY <1>3, <1>4, <1>5, Zenon DEF TickInv

\* The status confirmOptimistic gives has arrived, or is "sent".
LEMMA ConfirmedStatusTold ==
    ASSUME TickInv, NEW s \in Sends
    PROVE  ConfirmedStatus(s) \in Statuses /\ ConfirmedStatus(s) <= told[s]
<1>a. s \in Ids
  BY SendAssumption DEF Sends, Ids
<1>b. AllTold(early) /\ early \in Seq(Receipt)
  BY Zenon DEF TickInv, StatusWasTold, AllTold, SendTypeOK
<1>c. \A st \in Statuses : st \in Nat /\ Sent <= st
  BY DEF Statuses, Sent, Delivered, Read
<1>1. CASE EarlyAt(s) = {}
  BY <1>1, <1>a, <1>c, Zenon DEF ConfirmedStatus, TickInv, SendTypeOK, Statuses
<1>2. CASE EarlyAt(s) # {}
  <2> DEFINE n == CHOOSE n \in EarlyAt(s) : TRUE
  <2>1. n \in DOMAIN early /\ early[n][1] = s
    BY <1>2, Zenon DEF EarlyAt
  <2>2. ConfirmedStatus(s) = early[n][2]
    BY <1>2, Zenon DEF ConfirmedStatus
  <2> HIDE DEF n
  <2>3. early[n] \in Receipt
    BY <1>b, <2>1, ElementOfSeq
  <2>4. early[n][2] \in Statuses
    BY <2>3, Zenon DEF Receipt, Statuses
  <2> QED BY <1>b, <2>1, <2>2, <2>4, Zenon DEF AllTold
<1> QED BY <1>1, <1>2, Zenon

\* Every step keeps the types, the bound and the origin of every tick.
LEMMA TickStep == TickInv /\ [SendNext]_sendVars => TickInv'
<1> SUFFICES ASSUME TickInv, [SendNext]_sendVars PROVE TickInv'
  BY Zenon
<1> USE DEF TickInv
<1>a. /\ None \notin Statuses
      /\ None \notin {"sending", "failed"}
      /\ Sent \in Nat /\ Delivered \in Nat /\ Read \in Nat
      /\ Sent < Delivered /\ Delivered < Read
      /\ {Delivered, Read} \subseteq Statuses
  BY SendAssumption DEF Sent, Delivered, Read, Statuses
<1>b. AllTold(early) /\ OnePerId(early)
  BY Zenon DEF StatusWasTold, AllTold, SendTypeOK, OnePerId
<1>1. ASSUME NEW s \in Sends, Send(s)
      PROVE  TickInv'
  BY <1>1, Zenon DEF Send, SendTypeOK, StatusWasTold, AskedTold
<1>2. ASSUME NEW s \in Sends, Accept(s)
      PROVE  TickInv'
  BY <1>2, Zenon DEF Accept, view, SendTypeOK, StatusWasTold, AskedTold
<1>3. ASSUME NEW s \in Sends, Confirm(s)
      PROVE  TickInv'
  <2>0. s \in Ids
    BY SendAssumption DEF Sends, Ids
  <2>1. /\ call' \in [Sends -> {"new", "sending", "accepted", "confirmed", "failed"}]
        /\ bubble' \in [Sends -> {"sending", "failed", None}]
        /\ UNCHANGED <<asked, echoed, moved, told>>
    BY <1>3, Zenon DEF Confirm, SendTypeOK
  <2>2. CASE Found(s) /\ mem[s] = None
    <3>1. mem' = [mem EXCEPT ![s] = ConfirmedStatus(s)] /\ early' = Forgotten(s)
      BY <1>3, <2>2, Zenon DEF Confirm
    <3>2. ConfirmedStatus(s) \in Statuses /\ ConfirmedStatus(s) <= told[s]
      BY ConfirmedStatusTold, Zenon
    <3>3. /\ early' \in Seq(Receipt)
          /\ Len(early') <= EarlyMax
          /\ OnePerId(early')
          /\ AllTold(early')
      BY <2>0, <3>1, <1>b, ForgottenProperties, Zenon
    <3>4. mem' \in [Ids -> Statuses \cup {None}]
      BY <3>1, <3>2, Zenon DEF SendTypeOK
    <3>5. \A i \in Ids : mem'[i] # None => mem'[i] <= told[i]
      BY <2>0, <3>1, <3>2, Zenon DEF StatusWasTold, SendTypeOK
    <3> QED BY <2>1, <3>3, <3>4, <3>5, Zenon DEF SendTypeOK, StatusWasTold, AskedTold, OnePerId, AllTold
  <2>3. CASE ~(Found(s) /\ mem[s] = None)
    <3>1. UNCHANGED <<mem, early>>
      BY <1>3, <2>3, Zenon DEF Confirm
    <3> QED BY <2>1, <3>1, Zenon DEF SendTypeOK, StatusWasTold, AskedTold
  <2> QED BY <2>2, <2>3, Zenon
<1>4. ASSUME NEW s \in Sends, Fail(s)
      PROVE  TickInv'
  BY <1>4, Zenon DEF Fail, SendTypeOK, StatusWasTold, AskedTold
<1>5. ASSUME NEW i \in Ids, Echo(i)
      PROVE  TickInv'
  <2>1. CASE mem[i] # None
    BY <1>5, <2>1, Zenon DEF Echo, view, SendTypeOK, StatusWasTold, AskedTold
  <2>2. CASE mem[i] = None
    <3>1. /\ mem' = [mem EXCEPT ![i] = Sent]
          /\ echoed' = echoed \cup {i}
          /\ UNCHANGED <<call, early, asked, moved, told>>
      BY <1>5, <2>2, Zenon DEF Echo
    <3>2. bubble' \in [Sends -> {"sending", "failed", None}]
      BY <1>5, <2>2, Zenon DEF Echo, SendTypeOK
    <3>3. Sent <= told[i] /\ Sent \in Statuses
      BY <1>a DEF SendTypeOK, Statuses
    <3> QED BY <3>1, <3>2, <3>3, Zenon DEF SendTypeOK, StatusWasTold, AskedTold
  <2> QED BY <2>1, <2>2, Zenon
<1>6. ASSUME NEW i \in Ids, NEW st \in {Delivered, Read}, ApplyReceipt(i, st)
      PROVE  TickInv'
  <2>1. told' = [told EXCEPT ![i] = IF st > @ THEN st ELSE @]
    BY <1>6, Zenon DEF ApplyReceipt
  <2>2. /\ told' \in [Ids -> Statuses]
        /\ \A k \in Ids : told[k] <= told'[k]
        /\ st <= told'[i]
    BY <2>1, <1>a, SMTT(40) DEF SendTypeOK, Statuses
  <2>3. \A n \in DOMAIN early : early[n][2] <= told'[early[n][1]]
    <3> SUFFICES ASSUME NEW n \in DOMAIN early PROVE early[n][2] <= told'[early[n][1]]
      BY Zenon
    <3>1. early[n] \in Receipt
      BY ElementOfSeq DEF SendTypeOK
    <3>2. early[n][1] \in Ids /\ early[n][2] \in Nat
      BY <3>1, <1>a, Zenon DEF Receipt
    <3>3. told[early[n][1]] \in Nat /\ told'[early[n][1]] \in Nat
      BY <3>2, <2>2, <1>a, SMTT(30) DEF SendTypeOK, Statuses
    <3> QED BY <1>b, <2>2, <3>2, <3>3, SMTT(30) DEF AllTold
  <2>6. \A r \in asked \cup {<<i, st>>} : r[2] <= told'[r[1]]
    <3> SUFFICES ASSUME NEW r \in asked PROVE r[2] <= told'[r[1]]
      BY <2>2
    <3>1. r[1] \in Ids /\ r[2] \in Nat
      BY <1>a, Zenon DEF SendTypeOK, Receipt
    <3>2. told[r[1]] \in Nat /\ told'[r[1]] \in Nat
      BY <3>1, <2>2, <1>a, SMTT(30) DEF SendTypeOK, Statuses
    <3> QED BY <2>2, <3>1, <3>2 DEF AskedTold
  <2>4. CASE mem[i] = None
    <3>1. /\ asked' = asked \cup {<<i, st>>}
          /\ UNCHANGED <<mem, call, bubble, early, echoed, moved>>
      BY <1>6, <2>4, Zenon DEF ApplyReceipt
    <3>2. asked' \subseteq Receipt
      BY <3>1 DEF Receipt, SendTypeOK
    <3>3. \A k \in Ids : mem[k] # None => mem[k] <= told'[k]
      BY <2>2, <1>a, SMTT(30) DEF SendTypeOK, StatusWasTold, Statuses
    <3> QED BY <2>2, <2>3, <2>6, <3>1, <3>2, <3>3, SMTT(30) DEF SendTypeOK, StatusWasTold, AskedTold
  <2>5. CASE mem[i] # None
    <3>1. /\ mem' = [mem EXCEPT ![i] = IF st > @ THEN st ELSE @]
          /\ UNCHANGED <<asked, call, bubble, early, echoed, moved>>
      BY <1>6, <2>5, Zenon DEF ApplyReceipt
    <3>2. mem' \in [Ids -> Statuses \cup {None}]
      BY <3>1, <1>a, Zenon DEF SendTypeOK
    <3>3. \A k \in Ids : mem'[k] # None => mem'[k] <= told'[k]
      BY <2>1, <2>2, <2>5, <3>1, <1>a, SMTT(30) DEF SendTypeOK, StatusWasTold, Statuses
    <3> QED BY <2>2, <2>3, <2>6, <3>1, <3>2, <3>3, SMTT(30) DEF SendTypeOK, StatusWasTold, AskedTold
  <2> QED BY <2>4, <2>5, Zenon
<1>7. ASSUME NEW i \in Ids, NEW st \in {Delivered, Read}, ReceiptMissed(i, st)
      PROVE  TickInv'
  <2>1. /\ <<i, st>> \in asked
        /\ asked' = asked \ {<<i, st>>}
        /\ early' = Remembered(i, st)
        /\ UNCHANGED <<call, bubble, mem, echoed, moved, told>>
    BY <1>7, Zenon DEF ReceiptMissed, view
  <2>2. st <= told[i]
    BY <2>1, Zenon DEF AskedTold
  <2>3. /\ early' \in Seq(Receipt)
        /\ Len(early') <= EarlyMax
        /\ OnePerId(early')
        /\ AllTold(early')
    BY <1>b, <2>1, <2>2, RememberedProperties, SMTT(30)
  <2> QED BY <2>1, <2>3, Zenon DEF SendTypeOK, StatusWasTold, AskedTold, OnePerId, AllTold
<1>8. CASE MergeChat
  BY <1>8, Zenon DEF MergeChat, view, SendTypeOK, StatusWasTold, AskedTold
<1>9. CASE UNCHANGED sendVars
  BY <1>9, Zenon DEF sendVars, view, SendTypeOK, StatusWasTold, AskedTold
<1> QED BY <1>1, <1>2, <1>3, <1>4, <1>5, <1>6, <1>7, <1>8, <1>9, SMTT(30) DEF SendNext

\* TypeOK with the bound on earlyReceipts, for every interleaving of sends,
\* deliveries, receipts and a merge.
THEOREM SendTypeCorrect == SendSpec => []SendTypeOK
<1>1. TickInv => SendTypeOK
  BY Zenon DEF TickInv
<1> QED BY <1>1, TickInit, TickStep, PTL DEF SendSpec

\* No tick without its receipt: neither applyReceipt nor the early receipts that
\* confirmOptimistic applies show a status that has not arrived.
THEOREM TicksWereTold == SendSpec => []StatusWasTold
<1>1. TickInv => StatusWasTold
  BY Zenon DEF TickInv
<1> QED BY <1>1, TickInit, TickStep, PTL DEF SendSpec

\* applyReceipt and confirmOptimistic never lower a status and never lose the
\* message that has it.
LEMMA TicksUp ==
    TickInv /\ [SendNext]_sendVars
        => [\A i \in Ids : mem[i] # None => mem'[i] # None /\ mem'[i] >= mem[i]]_sendVars
<1> SUFFICES ASSUME TickInv, SendNext \/ UNCHANGED mem,
                    NEW k \in Ids, mem[k] # None
             PROVE  mem'[k] # None /\ mem'[k] >= mem[k]
  BY Zenon DEF sendVars, view
<1> USE DEF TickInv
<1>a. /\ None \notin Statuses
      /\ mem[k] \in Statuses
      /\ \A st \in Statuses : st \in Nat
      /\ {Delivered, Read} \subseteq Statuses
  BY SendAssumption DEF SendTypeOK, Statuses, Sent, Delivered, Read
<1>1. CASE UNCHANGED mem
  BY <1>1, <1>a
<1>2. ASSUME NEW s \in Sends, Confirm(s)
      PROVE  mem'[k] # None /\ mem'[k] >= mem[k]
  BY <1>2, <1>a DEF Confirm, SendTypeOK
<1>3. ASSUME NEW i \in Ids, Echo(i)
      PROVE  mem'[k] # None /\ mem'[k] >= mem[k]
  BY <1>3, <1>a DEF Echo, view, SendTypeOK
<1>4. ASSUME NEW i \in Ids, NEW st \in {Delivered, Read}, ApplyReceipt(i, st)
      PROVE  mem'[k] # None /\ mem'[k] >= mem[k]
  <2>1. \/ mem' = mem
        \/ /\ mem' = [mem EXCEPT ![i] = IF st > @ THEN st ELSE @]
           /\ mem[i] # None
    BY <1>4, Zenon DEF ApplyReceipt
  <2>2. st \in Statuses /\ (mem[i] # None => mem[i] \in Statuses)
    BY <1>a, Zenon DEF SendTypeOK
  <2> QED BY <2>1, <2>2, <1>a, SMTT(30) DEF SendTypeOK
<1>5. ASSUME NEW s \in Sends, Send(s) \/ Accept(s) \/ Fail(s)
      PROVE  UNCHANGED mem
  BY <1>5, Zenon DEF Send, Accept, Fail, view
<1>6. ASSUME NEW i \in Ids, NEW st \in {Delivered, Read}, ReceiptMissed(i, st)
      PROVE  UNCHANGED mem
  BY <1>6, Zenon DEF ReceiptMissed, view
<1>7. MergeChat => UNCHANGED mem
  BY Zenon DEF MergeChat, view
<1> QED BY <1>1, <1>2, <1>3, <1>4, <1>5, <1>6, <1>7, SMTT(30) DEF SendNext

\* "Never downgrades" (messages.svelte.ts:573), in any order of events.
THEOREM TicksNeverGoBack == SendSpec => StatusNeverDowngraded
BY TickInit, TickStep, TicksUp, PTL DEF SendSpec, StatusNeverDowngraded

(***************************************************************************)
(* Confirmed sends are shown                                               *)
(***************************************************************************)
\* No own message but the send itself looks like the bubble of a send: what
\* addMessage takes for granted when it matches kind, text and quoted message.
NoLookalikes == \A s \in Sends, i \in Ids : Preview[s] = Body[i] => s = i

\* A send in progress is on screen: as its bubble, or already under its real id.
InProgressShown ==
    \A s \in Sends : call[s] \in {"sending", "accepted"} => bubble[s] = "sending" \/ mem[s] # None

ShownInv == TickInv /\ InProgressShown /\ ConfirmedIsShown

\* The invariant behind ConfirmedIsShown is kept by every step.
LEMMA ShownStep ==
    ASSUME NoLookalikes
    PROVE  ShownInv /\ [SendNext]_sendVars => ShownInv'
<1> SUFFICES ASSUME ShownInv, [SendNext]_sendVars PROVE ShownInv'
  BY Zenon
<1> USE DEF ShownInv
<1>a. TickInv'
  BY TickStep
<1>b. Sends \subseteq Ids /\ None \notin Statuses /\ None # "sending" /\ None # "failed"
  BY SendAssumption DEF Sends, Ids
<1>1. ASSUME NEW s \in Sends, Send(s)
      PROVE  ShownInv'
  BY <1>a, <1>b, <1>1, SMTT(30) DEF Send, TickInv, SendTypeOK, InProgressShown, ConfirmedIsShown
<1>2. ASSUME NEW s \in Sends, Accept(s)
      PROVE  ShownInv'
  BY <1>a, <1>b, <1>2, Zenon DEF Accept, view, TickInv, SendTypeOK, InProgressShown, ConfirmedIsShown
<1>3. ASSUME NEW s \in Sends, Confirm(s)
      PROVE  ShownInv'
  <2>1. ConfirmedStatus(s) # None
    BY <1>b, ConfirmedStatusTold, SMTT(30)
  <2>2. /\ mem' \in [Ids -> Statuses \cup {None}]
        /\ \A i \in Ids : mem[i] # None => mem'[i] # None
    BY <1>a, <1>3, <2>1, SMTT(30) DEF Confirm, TickInv, SendTypeOK
  <2>3. InProgressShown'
    BY <1>3, <1>b, <2>2, SMTT(30) DEF Confirm, TickInv, SendTypeOK, InProgressShown
  <2>4. s \notin moved => mem'[s] # None /\ bubble'[s] = None
    BY <1>3, <1>b, <2>1, <2>2, SMTT(30) DEF Confirm, Found, TickInv, SendTypeOK, InProgressShown
  <2>5. ConfirmedIsShown'
    BY <1>3, <1>b, <2>2, <2>4, SMTT(30) DEF Confirm, TickInv, SendTypeOK, ConfirmedIsShown
  <2> QED BY <1>a, <1>3, <2>3, <2>5, Zenon DEF Confirm
<1>4. ASSUME NEW s \in Sends, Fail(s)
      PROVE  ShownInv'
  BY <1>a, <1>b, <1>4, Zenon DEF Fail, TickInv, SendTypeOK, InProgressShown, ConfirmedIsShown
<1>5. ASSUME NEW i \in Ids, Echo(i)
      PROVE  ShownInv'
  <2>1. CASE mem[i] # None
    BY <1>a, <1>5, <2>1, Zenon DEF Echo, view, InProgressShown, ConfirmedIsShown
  <2>2. CASE mem[i] = None
    <3>1. mem' = [mem EXCEPT ![i] = Sent] /\ Sent \in Statuses /\ UNCHANGED <<call, moved>>
      BY <1>5, <2>2, Zenon DEF Echo, Statuses
    <3>2. \A k \in Ids : mem[k] # None => mem'[k] # None
      BY <3>1, <1>b, Zenon DEF TickInv, SendTypeOK
    <3>3. mem'[i] # None
      BY <3>1, <1>b, Zenon DEF TickInv, SendTypeOK
    <3>4. \A s \in Sends : bubble'[s] = bubble[s] \/ (bubble'[s] = None /\ s = i)
      <4>1. Twins(i) \subseteq {i}
        BY Zenon DEF Twins, NoLookalikes
      <4>2. CASE Twins(i) = {}
        BY <1>5, <2>2, <4>2, SMTT(30) DEF Echo
      <4>3. CASE Twins(i) # {}
        <5>1. Twins(i) = {i} /\ i \in Nat
          BY <4>1, <4>3, SendAssumption, SMTT(30) DEF Ids
        <5>2. (CHOOSE s \in Twins(i) : \A r \in Twins(i) : s <= r) = i
          BY <5>1
        <5>3. bubble' = [bubble EXCEPT ![i] = None]
          BY <1>5, <2>2, <4>3, <5>2, ZenonT(30) DEF Echo
        <5> QED BY <5>3, Zenon DEF TickInv, SendTypeOK
      <4> QED BY <4>2, <4>3, Zenon
    <3>5. InProgressShown'
      BY <1>b, <3>1, <3>2, <3>3, <3>4, SMTT(30) DEF InProgressShown
    <3>6. ConfirmedIsShown'
      BY <1>b, <3>1, <3>2, <3>4, SMTT(30) DEF ConfirmedIsShown
    <3> QED BY <1>a, <3>1, <3>5, <3>6, SMTT(30)
  <2> QED BY <2>1, <2>2, Zenon
<1>6. ASSUME NEW i \in Ids, NEW st \in {Delivered, Read}, ApplyReceipt(i, st)
      PROVE  ShownInv'
  <2>1. \A k \in Ids : mem[k] # None => mem'[k] # None
    BY <1>6, <1>b, Zenon DEF ApplyReceipt, TickInv, SendTypeOK, Statuses
  <2> QED BY <1>a, <1>b, <1>6, <2>1, SMTT(30) DEF ApplyReceipt, InProgressShown, ConfirmedIsShown
<1>7. ASSUME NEW i \in Ids, NEW st \in {Delivered, Read}, ReceiptMissed(i, st)
      PROVE  ShownInv'
  BY <1>a, <1>7, Zenon DEF ReceiptMissed, view, InProgressShown, ConfirmedIsShown
<1>8. CASE MergeChat
  <2>1. moved = {} /\ UNCHANGED <<call, bubble, mem>>
    BY <1>8, Zenon DEF MergeChat, view
  <2> QED BY <1>a, <2>1, Zenon DEF InProgressShown, ConfirmedIsShown
<1>9. CASE UNCHANGED sendVars
  BY <1>a, <1>9, Zenon DEF sendVars, view, InProgressShown, ConfirmedIsShown
<1> QED BY <1>1, <1>2, <1>3, <1>4, <1>5, <1>6, <1>7, <1>8, <1>9, SMTT(30) DEF SendNext

\* Whatever comes first, the delivery or the return of the command, a confirmed
\* send is shown under its real id and its bubble is gone, as long as no other own
\* message looks like it and its chat was not merged meanwhile.
THEOREM ConfirmedSendsAreShown ==
    ASSUME NoLookalikes
    PROVE  SendSpec => []ConfirmedIsShown
<1>1. SendInit => ShownInv
  BY TickInit, Zenon DEF SendInit, ShownInv, InProgressShown, ConfirmedIsShown
<1>2. ShownInv /\ [SendNext]_sendVars => ShownInv'
  BY ShownStep, Zenon
<1>3. ShownInv => ConfirmedIsShown
  BY Zenon DEF ShownInv
<1> QED BY <1>1, <1>2, <1>3, PTL DEF SendSpec

=============================================================================
