-------------------------- MODULE XWireLedger_proofs --------------------------
(* Proofs about XWireLedger.  The strengthening says of every scan, whether it still *)
(* holds the lease or not, what the invariants say of the row: its cursor is backed  *)
(* by stored posts, so a save, by whichever scan, keeps the row's cursor backed.     *)
EXTENDS XWireLedger, TLAPS

\* The posts of the window in front of the cursor are stored.
Backed(start, cursor) ==
  cursor # NoCursor => \A p \in start..cursor.head : p > cursor.next => p \in stored

\* The clock starts beyond the recovery window, so that no window reaches the null time.
ClockIsLate == wireClock >= Recovery + 1

ScanBacked(s) ==
  scan[s] # NoScan =>
    /\ Backed(scan[s].start, scan[s].cursor)
    /\ Scanning(s, "done") => scan[s].cursor.next < scan[s].start /\ scan[s].cursor.head >= 1
    /\ ~Scanning(s, "done") => scan[s].cursor \in Cursor

WireInv ==
  /\ WireTypeOK /\ ClockIsLate
  /\ Backed(account.start, account.cursor)
  /\ \A s \in Scan : ScanBacked(s)

Row == [completed: {0} \cup 1..wireClock, cursor: Cursor, start: {0} \cup 1..wireClock,
        gap: {0} \cup 1..wireClock, due: 0..LastTick + 1, lease: SUBSET Scan,
        lapsed: BOOLEAN, health: {"unconfigured", "healthy", "partial", "unavailable"}]
Walk == [pc: {"fetch", "save", "done", "repeated", "error"}, start: wireClock - Recovery..wireClock,
         missing: {0} \cup 1..wireClock, cursor: [next: 0..wireClock, head: 0..wireClock],
         pages: 0..PageLimit]

\* The ledger starts empty.
LEMMA WireInitInv == WireInit => WireInv
BY WireAssumption
   DEF WireInit, WireInv, WireTypeOK, ClockIsLate, Backed, ScanBacked, NewAccount, NoScan,
       NoCursor, WireTime, Cursor, Scanning

\* The conjuncts of the type invariant, by name.
LEMMA WireTypes ==
  ASSUME WireInv
  PROVE  /\ wireClock \in WireTime /\ wireClock - Recovery >= 1 /\ stored \subseteq 1..wireClock
         /\ account \in Row /\ claims \in 0..MaxScans
         /\ scan \in [Scan -> {NoScan} \cup Walk]
         /\ \A s \in Scan : scan[s].pc # "off" => scan[s] \in Walk /\ scan[s] # NoScan
BY WireAssumption DEF WireInv, WireTypeOK, ClockIsLate, Row, Walk, NoScan, WireTime

\* A step at the same time that keeps the stored posts or adds some, leaves the row a
\* backed one, and changes at most the record of one scan, to a backed one.
LEMMA OneScanMoves ==
  ASSUME WireInv, NEW s \in Scan, NEW rec,
         wireClock' = wireClock, stored \subseteq stored', stored' \subseteq 1..wireClock,
         claims' \in 0..MaxScans, account' \in Row,
         Backed(account.start, account.cursor)',
         scan' = [scan EXCEPT ![s] = rec],
         \/ rec = NoScan
         \/ rec \in Walk /\ ScanBacked(s)'
  PROVE  WireInv'
<1>1. /\ scan'[s] = rec /\ \A t \in Scan : t # s => scan'[t] = scan[t]
      /\ scan' \in [Scan -> {NoScan} \cup Walk]
  BY WireTypes
<1>2. WireTypeOK'
  BY <1>1, WireTypes DEF WireTypeOK, Row, Walk, NoScan, Cursor
<1>3. ClockIsLate'
  BY DEF WireInv, ClockIsLate
<1>4. ASSUME NEW t \in Scan, t # s PROVE ScanBacked(t)'
  BY <1>1, <1>4 DEF WireInv, ScanBacked, Backed, Scanning, Cursor
<1>5. ScanBacked(s)'
  BY <1>1 DEF ScanBacked
<1> QED
  BY <1>2, <1>3, <1>4, <1>5 DEF WireInv

\* The window of a claim lies in the recovery window and continues the row's cursor or none.
LEMMA WindowForm ==
  ASSUME WireInv, NEW anchor \in {0} \cup 1..wireClock
  PROVE  LET window == RequestWindow(anchor, account.cursor, account.start)
         IN /\ window.start \in wireClock - Recovery..wireClock
            /\ window.cursor \in Cursor
            /\ Backed(window.start, window.cursor)
<1> USE WireAssumption
<1> DEFINE wanted == Wanted(anchor)
           window == RequestWindow(anchor, account.cursor, account.start)
           oldest == wireClock - Recovery
<1>1. /\ wireClock \in Int /\ oldest >= 1 /\ account.start \in {0} \cup 1..wireClock
      /\ account.cursor \in Cursor
  BY WireTypes DEF Row, WireTime
<1>2. wanted \in Int /\ wanted >= Lookback
  BY <1>1 DEF Wanted
<1>3. NoCursor \in Cursor
  BY DEF Cursor
<1>4. CASE account.cursor # NoCursor /\ account.start >= oldest
  <2>1. window = [start |-> account.start, cursor |-> account.cursor, gap |-> FALSE]
    BY <1>1, <1>4 DEF RequestWindow
  <2> QED
    BY <1>1, <1>4, <2>1 DEF WireInv
<1>5. CASE account.cursor # NoCursor /\ account.start < oldest
  <2>1. window = [start |-> oldest, cursor |-> NoCursor, gap |-> TRUE]
    BY <1>1, <1>5 DEF RequestWindow
  <2> QED
    BY <1>1, <1>3, <2>1 DEF Backed
<1>6. CASE account.cursor = NoCursor
  <2>1. \/ wanted > Recovery /\ window = [start |-> oldest, cursor |-> NoCursor, gap |-> TRUE]
        \/ wanted <= Recovery
           /\ window = [start |-> wireClock - wanted, cursor |-> NoCursor, gap |-> FALSE]
    BY <1>1, <1>2, <1>6 DEF RequestWindow
  <2> QED
    BY <1>1, <1>2, <1>3, <2>1 DEF Backed
<1> QED
  BY <1>1, <1>4, <1>5, <1>6

\* A claim starts a walk where the row's cursor stands, or at the head of the timeline.
LEMMA ClaimKeeps == ASSUME WireInv, NEW s \in Scan, ClaimAccount(s) PROVE WireInv'
<1> USE WireAssumption
<1>1. PICK read \in BOOLEAN :
        LET seen == IF read THEN account.gap ELSE 0
            window == RequestWindow(RecoveryAnchor(account.completed, seen),
                                    account.cursor, account.start)
            missing == IF seen # 0 THEN seen ELSE IF ~window.gap THEN 0
                       ELSE IF account.completed # 0 THEN account.completed ELSE window.start
        IN /\ account' = [account EXCEPT !.lease = {s}, !.lapsed = FALSE]
           /\ Continue(s, [pc |-> "fetch", start |-> window.start, missing |-> missing,
                           cursor |-> window.cursor, pages |-> 0])
  BY DEF ClaimAccount
<1> DEFINE seen == IF read THEN account.gap ELSE 0
           anchor == RecoveryAnchor(account.completed, seen)
           window == RequestWindow(anchor, account.cursor, account.start)
           missing == IF seen # 0 THEN seen ELSE IF ~window.gap THEN 0
                      ELSE IF account.completed # 0 THEN account.completed ELSE window.start
           rec == [pc |-> "fetch", start |-> window.start, missing |-> missing,
                   cursor |-> window.cursor, pages |-> 0]
<1>2. /\ wireClock \in Int /\ wireClock - Recovery >= 1
      /\ account.completed \in {0} \cup 1..wireClock /\ account.gap \in {0} \cup 1..wireClock
      /\ account.cursor \in Cursor /\ account.start \in {0} \cup 1..wireClock /\ account \in Row
  BY WireTypes DEF Row, WireTime
<1>3. seen \in {0} \cup 1..wireClock /\ anchor \in {0} \cup 1..wireClock
  BY <1>2 DEF RecoveryAnchor
<1>4. /\ window.start \in wireClock - Recovery..wireClock /\ window.cursor \in Cursor
      /\ Backed(window.start, window.cursor)
  BY <1>3, WindowForm
<1>5. missing \in {0} \cup 1..wireClock
  BY <1>2, <1>3, <1>4
<1>6. window.cursor \in [next: 0..wireClock, head: 0..wireClock]
  <2> HIDE DEF window
  <2> QED
    BY <1>2, <1>4 DEF Cursor, NoCursor
<1>7. rec \in Walk
  <2> HIDE DEF window, missing
  <2> QED
    BY <1>4, <1>5, <1>6 DEF Walk
<1>8. /\ account' = [account EXCEPT !.lease = {s}, !.lapsed = FALSE]
      /\ scan' = [scan EXCEPT ![s] = rec]
  BY <1>1 DEF Continue
<1>9. account' \in Row /\ account'.start = account.start /\ account'.cursor = account.cursor
  BY <1>2, <1>8 DEF Row
<1>10. UNCHANGED <<wireClock, stored>> /\ claims' \in 0..MaxScans
  BY WireTypes DEF ClaimAccount
<1>11. ScanBacked(s)'
  <2> HIDE DEF window, missing
  <2>1. scan'[s] = rec
    BY <1>8, WireTypes
  <2> QED
    BY <1>4, <1>10, <2>1 DEF ScanBacked, Scanning, Backed, Cursor
<1>12. Backed(account.start, account.cursor)'
  BY <1>9, <1>10 DEF WireInv, Backed
<1>13. stored \subseteq stored' /\ stored' \subseteq 1..wireClock /\ wireClock' = wireClock
  BY <1>10, WireTypes
<1> HIDE DEF rec
<1> QED
  BY <1>7, <1>8, <1>9, <1>10, <1>11, <1>12, <1>13, OneScanMoves

\* A page extends what is stored in front of the cursor down to the new cursor.
LEMMA PageKeeps == ASSUME WireInv, NEW s \in Scan, FetchPage(s) PROVE WireInv'
<1> USE WireAssumption
<1> DEFINE sc == scan[s]
           first == sc.cursor = NoCursor
           top == IF first THEN wireClock ELSE sc.cursor.next
           head == IF first THEN wireClock ELSE sc.cursor.head
           rec(pc, c) == [pc |-> pc, start |-> sc.start, missing |-> sc.missing, cursor |-> c,
                          pages |-> sc.pages + 1]
           behind(low) == [next |-> low - 1, head |-> head]
<1>1. /\ sc \in Walk /\ sc # NoScan /\ wireClock \in Int /\ wireClock - Recovery >= 1
      /\ wireClock <= LastTick /\ stored \subseteq 1..wireClock /\ claims \in 0..MaxScans
      /\ account \in Row /\ scan \in [Scan -> {NoScan} \cup Walk]
  BY WireTypes DEF FetchPage, Scanning, WireTime
<1>2. /\ sc.start \in wireClock - Recovery..wireClock /\ sc.cursor \in Cursor
      /\ Backed(sc.start, sc.cursor) /\ sc.pages \in 0..PageLimit /\ sc.pages < PageLimit
  BY <1>1 DEF WireInv, ScanBacked, FetchPage, Scanning, Walk
<1>3. top \in 1..wireClock /\ head \in 1..wireClock
  BY <1>1, <1>2 DEF Cursor, WireTime
<1>4. PICK low \in 1..top :
        /\ stored' = stored \cup Kept(low, top, sc.start)
        /\ \/ low > 1 /\ Continue(s, rec("save", behind(low)))
           \/ low < sc.start /\ Continue(s, rec("done", behind(low)))
           \/ (low = 1 \/ (first /\ low = sc.start)) /\ Continue(s, rec("done", behind(low)))
           \/ Continue(s, rec("error", NoCursor))
           \/ Continue(s, rec("repeated", NoCursor))
  BY DEF FetchPage
<1> DEFINE cursor == behind(low)
<1>5. \A p \in sc.start..head : p > low - 1 => p \in stored'
  <2> SUFFICES ASSUME NEW p \in sc.start..head, p > low - 1 PROVE p \in stored'
    OBVIOUS
  <2>1. CASE p <= top
    BY <1>1, <1>2, <1>3, <1>4, <2>1 DEF Kept, WireTime
  <2>2. CASE p > top
    <3>1. ~first
      BY <1>1, <1>2, <1>3, <2>2 DEF WireTime
    <3> QED
      BY <1>2, <1>4, <2>2, <3>1 DEF Backed
  <2> QED
    BY <1>1, <1>2, <1>3, <2>1, <2>2 DEF WireTime
<1>6. \/ low > 1 /\ scan' = [scan EXCEPT ![s] = rec("save", cursor)]
      \/ low <= sc.start /\ scan' = [scan EXCEPT ![s] = rec("done", cursor)]
      \/ scan' = [scan EXCEPT ![s] = rec("error", NoCursor)]
      \/ scan' = [scan EXCEPT ![s] = rec("repeated", NoCursor)]
  <2>1. low < sc.start \/ low = 1 \/ low = sc.start => low <= sc.start
    BY <1>1, <1>2, <1>3
  <2> HIDE DEF rec, behind
  <2> QED
    BY <1>4, <2>1 DEF Continue
<1>7. /\ UNCHANGED <<wireClock, account, claims>>
      /\ stored \subseteq stored' /\ stored' \subseteq 1..wireClock
  <2>1. UNCHANGED <<wireClock, account, claims>>
    BY DEF FetchPage
  <2>2. low..top \subseteq 1..wireClock
    BY <1>1, <1>3
  <2> HIDE DEF top, head
  <2> QED
    BY <1>1, <1>4, <2>1, <2>2 DEF Kept
<1>8. Backed(account.start, account.cursor)'
  BY <1>7 DEF WireInv, Backed
<1>9. low \in Int /\ cursor \in [next: 0..wireClock, head: 1..wireClock] /\ cursor # NoCursor
  BY <1>1, <1>3 DEF NoCursor
<1>10. ASSUME NEW pc \in {"save", "done", "repeated", "error"}, NEW c \in {cursor, NoCursor},
              scan' = [scan EXCEPT ![s] = rec(pc, c)],
              pc = "done" => c = cursor /\ low <= sc.start,
              pc # "done" => c \in Cursor
       PROVE  WireInv'
  <2>1. rec(pc, c) \in Walk
    BY <1>1, <1>2, <1>9 DEF Walk, NoCursor
  <2>2. scan'[s] = rec(pc, c)
    BY <1>1, <1>10
  <2>3. c # NoCursor => \A p \in sc.start..c.head : p > c.next => p \in stored'
    BY <1>5, <1>10
  <2>4. c = cursor /\ low <= sc.start => c.next < sc.start
    BY <1>1, <1>2, <1>9
  <2>5. Cursor' = Cursor
    BY <1>7 DEF Cursor
  <2>6. ScanBacked(s)'
    <3> HIDE DEF cursor
    <3> QED
      BY <1>9, <1>10, <2>2, <2>3, <2>4, <2>5 DEF ScanBacked, Scanning, Backed
  <2> HIDE DEF rec
  <2> QED
    BY <1>1, <1>7, <1>8, <1>10, <2>1, <2>6, OneScanMoves
<1>11. CASE low > 1 /\ scan' = [scan EXCEPT ![s] = rec("save", cursor)]
  <2>1. cursor \in Cursor
    BY <1>3, <1>9, <1>11 DEF Cursor
  <2> HIDE DEF cursor, rec
  <2> QED
    BY <1>10, <1>11, <2>1
<1>12. CASE low <= sc.start /\ scan' = [scan EXCEPT ![s] = rec("done", cursor)]
  <2> HIDE DEF cursor, rec
  <2> QED
    BY <1>10, <1>12
<1>13. ASSUME NEW pc \in {"error", "repeated"}, scan' = [scan EXCEPT ![s] = rec(pc, NoCursor)]
       PROVE  WireInv'
  <2>1. NoCursor \in Cursor
    BY DEF Cursor
  <2> HIDE DEF cursor, rec
  <2> QED
    BY <1>10, <1>13, <2>1
<1> QED
  BY <1>6, <1>11, <1>12, <1>13

\* A finish writes a backed row or, with the lease lost, nothing.
LEMMA FinishKeeps ==
  ASSUME WireInv, NEW s \in Scan, NEW row \in Row, FinishScan(s, row),
         UNCHANGED <<wireClock, stored, claims>>, Backed(row.start, row.cursor)
  PROVE  WireInv'
<1> DEFINE released == [row EXCEPT !.lease = {}, !.lapsed = FALSE]
<1>1. released \in Row /\ released.start = row.start /\ released.cursor = row.cursor
  BY DEF Row
<1>2. account' \in {released, account}
  BY DEF FinishScan
<1>3. account' \in Row /\ Backed(account.start, account.cursor)'
  <2> HIDE DEF released
  <2> QED
    BY <1>1, <1>2, WireTypes DEF WireInv, Backed
<1>4. scan' = [scan EXCEPT ![s] = NoScan]
  BY DEF FinishScan, Halt, Continue
<1> QED
  BY <1>3, <1>4, WireTypes, OneScanMoves

\* What a scan writes of its walk, if it does not complete it.
LEMMA SavedForm ==
  ASSUME WireInv, NEW s \in Scan, NEW row \in Row, scan[s] # NoScan, NEW c \in InHand(s)
  PROVE  /\ Saved(row, s, c) \in Row
         /\ Saved(row, s, c).start = scan[s].start /\ Saved(row, s, c).cursor = c
         /\ Backed(scan[s].start, c)
<1>1. scan[s] \in Walk /\ wireClock - Recovery >= 1 /\ wireClock \in Int
  BY WireTypes DEF WireTime
<1>2. c \in Cursor /\ Backed(scan[s].start, c)
  <2>1. CASE c = NoCursor
    BY <2>1 DEF Cursor, Backed
  <2>2. CASE ~Scanning(s, "done")
    BY <2>2 DEF WireInv, ScanBacked, InHand
  <2>3. CASE Scanning(s, "done") /\ c # NoCursor
    <3>1. c = scan[s].cursor /\ c.next >= 1
      BY <1>1, <2>3, WireAssumption DEF InHand, Walk
    <3>2. c.head >= 1 /\ Backed(scan[s].start, c)
      BY <2>3, <3>1 DEF WireInv, ScanBacked
    <3>3. c \in [next: 0..wireClock, head: 0..wireClock]
      BY <1>1, <3>1 DEF Walk
    <3> QED
      BY <1>1, <3>1, <3>2, <3>3 DEF Cursor
  <2> QED
    BY <2>1, <2>2, <2>3
<1>3. scan[s].start \in {0} \cup 1..wireClock
  BY <1>1, WireAssumption DEF Walk
<1> QED
  BY <1>2, <1>3 DEF Saved, Row

\* The marker is one of the times the row may hold, and nothing else changes.
LEMMA MarkedForm ==
  ASSUME WireInv, NEW s \in Scan, scan[s] # NoScan
  PROVE  /\ Marked(s) \in Row
         /\ Marked(s).start = account.start /\ Marked(s).cursor = account.cursor
<1>1. scan[s] \in Walk /\ account \in Row
  BY WireTypes
<1>2. scan[s].missing \in {0} \cup 1..wireClock
  BY <1>1 DEF Walk
<1> QED
  BY <1>1, <1>2 DEF Marked, Row

LEMMA SaveKeeps == ASSUME WireInv, NEW s \in Scan, SaveCursor(s) PROVE WireInv'
<1>1. scan[s] \in Walk /\ scan[s] # NoScan /\ ~Scanning(s, "done") /\ account \in Row
  BY WireTypes DEF SaveCursor, Scanning
<1>2. CASE Leased(s)
  <2> DEFINE rec == [scan[s] EXCEPT !.pc = "fetch"]
  <2>1. rec \in Walk /\ rec # NoScan
        /\ rec.start = scan[s].start /\ rec.cursor = scan[s].cursor /\ rec.pc = "fetch"
    BY <1>1 DEF Walk, NoScan
  <2>2. account' = Saved(account, s, scan[s].cursor) /\ scan' = [scan EXCEPT ![s] = rec]
    BY <1>2 DEF SaveCursor, Continue
  <2>3. UNCHANGED <<wireClock, stored, claims>>
    BY DEF SaveCursor
  <2>4. /\ account' \in Row /\ Backed(account.start, account.cursor)'
        /\ Backed(scan[s].start, scan[s].cursor)
    BY <1>1, <2>2, <2>3, SavedForm DEF Backed, InHand
  <2>5. scan'[s] = rec
    BY <2>2, WireTypes
  <2>6. scan[s].cursor \in Cursor /\ Cursor' = Cursor
    BY <1>1, <2>3 DEF WireInv, ScanBacked, Cursor
  <2>7. ScanBacked(s)'
    <3> HIDE DEF rec
    <3> QED
      BY <2>1, <2>3, <2>4, <2>5, <2>6 DEF ScanBacked, Scanning, Backed
  <2> HIDE DEF rec
  <2> QED
    BY <2>1, <2>2, <2>3, <2>4, <2>7, WireTypes, OneScanMoves
<1>3. CASE ~Leased(s)
  <2>1. UNCHANGED <<wireClock, stored, claims, account>> /\ scan' = [scan EXCEPT ![s] = NoScan]
    BY <1>3 DEF SaveCursor, Halt, Continue
  <2> QED
    BY <2>1, WireTypes, OneScanMoves DEF WireInv, Backed
<1> QED
  BY <1>2, <1>3

LEMMA PauseKeeps == ASSUME WireInv, NEW s \in Scan, PauseWalk(s) PROVE WireInv'
<1>1. scan[s] # NoScan /\ ~Scanning(s, "done")
  BY WireTypes DEF PauseWalk, Scanning
<1>2. Marked(s) \in Row
  BY <1>1, MarkedForm
<1> DEFINE row == Saved(Marked(s), s, scan[s].cursor)
<1>3. row \in Row /\ Backed(row.start, row.cursor)
  BY <1>1, <1>2, SavedForm DEF InHand
<1>4. FinishScan(s, row) /\ UNCHANGED <<wireClock, stored, claims>>
  BY DEF PauseWalk
<1> HIDE DEF row
<1> QED
  BY <1>3, <1>4, FinishKeeps

LEMMA CompleteKeeps == ASSUME WireInv, NEW s \in Scan, CompleteWalk(s) PROVE WireInv'
<1> USE WireAssumption
<1>1. PICK health \in {"healthy", "partial"} :
        FinishScan(s, [account EXCEPT !.completed = wireClock, !.cursor = NoCursor, !.start = 0,
                        !.gap = Unresolved(s), !.due = wireClock + 1, !.health = health])
  BY DEF CompleteWalk
<1> DEFINE row == [account EXCEPT !.completed = wireClock, !.cursor = NoCursor, !.start = 0,
                     !.gap = Unresolved(s), !.due = wireClock + 1, !.health = health]
<1>2. /\ account \in Row /\ scan[s] \in Walk /\ wireClock \in 1..LastTick
  BY WireTypes DEF CompleteWalk, Scanning, WireTime
<1>3. Unresolved(s) \in {0} \cup 1..wireClock
  BY <1>2 DEF Unresolved, Walk
<1>4. NoCursor \in Cursor /\ wireClock + 1 \in 0..LastTick + 1 /\ wireClock \in {0} \cup 1..wireClock
  BY <1>2 DEF Cursor
<1>5. row \in Row /\ row.cursor = NoCursor
  BY <1>2, <1>3, <1>4 DEF Row
<1>6. Backed(row.start, row.cursor)
  BY <1>5 DEF Backed
<1> HIDE DEF row
<1> QED
  BY <1>1, <1>5, <1>6, FinishKeeps DEF CompleteWalk, row

LEMMA LoseKeeps == ASSUME WireInv, NEW s \in Scan, LoseCursor(s) PROVE WireInv'
<1> USE WireAssumption
<1>1. account \in Row /\ scan[s] \in Walk /\ wireClock - Recovery >= 1 /\ wireClock \in 1..LastTick
  BY WireTypes DEF LoseCursor, Scanning, WireTime
<1> DEFINE gap == IF scan[s].missing # 0 THEN scan[s].missing ELSE scan[s].start
<1>2. gap \in {0} \cup 1..wireClock /\ NoCursor \in Cursor
  BY <1>1 DEF Walk, Cursor
<1>3. Rewound(s) \in Row /\ Rewound(s).cursor = NoCursor
  <2>1. Rewound(s) = [account EXCEPT !.gap = gap, !.cursor = NoCursor, !.start = 0,
                                     !.health = "partial"]
    BY DEF Rewound
  <2> HIDE DEF gap
  <2> QED
    BY <1>1, <1>2, <2>1 DEF Row
<1> QED
  BY <1>3, FinishKeeps DEF LoseCursor, Backed

LEMMA FailKeeps == ASSUME WireInv, NEW s \in Scan, ScanFails(s) PROVE WireInv'
<1> USE WireAssumption
<1>1. scan[s] # NoScan /\ wireClock \in 1..LastTick
  BY WireTypes DEF ScanFails, Scanning, WireTime, NoScan
<1>2. /\ Marked(s) \in Row
      /\ Marked(s).start = account.start /\ Marked(s).cursor = account.cursor
  BY <1>1, MarkedForm
<1> DEFINE unread == [Marked(s) EXCEPT !.health = "unavailable"]
<1>3. unread \in Row /\ Backed(unread.start, unread.cursor)
  BY <1>2 DEF Row, WireInv
<1>4. ASSUME NEW c \in InHand(s)
      PROVE  /\ Saved(Marked(s), s, c) \in Row
             /\ Backed(Saved(Marked(s), s, c).start, Saved(Marked(s), s, c).cursor)
  BY <1>1, <1>2, SavedForm
<1>5. PICK rows \in BOOLEAN, wait \in {0, 1}, cursor \in InHand(s) :
        FinishScan(s, [(IF rows THEN Saved(Marked(s), s, cursor)
                        ELSE [Marked(s) EXCEPT !.health = "unavailable"]) EXCEPT !.due = wireClock + wait])
  BY DEF ScanFails
<1> DEFINE row == IF rows THEN Saved(Marked(s), s, cursor) ELSE unread
<1>6. row \in Row /\ Backed(row.start, row.cursor)
  <2> HIDE DEF unread
  <2> QED
    BY <1>3, <1>4
<1> DEFINE dated == [row EXCEPT !.due = wireClock + wait]
<1>7. dated \in Row /\ dated.start = row.start /\ dated.cursor = row.cursor
  BY <1>1, <1>6 DEF Row
<1>8. UNCHANGED <<wireClock, stored, claims>> /\ FinishScan(s, dated)
  BY <1>5 DEF ScanFails
<1> HIDE DEF dated
<1> QED
  BY <1>6, <1>7, <1>8, FinishKeeps

LEMMA KillKeeps == ASSUME WireInv, NEW s \in Scan, ScanKilled(s) PROVE WireInv'
<1>1. UNCHANGED <<wireClock, account, stored, claims>> /\ scan' = [scan EXCEPT ![s] = NoScan]
  BY DEF ScanKilled, Halt, Continue
<1> QED
  BY <1>1, WireTypes, OneScanMoves DEF WireInv, Backed

\* A step of the lease or of the clock: the ranges grow with the clock.
LEMMA TimeKeeps ==
  ASSUME WireInv, NEW lapsed \in BOOLEAN, account' = [account EXCEPT !.lapsed = lapsed],
         UNCHANGED <<stored, scan, claims>>, wireClock' \in WireTime,
         \/ wireClock' = wireClock
         \/ wireClock' > wireClock /\ \A s \in Scan : scan[s] = NoScan
  PROVE  WireInv'
<1> USE WireAssumption
<1>1. /\ account \in Row /\ wireClock \in Int /\ wireClock' \in Int /\ wireClock' >= wireClock
      /\ stored \subseteq 1..wireClock /\ claims \in 0..MaxScans
      /\ scan \in [Scan -> {NoScan} \cup Walk]
  BY WireTypes DEF WireTime
<1>2. /\ account' \in Row /\ account'.start = account.start /\ account'.cursor = account.cursor
  BY <1>1 DEF Row
<1>3. Cursor \subseteq Cursor' /\ Row \subseteq Row'
  <2>1. Cursor \subseteq Cursor'
    BY <1>1 DEF Cursor
  <2> QED
    BY <1>1, <2>1 DEF Row
<1>4. account' \in Row'
  BY <1>2, <1>3
<1>5. scan' \in [Scan -> {NoScan} \cup Walk']
  <2>1. CASE wireClock' = wireClock
    BY <1>1, <2>1 DEF Walk
  <2>2. CASE \A s \in Scan : scan[s] = NoScan
    BY <1>1, <2>2
  <2> QED
    BY <2>1, <2>2
<1>6. WireTypeOK'
  BY <1>1, <1>4, <1>5 DEF WireTypeOK, Row, Walk
<1>7. ClockIsLate'
  BY <1>1 DEF WireInv, ClockIsLate
<1>8. Backed(account.start, account.cursor)'
  BY <1>2 DEF WireInv, Backed
<1>9. ASSUME NEW s \in Scan PROVE ScanBacked(s)'
  BY <1>3 DEF WireInv, ScanBacked, Backed, Scanning
<1> QED
  BY <1>6, <1>7, <1>8, <1>9 DEF WireInv

\* The invariant is inductive.
LEMMA WireStep == WireInv /\ [WireNext]_wireVars => WireInv'
<1> SUFFICES ASSUME WireInv, [WireNext]_wireVars PROVE WireInv'
  OBVIOUS
<1> USE WireAssumption
<1>1. ASSUME WireLeaseLapses PROVE WireInv'
  BY <1>1, WireTypes, TimeKeeps DEF WireLeaseLapses
<1>2. ASSUME WireTick PROVE WireInv'
  <2>1. PICK lapsed \in BOOLEAN : account' = [account EXCEPT !.lapsed = lapsed]
    BY <1>2 DEF WireTick
  <2>2. wireClock' \in WireTime /\ wireClock' > wireClock
    BY <1>2, WireTypes DEF WireTick, WireTime
  <2> QED
    BY <1>2, <2>1, <2>2, TimeKeeps DEF WireTick
<1>3. CASE UNCHANGED wireVars
  BY <1>3 DEF wireVars, WireInv, WireTypeOK, ClockIsLate, Backed, ScanBacked, Scanning, Cursor
<1> QED
  BY <1>1, <1>2, <1>3, ClaimKeeps, PageKeeps, SaveKeeps, PauseKeeps, CompleteKeeps, LoseKeeps,
     FailKeeps, KillKeeps DEF WireNext

\* Every behaviour keeps the invariant.
LEMMA WireInvariance == WireSpec => []WireInv
BY WireInitInv, WireStep, PTL DEF WireSpec

\* Types of x_wire_accounts and of the scans; every request stays in the recovery window.
THEOREM WireTypeCorrect == WireSpec => []WireTypeOK
<1>1. WireInv => WireTypeOK
  BY DEF WireInv
<1> QED
  BY <1>1, WireInvariance, PTL

\* The saved cursor of a paused walk vouches for stored posts only.
THEOREM CursorBacked == WireSpec => []CursorIsBacked
<1>1. WireInv => CursorIsBacked
  BY DEF WireInv, CursorIsBacked, Backed
<1> QED
  BY <1>1, WireInvariance, PTL

\* A walk that reached the start of its window stored all of it.
THEOREM WalkStored == WireSpec => []WalkIsStored
<1>1. WireInv => WalkIsStored
  <2> SUFFICES ASSUME WireInv, NEW s \in Scan, Scanning(s, "done"),
                      NEW p \in scan[s].start..scan[s].cursor.head
               PROVE  p \in stored
    BY DEF WalkIsStored
  <2>1. scan[s] \in Walk /\ scan[s] # NoScan /\ wireClock \in Int
    BY WireTypes DEF Scanning, WireTime
  <2>2. scan[s].start \in Int /\ scan[s].cursor.next \in Int
    BY <2>1, WireAssumption DEF Walk
  <2> QED
    BY <2>1, <2>2 DEF WireInv, ScanBacked, Backed, NoCursor
<1> QED
  BY <1>1, WireInvariance, PTL

\* While one scan holds the lease no other writes the row.
THEOREM LateScanFenced == WireSpec => LateScanIsFenced
<1> DEFINE Fenced ==
      \A s \in Scan :
        scan[s] # NoScan /\ Leased(s) /\ ~account.lapsed /\ scan'[s] = scan[s]
          => account' \in {account, [account EXCEPT !.lapsed = TRUE]}
<1>1. WireInv /\ [WireNext]_wireVars => [Fenced]_wireVars
  <2> SUFFICES ASSUME WireInv, WireNext, NEW s \in Scan, scan[s] # NoScan, Leased(s),
                      ~account.lapsed, scan'[s] = scan[s]
               PROVE  account' \in {account, [account EXCEPT !.lapsed = TRUE]}
    OBVIOUS
  <2>1. CASE WireTick \/ WireLeaseLapses
    BY <2>1 DEF WireTick, WireLeaseLapses
  <2>2. ASSUME NEW t \in Scan, ClaimAccount(t) PROVE FALSE
    BY <2>2 DEF ClaimAccount, Leased
  <2>3. ASSUME NEW t \in Scan, \E row : FinishScan(t, row)
        PROVE  account' = account
    <3>1. scan' = [scan EXCEPT ![t] = NoScan] /\ scan \in [Scan -> {NoScan} \cup Walk]
      BY <2>3, WireTypes DEF FinishScan, Halt, Continue
    <3>2. t # s
      BY <3>1
    <3> QED
      BY <2>3, <3>2 DEF FinishScan, Leased
  <2>4. ASSUME NEW t \in Scan, SaveCursor(t) PROVE account' = account
    <3>1. CASE t = s
      <4>1. scan[s] \in Walk /\ scan[s].pc = "save" /\ scan \in [Scan -> {NoScan} \cup Walk]
        BY <2>4, <3>1, WireTypes DEF SaveCursor, Scanning
      <4>2. scan' = [scan EXCEPT ![s] = [scan[s] EXCEPT !.pc = "fetch"]]
        BY <2>4, <3>1 DEF SaveCursor, Continue
      <4>3. scan'[s].pc = "fetch"
        BY <4>1, <4>2 DEF Walk
      <4> QED
        BY <4>1, <4>3
    <3>2. CASE t # s
      BY <2>4, <3>2 DEF SaveCursor, Leased
    <3> QED
      BY <3>1, <3>2
  <2>5. ASSUME NEW t \in Scan, ScanFails(t) PROVE account' = account
    BY <2>3, <2>5 DEF ScanFails
  <2>6. ASSUME NEW t \in Scan, PauseWalk(t) \/ LoseCursor(t) PROVE account' = account
    BY <2>3, <2>6 DEF PauseWalk, LoseCursor
  <2>7. ASSUME NEW t \in Scan, CompleteWalk(t) PROVE account' = account
    BY <2>3, <2>7 DEF CompleteWalk
  <2>8. ASSUME NEW t \in Scan, FetchPage(t) \/ ScanKilled(t) PROVE account' = account
    BY <2>8 DEF FetchPage, ScanKilled
  <2> QED
    BY <2>1, <2>2, <2>4, <2>5, <2>6, <2>7, <2>8 DEF WireNext
<1> QED
  BY <1>1, WireInvariance, PTL DEF WireSpec, LateScanIsFenced
=============================================================================
