------------------------------ MODULE XWireLedger ------------------------------
(* The checkpoint of one account in the X wire ledger (a row of x_wire_accounts), *)
(* and the posts it vouches for: src/lib/x-wire-durable.ts, x-wire-pagination.ts  *)
(* and claim_x_wire_account.  A tick is overlapMinutes, 30 minutes by default; the *)
(* account publishes one post in every tick, so a post is named by its tick.       *)
(* A scan lives far shorter than a tick; 0 stands for null.                        *)
EXTENDS Integers

CONSTANTS Scan,      \* concurrent scans of the account
          Lookback,  \* lookbackHours
          Overlap,   \* overlapMinutes
          Recovery,  \* recoveryLookbackHours
          PageLimit, \* PAGE_LIMIT
          PageSize,  \* posts on a provider page, at most
          LastTick,  \* bound: the clock
          MaxScans   \* bound: scans that claim the account

ASSUME WireAssumption ==
  /\ Lookback \in Nat \ {0} /\ Overlap \in Nat /\ Recovery \in Nat
  /\ Lookback <= Recovery /\ LastTick \in Nat /\ Recovery < LastTick /\ MaxScans \in Nat
  /\ PageLimit \in Nat \ {0} /\ PageSize \in Nat \ {0}

VARIABLES wireClock, \* now; the timeline holds the posts 1..wireClock
          account,   \* the row
          stored,    \* x_wire_posts of the account
          scan,      \* what each scan is doing
          claims     \* scans that claimed the account so far

wireVars == <<wireClock, account, stored, scan, claims>>

NoCursor == [next |-> 0, head |-> 0]
NewAccount == [completed |-> 0, cursor |-> NoCursor, start |-> 0, gap |-> 0, due |-> 0,
               lease |-> {}, lapsed |-> FALSE, health |-> "unconfigured"]
NoScan == [pc |-> "off"]

WireInit ==
  /\ wireClock = Recovery + 1
  /\ account = NewAccount /\ stored = {}
  /\ scan = [s \in Scan |-> NoScan] /\ claims = 0

-----------------------------------------------------------------------------
(* xWireRecoveryAnchor and xWireRequestWindow. *)

\* The checkpoint, or an older gap that can still be recovered.
RecoveryAnchor(completed, gap) ==
  IF /\ gap # 0 /\ wireClock - gap <= Recovery
     /\ completed = 0 \/ gap < completed
  THEN gap ELSE completed

Wanted(anchor) ==
  LET sinceAnchor == wireClock - anchor + Overlap
  IN IF anchor # 0 /\ sinceAnchor > Lookback THEN sinceAnchor ELSE Lookback

\* Mutant: the lookback is not capped at what the provider can still recover.
RequestWindowUncapped(anchor, cursor, start) ==
  IF cursor # NoCursor THEN [start |-> start, cursor |-> cursor, gap |-> FALSE]
  ELSE [start |-> wireClock - Wanted(anchor), cursor |-> NoCursor, gap |-> FALSE]

RequestWindow(anchor, cursor, start) ==
  LET oldest == wireClock - Recovery
      wanted == Wanted(anchor)
      fresh(from, lost) == [start |-> from, cursor |-> NoCursor, gap |-> lost]
  IN CASE cursor # NoCursor /\ start >= oldest -> [start |-> start, cursor |-> cursor, gap |-> FALSE]
       [] cursor # NoCursor /\ start < oldest -> fresh(oldest, TRUE)
       [] OTHER -> IF wanted > Recovery THEN fresh(oldest, TRUE)
                   ELSE fresh(wireClock - wanted, FALSE)

-----------------------------------------------------------------------------
(* A scan: claim, then page after page, then finish. *)

Scanning(s, pc) == scan[s].pc = pc
Continue(s, rec) == scan' = [scan EXCEPT ![s] = rec]
Halt(s) == Continue(s, NoScan)

\* Mutant: the updates of the row name the account only.
LeasedByHandle(s) == TRUE

\* Every update of the row names the random token of the lease, here the scan itself.
Leased(s) == account.lease = {s}

\* claim_x_wire_account, and the read of the gap marker, whose error is ignored.
ClaimAccount(s) ==
  /\ Scanning(s, "off") /\ claims < MaxScans /\ claims' = claims + 1
  /\ account.due <= wireClock /\ (account.lease = {} \/ account.lapsed)
  /\ \E read \in BOOLEAN :
       LET seen == IF read THEN account.gap ELSE 0
           window == RequestWindow(RecoveryAnchor(account.completed, seen),
                                   account.cursor, account.start)
           missing == IF seen # 0 THEN seen ELSE IF ~window.gap THEN 0
                      ELSE IF account.completed # 0 THEN account.completed ELSE window.start
       IN /\ account' = [account EXCEPT !.lease = {s}, !.lapsed = FALSE]
          /\ Continue(s, [pc |-> "fetch", start |-> window.start, missing |-> missing,
                          cursor |-> window.cursor, pages |-> 0])
  /\ UNCHANGED <<wireClock, stored>>

\* Mutant: only the posts within the work budget are stored.
KeptActive(low, top, start) == {p \in {top} : p >= start}

\* Every post of the page within the window, also those beyond the work budget.
Kept(low, top, start) == {p \in low..top : p >= start}

\* One page, newest posts first, from the cursor or from the head of the timeline; its
\* posts within the window are stored before the row is touched.  The first page is asked
\* for without older posts, but the retry after a 404 returns them too.
FetchPage(s) ==
  LET sc == scan[s]
      first == sc.cursor = NoCursor
      top == IF first THEN wireClock ELSE sc.cursor.next
      head == IF first THEN wireClock ELSE sc.cursor.head
      to(pc, cursor) == [pc |-> pc, start |-> sc.start, missing |-> sc.missing,
                         cursor |-> cursor, pages |-> sc.pages + 1]
      behind(low) == [next |-> low - 1, head |-> head]
      full(low) == top - low + 1 = PageSize
  IN
  /\ Scanning(s, "fetch") /\ sc.pages < PageLimit
  /\ \E low \in 1..top :
       /\ top - low < PageSize
       /\ stored' = stored \cup Kept(low, top, sc.start)
       /\ \/ low > 1 /\ Continue(s, to("save", behind(low)))
          \/ low < sc.start /\ Continue(s, to("done", behind(low)))
          \/ ~full(low) /\ (low = 1 \/ (first /\ low = sc.start)) /\ Continue(s, to("done", behind(low)))
          \/ full(low) /\ low >= sc.start /\ Continue(s, to("error", NoCursor))
          \/ ~first /\ Continue(s, to("repeated", NoCursor))
  /\ UNCHANGED <<wireClock, account, claims>>

\* finish, fenced by the token: with the lease lost it throws, and the scan is over.
FinishScan(s, row) ==
  /\ account' = IF Leased(s) THEN [row EXCEPT !.lease = {}, !.lapsed = FALSE] ELSE account
  /\ Halt(s)

Marked(s) == IF scan[s].missing # 0 THEN [account EXCEPT !.gap = scan[s].missing] ELSE account
Rewound(s) == [account EXCEPT !.gap = IF scan[s].missing # 0 THEN scan[s].missing ELSE scan[s].start,
                              !.cursor = NoCursor, !.start = 0, !.health = "partial"]
Saved(row, s, cursor) == [row EXCEPT !.cursor = cursor, !.start = scan[s].start, !.health = "partial"]

\* The cursor is saved before the next page, if the lease is still held.
SaveCursor(s) ==
  /\ Scanning(s, "save")
  /\ IF Leased(s)
     THEN account' = Saved(account, s, scan[s].cursor) /\ Continue(s, [scan[s] EXCEPT !.pc = "fetch"])
     ELSE Halt(s) /\ UNCHANGED account
  /\ UNCHANGED <<wireClock, stored, claims>>

\* PAGE_LIMIT or MAX_SCAN_MS: cursor and gap stay for the next pass.
PauseWalk(s) ==
  /\ Scanning(s, "fetch") /\ scan[s].pages > 0
  /\ FinishScan(s, Saved(Marked(s), s, scan[s].cursor))
  /\ UNCHANGED <<wireClock, stored, claims>>

\* The window was walked to its start.
Unresolved(s) == IF scan[s].missing # 0 /\ scan[s].start > scan[s].missing THEN scan[s].missing ELSE 0
CompleteWalk(s) ==
  /\ Scanning(s, "done")
  /\ \E health \in IF Unresolved(s) = 0 THEN {"healthy", "partial"} ELSE {"partial"} :
       FinishScan(s, [account EXCEPT !.completed = wireClock, !.cursor = NoCursor, !.start = 0,
                        !.gap = Unresolved(s), !.due = wireClock + 1, !.health = health])
  /\ UNCHANGED <<wireClock, stored, claims>>

\* Mutant: a 404 on a continuation is taken for the end of the timeline.
LoseCursorAsEnd(s) ==
  /\ Scanning(s, "fetch") /\ scan[s].cursor # NoCursor
  /\ Continue(s, [scan[s] EXCEPT !.pc = "done"])
  /\ UNCHANGED <<wireClock, account, stored, claims>>

\* A 404 on a continuation, or a page whose continuation was asked for before.
LoseCursor(s) ==
  /\ Scanning(s, "repeated") \/ (Scanning(s, "fetch") /\ scan[s].cursor # NoCursor)
  /\ FinishScan(s, Rewound(s))
  /\ UNCHANGED <<wireClock, stored, claims>>

\* The cursor in hand: the last page may come with one, if it reaches beyond the window.
InHand(s) ==
  IF Scanning(s, "done") THEN {NoCursor} \cup {c \in {scan[s].cursor} : c.next \in 1..scan[s].start - 2}
  ELSE {scan[s].cursor}

\* Any other error, also one of storing the posts or the cursor, or of the finish that
\* completes the walk: with rows in hand the walk goes on from its cursor in 5 minutes,
\* without any the row keeps its own.
ScanFails(s) ==
  /\ scan[s].pc \in {"fetch", "save", "done", "error"}
  /\ \E rows \in BOOLEAN, wait \in {0, 1}, cursor \in InHand(s) :
       /\ rows => wait = 0
       /\ scan[s].pages > 0 => rows
       /\ LET row == IF rows THEN Saved(Marked(s), s, cursor)
                     ELSE [Marked(s) EXCEPT !.health = "unavailable"]
          IN FinishScan(s, [row EXCEPT !.due = wireClock + wait])
  /\ UNCHANGED <<wireClock, stored, claims>>

ScanKilled(s) ==
  /\ scan[s] # NoScan /\ Halt(s)
  /\ UNCHANGED <<wireClock, account, stored, claims>>

\* 100 seconds after the claim, while its scan may still be at work.
WireLeaseLapses ==
  /\ account.lease # {} /\ ~account.lapsed
  /\ account' = [account EXCEPT !.lapsed = TRUE]
  /\ UNCHANGED <<wireClock, stored, scan, claims>>

\* No scan lives for a tick, and no lease is held for one.
WireTick ==
  /\ wireClock < LastTick /\ \A s \in Scan : scan[s] = NoScan
  /\ wireClock' = wireClock + 1
  /\ account' = [account EXCEPT !.lapsed = (@ \/ account.lease # {})]
  /\ UNCHANGED <<stored, scan, claims>>

WireNext ==
  \/ WireTick \/ WireLeaseLapses
  \/ \E s \in Scan :
       \/ ClaimAccount(s) \/ FetchPage(s) \/ SaveCursor(s) \/ PauseWalk(s) \/ CompleteWalk(s)
       \/ LoseCursor(s) \/ ScanFails(s) \/ ScanKilled(s)

WireSpec == WireInit /\ [][WireNext]_wireVars

-----------------------------------------------------------------------------
WireTime == 1..LastTick
Cursor == {NoCursor} \cup [next: 1..wireClock, head: 1..wireClock]

\* Types; no scan asks for posts beyond the provider's recovery window.
WireTypeOK ==
  /\ wireClock \in WireTime /\ stored \subseteq 1..wireClock /\ claims \in 0..MaxScans
  /\ account \in [completed: {0} \cup 1..wireClock, cursor: Cursor, start: {0} \cup 1..wireClock,
                  gap: {0} \cup 1..wireClock, due: 0..LastTick + 1, lease: SUBSET Scan,
                  lapsed: BOOLEAN, health: {"unconfigured", "healthy", "partial", "unavailable"}]
  /\ scan \in [Scan -> {NoScan} \cup
               [pc: {"fetch", "save", "done", "repeated", "error"}, start: wireClock - Recovery..wireClock,
                missing: {0} \cup 1..wireClock, cursor: [next: 0..wireClock, head: 0..wireClock],
                pages: 0..PageLimit]]

\* A saved cursor vouches for what is in front of it: every post of the window between
\* the cursor and the head at which the walk began is stored, however scans died, lost
\* their lease or followed one another.
CursorIsBacked ==
  account.cursor # NoCursor =>
    \A p \in account.start..account.cursor.head : p > account.cursor.next => p \in stored

\* A walk that counts as complete left nothing out between the start of its window and
\* the head at which it began, over any number of scans.
WalkIsStored ==
  \A s \in Scan : Scanning(s, "done") =>
    \A p \in scan[s].start..scan[s].cursor.head : p \in stored

\* A scan that comes late, after its lease ran out and another scan took the account,
\* changes neither the checkpoint nor the lease under that scan.
LateScanIsFenced ==
  [][\A s \in Scan :
       scan[s] # NoScan /\ Leased(s) /\ ~account.lapsed /\ scan'[s] = scan[s]
         => account' \in {account, [account EXCEPT !.lapsed = TRUE]}]_wireVars
=============================================================================
