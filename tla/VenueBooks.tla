----------------------------- MODULE VenueBooks -----------------------------
(***************************************************************************)
(* The order books four public collectors follow: Bitvavo Standard, Bitvavo *)
(* Market Data Pro, Binance Spot and OKX.  Each validates the sequence      *)
(* numbers of a venue's update frames, joins them to a snapshot taken       *)
(* beside the stream, and records what it accepts one frame at a time;      *)
(* whoever replays the record must get the venue's book.                    *)
(*                                                                         *)
(* A venue's changes are numbered; change n sets one price level.  A frame  *)
(* carries the last change of every level touched by first .. final.        *)
(* Frames can be lost, repeated and swapped on the way, a snapshot can be   *)
(* older than frames already received, and the connection can drop.  An OKX *)
(* venue may also renumber for maintenance, which its protocol cannot tell  *)
(* from the loss of frames with the same numbers: a venue does one or the   *)
(* other here.                                                              *)
(***************************************************************************)
EXTENDS Integers, Sequences

CONSTANTS
    Missing,
    Levels,
    LevelOf,          \* the level each change sets
    Venues,           \* bound: the collectors of a run
    MaxBuffered,      \* max_buffered_book_updates
    MaxRequests,      \* max_snapshot_requests
    MaxBookChanges,       \* bound: changes of the venue's book
    MaxWire,          \* bound: frames on the way
    MaxFaults,        \* bound: frames lost, repeated or swapped
    MaxSessions       \* bound: connections

ASSUME VenuesAssumption == Venues \subseteq {"standard", "pro", "spot", "okx"}
ASSUME BookBounds ==
    /\ MaxBuffered \in Nat \ {0} /\ MaxRequests \in Nat \ {0}
    /\ {MaxBookChanges, MaxWire, MaxFaults, MaxSessions} \subseteq Nat
    /\ LevelOf \in [1 .. MaxBookChanges -> Levels]
ASSUME MissingAssumption == Missing \notin Int

VARIABLES
    venue,     \* the collector this behaviour is about
    head,      \* the venue's last change
    base,      \* its numbering: change n has sequence number n - base
    wire,      \* frames on the way
    faults,
    acked,     \* every subscription is acknowledged
    requests,  \* snapshot requests of this session
    asked,     \* one of them is unanswered
    held,      \* updates held back until a snapshot joins them
    last,      \* the last accepted sequence number; Missing without a snapshot
    released,  \* accepted frames, not yet recorded
    recorded,  \* the book the session's record describes, Missing without one
    alive,     \* FALSE after an integrity error: the capture ends
    sessions

bookVars == <<venue, head, base, wire, faults, acked, requests, asked, held,
          last, released, recorded, alive, sessions>>

Changes == 1 .. MaxBookChanges
Frames == [first : Nat, final : Nat, prev : Int, seq : Int]

\* The change in force at each level, once changes a .. b are applied to book.
InForce(l, a, b) ==
    {n \in a .. b : LevelOf[n] = l /\ \A m \in n + 1 .. b : LevelOf[m] # l}
Overlay(book, a, b) ==
    [l \in Levels |-> IF InForce(l, a, b) = {} THEN book[l] ELSE InForce(l, a, b)]
EmptyBook == [l \in Levels |-> {}]
Book(n) == [l \in Levels |-> InForce(l, 1, n)]

\* A snapshot on the OKX stream has no predecessor.
NoPrevious == -1
Snapshot(at, seq) == [first |-> 1, final |-> at, prev |-> NoPrevious, seq |-> seq]
IsSnapshot(f) == f.prev = NoPrevious

\* A new connection: OKX sends its snapshot first, Pro is asked for one at
\* once, Standard and Spot once an update is held back.
Connected ==
    /\ wire' = IF venue = "okx" THEN <<Snapshot(head, head - base)>> ELSE <<>>
    /\ acked' = (venue # "standard")
    /\ asked' = (venue = "pro") /\ requests' = IF venue = "pro" THEN 1 ELSE 0
    /\ held' = <<>> /\ last' = Missing /\ released' = <<>> /\ recorded' = Missing

BooksInit ==
    /\ venue \in Venues
    /\ head = 0 /\ base = 0 /\ faults = 0 /\ sessions = 1 /\ alive = TRUE
    /\ wire = IF venue = "okx" THEN <<Snapshot(0, 0)>> ELSE <<>>
    /\ acked = (venue # "standard")
    /\ asked = (venue = "pro") /\ requests = IF venue = "pro" THEN 1 ELSE 0
    /\ held = <<>> /\ last = Missing /\ released = <<>> /\ recorded = Missing

BooksTypeOK ==
    /\ venue \in Venues
    /\ {head, base, faults, requests, sessions} \subseteq Nat
    /\ wire \in Seq(Frames) /\ held \in Seq(Frames) /\ released \in Seq(Frames)
    /\ acked \in BOOLEAN /\ asked \in BOOLEAN /\ alive \in BOOLEAN
    /\ last \in Int \cup {Missing}
    /\ recorded \in [book : [Levels -> SUBSET Changes], at : Nat] \cup {Missing}

-----------------------------------------------------------------------------
(* The venue and the way from it.                                          *)

\* How many changes one frame carries; an OKX frame may carry none.
Spans == CASE venue = "standard" -> {1}
           [] venue = "okx" -> 0 .. 2
           [] OTHER -> 1 .. 2

Publish ==
    /\ Len(wire) < MaxWire
    /\ \E k \in Spans :
           /\ head + k <= MaxBookChanges
           /\ \E renumbered \in {base, head} :
                  /\ renumbered # base => /\ venue = "okx" /\ faults = 0 /\ base = 0
                                          /\ 0 < k /\ k < head
                  /\ head' = head + k /\ base' = renumbered
                  /\ wire' = Append(wire, [first |-> head + 1, final |-> head + k,
                                           prev |-> head - base,
                                           seq |-> head + k - renumbered])
    /\ UNCHANGED <<venue, faults, acked, requests, asked, held, last,
                   released, recorded, alive, sessions>>

Lost(s, i) == SubSeq(s, 1, i - 1) \o SubSeq(s, i + 1, Len(s))
Repeated(s, i) == SubSeq(s, 1, i) \o SubSeq(s, i, Len(s))
Swapped(s, i) == [s EXCEPT ![i] = s[i + 1], ![i + 1] = s[i]]

Disturb ==
    /\ faults < MaxFaults /\ base = 0
    /\ \E i \in DOMAIN wire : \/ wire' = Lost(wire, i)
                              \/ wire' = Repeated(wire, i)
                              \/ i < Len(wire) /\ wire' = Swapped(wire, i)
    /\ faults' = faults + 1
    /\ UNCHANGED <<venue, head, base, acked, requests, asked, held, last,
                   released, recorded, alive, sessions>>

-----------------------------------------------------------------------------
(* The collector.  One frame is handled at a time: everything the last one  *)
(* released is recorded before the next is taken.                           *)

venueSide == <<venue, head, base, faults, sessions>>
bootstrap == <<acked, requests, asked>>

\* _clear, and the capture ends with an integrity error.
Refused ==
    /\ alive' = FALSE
    /\ held' = <<>> /\ last' = Missing
    /\ UNCHANGED <<released, bootstrap>>

\* ingest_update accepts f, once a snapshot is joined.
Accepted(f) ==
    /\ last' = f.seq /\ released' = <<f>>
    /\ UNCHANGED <<held, alive, bootstrap>>

Ignored == UNCHANGED <<held, last, released, alive, bootstrap>>

\* _request_next_snapshot, the first time: all channels acknowledged, an update
\* held back, no snapshot yet.
FirstRequest(updates) ==
    IF acked /\ updates # <<>> /\ last = Missing /\ ~ asked /\ requests = 0
    THEN asked' = TRUE /\ requests' = 1
    ELSE UNCHANGED <<asked, requests>>

HeldBack(f) ==
    IF Len(held) >= MaxBuffered THEN Refused
    ELSE /\ held' = Append(held, f)
         /\ FirstRequest(held')
         /\ UNCHANGED <<acked, last, released, alive>>

\* Standard and Pro: every frame begins right after its predecessor.
Predecessor == IF last # Missing THEN last
               ELSE IF held # <<>> THEN held[Len(held)].final
               ELSE Missing
BitvavoUpdate(f) ==
    IF Predecessor # Missing /\ f.first # Predecessor + 1 THEN Refused
    ELSE IF last # Missing THEN Accepted(f)
    ELSE HeldBack(f)

\* Spot: frames may overlap and repeat, ranges must not leave a gap.
SpotHeld(f) ==
    LET tail == held[Len(held)]
    IN  IF Len(held) >= MaxBuffered \/ (held # <<>> /\ f.final < tail.final) THEN Refused
        ELSE IF held # <<>> /\ f.final = tail.final THEN Ignored
        ELSE HeldBack(f)
\* A mutant: an update may begin anywhere after the last one.
SpotUpdateAcrossGap(f) ==
    IF last = Missing THEN SpotHeld(f)
    ELSE IF f.final < last THEN Ignored
    ELSE Accepted(f)

SpotUpdate(f) ==
    IF last = Missing THEN SpotHeld(f)
    ELSE IF f.final < last THEN Ignored
    ELSE IF f.first > last + 1 THEN Refused
    ELSE Accepted(f)

\* OKX: the snapshot comes first and once, then every frame names its predecessor;
\* a smaller number is a renumbering, an equal one an empty frame.
OkxFrame(f) ==
    IF \/ IsSnapshot(f) /\ last # Missing
       \/ ~ IsSnapshot(f) /\ (last = Missing \/ f.prev # last)
       \/ ~ IsSnapshot(f) /\ f.seq = f.prev /\ f.first <= f.final
    THEN Refused ELSE Accepted(f)

Receive ==
    /\ alive /\ released = <<>> /\ wire # <<>>
    /\ ~ (venue = "spot" /\ asked)     \* the fetch is awaited in the handler
    /\ wire' = Tail(wire)
    /\ CASE venue = "spot" -> SpotUpdate(Head(wire))
         [] venue = "okx" -> OkxFrame(Head(wire))
         [] OTHER -> BitvavoUpdate(Head(wire))
    /\ UNCHANGED <<venueSide, recorded>>

\* The last subscription response, in Standard.
Acknowledge ==
    /\ alive /\ released = <<>> /\ ~ acked
    /\ acked' = TRUE
    /\ IF held # <<>> THEN asked' = TRUE /\ requests' = 1 ELSE UNCHANGED <<asked, requests>>
    /\ UNCHANGED <<venueSide, wire, held, last, released, recorded, alive>>

\* accept_snapshot: the updates newer than the snapshot must continue it.  The
\* list is ordered, so they are those after some place in it.
NewerAfter(k, at) == \A i \in DOMAIN held : held[i].final > at <=> i > k
Contiguous(at, s) ==
    \A i \in DOMAIN s : s[i].first = (IF i = 1 THEN at ELSE s[i - 1].final) + 1
Overlapping(at, s) ==
    /\ s # <<>> => s[1].first <= at
    /\ \A i \in DOMAIN s : i > 1 => s[i].first <= s[i - 1].final + 1
Joins(at, newer) ==
    CASE venue = "standard" -> newer = <<>> \/ newer[1].first = at + 1
      [] venue = "spot" -> Overlapping(at, newer)
      [] OTHER -> Contiguous(at, newer)

\* A snapshot no newer than the first update held back is asked for again.
TooOld(at) ==
    \/ venue = "standard" /\ at <= held[1].first
    \/ venue = "spot" /\ at < held[1].first
AskAgain ==
    /\ requests < MaxRequests
    /\ requests' = requests + 1
    /\ UNCHANGED <<acked, asked, held, last, released, alive>>

Install(at, newer) ==
    /\ last' = IF newer = <<>> THEN at ELSE newer[Len(newer)].final
    /\ released' = <<Snapshot(at, at)>> \o newer
    /\ held' = <<>> /\ asked' = FALSE
    /\ UNCHANGED <<acked, requests, alive>>

Answer ==
    /\ alive /\ released = <<>> /\ asked
    /\ \E at \in 0 .. head :
           \/ TooOld(at) /\ (AskAgain \/ (requests >= MaxRequests /\ Refused))
           \/ /\ ~ TooOld(at)
              /\ \E k \in 0 .. Len(held) :
                     /\ NewerAfter(k, at)
                     /\ LET newer == SubSeq(held, k + 1, Len(held))
                        IN  IF Joins(at, newer) THEN Install(at, newer) ELSE Refused
    /\ UNCHANGED <<venueSide, wire, recorded>>

\* Spot's fetch fails and is repeated; after the last time the session ends.
FetchFails ==
    /\ alive /\ asked /\ venue = "spot"
    /\ AskAgain
    /\ UNCHANGED <<venueSide, wire, recorded>>

\* _append_local_payload: one frame into the session's record.
Record ==
    /\ released # <<>>
    /\ LET f == Head(released)
       IN  recorded' = IF IsSnapshot(f) THEN [book |-> Book(f.final), at |-> f.final]
                       ELSE [book |-> Overlay(recorded.book, f.first, f.final), at |-> f.final]
    /\ released' = Tail(released)
    /\ UNCHANGED <<venueSide, wire, bootstrap, held, last, alive>>

\* The connection drops, an idle feed or a lost snapshot ends the session, or
\* Spot's snapshot cannot be fetched MaxRequests times; a new session begins.
Reconnect ==
    /\ alive /\ sessions < MaxSessions
    /\ sessions' = sessions + 1
    /\ Connected
    /\ UNCHANGED <<venue, head, base, faults, alive>>

BooksNext == Publish \/ Disturb \/ Receive \/ Acknowledge \/ Answer \/ FetchFails
        \/ Record \/ Reconnect

BooksSpec == BooksInit /\ [][BooksNext]_bookVars

-----------------------------------------------------------------------------
(* What makes a followed book correct.                                     *)

\* Whoever replays a session's record, at any moment, has the venue's book as
\* it was after a change the venue really made: no gap, repetition or stale
\* snapshot that reached the collector is in the record.
\* (ingest_update, accept_snapshot and normalize of the four book states.)
RecordIsTheBook == recorded # Missing => recorded.book = Book(recorded.at)

=============================================================================
