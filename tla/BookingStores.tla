---------------------------- MODULE BookingStores ----------------------------
(***************************************************************************)
(* The booking verifications and the booking handoffs in Valkey            *)
(* (valkeyBookingStores.js): records with random ids, each kind with its   *)
(* sorted set of expiry times and its cap.  A verification is read until   *)
(* it expires; a handoff is consumed by the redirect that reads it.        *)
(*                                                                         *)
(* A record's key runs out on the server's clock (RecordLapses), while a   *)
(* script sweeps by the clock of the process that calls it, any of         *)
(* BookingClock.                                                           *)
(*                                                                         *)
(* SweepsIndexOnly and ReadsOnly are faulty forms of the definition that   *)
(* follows each of them; no action uses them.  They show which mistakes    *)
(* the properties detect.                                                  *)
(***************************************************************************)
EXTENDS Naturals, FiniteSets

CONSTANTS
    Verifications, Handoffs,  \* the ids that are drawn
    Redirects,                \* requests for a redirect
    MaxBookings,              \* maxBookingVerifications, maxBookingHandoffs
    BookingTtl,               \* ticks
    BookingClock,             \* the readings the callers' clocks can have
    MaxBookingFaults,         \* bound: commands that fail or whose reply is lost
    NoBooking                 \* an absent score or answer

BookingIds == Verifications \cup Handoffs

ASSUME BookingAssumption ==
    /\ IsFiniteSet(BookingIds) /\ Verifications \cap Handoffs = {}
    /\ NoBooking \notin Nat \cup BookingIds
    /\ {MaxBookings, BookingTtl, MaxBookingFaults} \subseteq Nat /\ BookingClock \subseteq Nat

VARIABLES
    kept,          \* the ids whose record is stored
    due,           \* id -> score in the expiry index of its kind
    drawn,         \* the ids drawn so far
    sent,          \* redirect -> the handoff it got, once it was sent
    bookingFaults

bookingVars == <<kept, due, drawn, sent, bookingFaults>>

-----------------------------------------------------------------------------
Kind(b) == IF b \in Handoffs THEN Handoffs ELSE Verifications

InIndex(kind) == {b \in kind : due[b] # NoBooking}
Passed(kind, t) == {b \in InIndex(kind) : due[b] <= t}

BookingFault == bookingFaults < MaxBookingFaults /\ bookingFaults' = bookingFaults + 1

Unlisted(ids) == [b \in BookingIds |-> IF b \in ids THEN NoBooking ELSE due[b]]

SweepsIndexOnly(b, t) == kept \cup {b}

(* What is stored after a record has been: the passed ones of its kind go.  *)
KeptWith(b, t) == (kept \ Passed(Kind(b), t)) \cup {b}

AtCapacity(b, t) == Cardinality(InIndex(Kind(b)) \ Passed(Kind(b), t)) >= MaxBookings

(* STORE_RECORD; an id is random and does not collide. *)
Save(b, t) ==
    /\ b \notin drawn /\ drawn' = drawn \cup {b}
    /\ \/ /\ AtCapacity(b, t)
          /\ kept' = kept \ Passed(Kind(b), t) /\ due' = Unlisted(Passed(Kind(b), t))
       \/ /\ ~AtCapacity(b, t)
          /\ kept' = KeptWith(b, t)
          /\ due' = [Unlisted(Passed(Kind(b), t)) EXCEPT ![b] = t + BookingTtl]
       \/ UNCHANGED <<kept, due>>
    /\ UNCHANGED <<sent, bookingFaults>>

ReadsOnly(b) == UNCHANGED <<kept, due>>

(* CONSUME_HANDOFF deletes the record and its index entry, found or not.    *)
Consume(b) == kept' = kept \ {b} /\ due' = Unlisted({b})

(* requireBookingHandoff: the redirect is sent when the reply arrives.      *)
Redirect(r, b) ==
    /\ sent[r] = NoBooking
    /\ \/ /\ Consume(b) /\ UNCHANGED bookingFaults
          /\ sent' = IF b \in kept THEN [sent EXCEPT ![r] = b] ELSE sent
       \/ Consume(b) /\ UNCHANGED sent /\ BookingFault
    /\ UNCHANGED drawn

RecordLapses(b) ==
    /\ b \in kept /\ kept' = kept \ {b}
    /\ UNCHANGED <<due, drawn, sent, bookingFaults>>

BookingInit ==
    /\ kept = {} /\ due = [b \in BookingIds |-> NoBooking] /\ drawn = {}
    /\ sent = [r \in Redirects |-> NoBooking] /\ bookingFaults = 0

BookingNext ==
    \/ \E b \in BookingIds, t \in BookingClock : Save(b, t)
    \/ \E r \in Redirects, b \in Handoffs : Redirect(r, b)
    \/ \E b \in BookingIds : RecordLapses(b)

BookingSpec == BookingInit /\ [][BookingNext]_bookingVars

-----------------------------------------------------------------------------
(* However the clocks of the processes disagree, no kind has more records   *)
(* than its cap, and each is in the index, so that it is swept.             *)
BookingCap ==
    \A kind \in {Verifications, Handoffs} :
        /\ kept \cap kind \subseteq InIndex(kind)
        /\ Cardinality(kept \cap kind) <= MaxBookings

(* A handoff sends at most one redirect, though requests for it race,       *)
(* replies are lost and records lapse in between.                           *)
HandoffUsedOnce ==
    \A r1, r2 \in Redirects : r1 # r2 /\ sent[r1] # NoBooking => sent[r1] # sent[r2]
=============================================================================
