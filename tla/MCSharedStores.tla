--------------------------- MODULE MCSharedStores ---------------------------
(* The stores that share nothing but the Valkey server, the worker's        *)
(* runtime, and the capacity and the idempotency of a single process,       *)
(* checked side by side: part says which of them moves, the others stay as  *)
(* they were at the beginning.                                              *)
EXTENDS SearchSessionStore, IdempotencyStore, BookingStores, WorkerRuntime,
        LocalCapacity, LocalIdempotency, TLC

CONSTANTS o1, o2, o3, o4, o5, o6

VARIABLE part

Clock0To2 == 0..2

(* Three operations of one provider, two of another, one of a third. *)
MCProviderOf == [o \in Operations |-> IF o \in {o1, o2, o3} THEN 1 ELSE IF o = o6 THEN 3 ELSE 2]

sharedVars ==
    <<sessionStoreVars, idempotencyVars, bookingVars, runtimeVars, localVars, postVars, part>>

SharedInit ==
    /\ SessionStoreInit /\ IdempotencyInit /\ BookingInit /\ RuntimeInit /\ LocalInit /\ PostInit
    /\ part \in {"sessions", "idempotency", "bookings", "runtime", "local", "posts"}

StoresStay == UNCHANGED <<sessionStoreVars, idempotencyVars, bookingVars>>
ProcessStays == UNCHANGED <<runtimeVars, localVars, postVars>>

Only(p) == part = p /\ UNCHANGED part

OnlySessions    == Only("sessions") /\ ProcessStays /\ UNCHANGED <<idempotencyVars, bookingVars>>
OnlyIdempotency == Only("idempotency") /\ ProcessStays /\ UNCHANGED <<sessionStoreVars, bookingVars>>
OnlyBookings    == Only("bookings") /\ ProcessStays /\ UNCHANGED <<sessionStoreVars, idempotencyVars>>
OnlyRuntime     == Only("runtime") /\ StoresStay /\ UNCHANGED <<localVars, postVars>>
OnlyLocal       == Only("local") /\ StoresStay /\ UNCHANGED <<runtimeVars, postVars>>
OnlyPosts       == Only("posts") /\ StoresStay /\ UNCHANGED <<runtimeVars, localVars>>

SharedNext ==
    \/ OnlySessions /\ SessionStoreNext
    \/ OnlyIdempotency /\ IdempotencyNext
    \/ OnlyBookings /\ BookingNext
    \/ OnlyRuntime /\ RuntimeNext
    \/ OnlyLocal /\ LocalNext
    \/ OnlyPosts /\ PostNext

SharedSpec ==
    /\ SharedInit /\ [][SharedNext]_sharedVars
    /\ WF_sharedVars(OnlyRuntime /\ StartStep) /\ WF_sharedVars(OnlyRuntime /\ Heartbeat)
    /\ WF_sharedVars(OnlyRuntime /\ BeatStep)  /\ WF_sharedVars(OnlyRuntime /\ StopStep)
    /\ \A o \in Operations : WF_sharedVars(OnlyLocal /\ Releases(o))

(* The parts share their model values: a session and a handoff are named    *)
(* like a key, and so on, and a permutation renames them in all parts.      *)
(* None appears in the runtime or in the local capacity, the only parts     *)
(* that liveness properties are about.                                      *)
SharedSymmetry ==
    Permutations(Calls) \cup Permutations(IdempotencyKeys) \cup Permutations(Payloads)
=============================================================================
