---------------------------- MODULE BookingStatus ----------------------------
(***************************************************************************)
(* The pure status algebra of server/src/bookings/booking-status.ts: the   *)
(* canonical and the legacy statuses, the transition table, the narrower   *)
(* table of each actor, and the list filter.                               *)
(***************************************************************************)
EXTENDS FiniteSets

CanonicalStatuses ==
  {"CREATED", "ASSIGNED", "IN_PROGRESS", "COLLECTED", "COMPLETED",
   "CANCELLED", "REFUNDED"}

LegacyStatuses == {"SCHEDULED", "PAID"}

AllStatuses == CanonicalStatuses \cup LegacyStatuses

Actors == {"ADMIN", "DRIVER"}

IsLegacyBookingStatus(s) == s \in LegacyStatuses

NormalizeBookingStatus(s) ==
  CASE s = "SCHEDULED" -> "CREATED"
    [] s = "PAID"      -> "COLLECTED"
    [] OTHER           -> s

(* BOOKING_STATUS_TRANSITIONS as a relation between canonical statuses.    *)
Transitions ==
  {<<"CREATED", "ASSIGNED">>,      <<"CREATED", "CANCELLED">>,
   <<"ASSIGNED", "IN_PROGRESS">>,  <<"ASSIGNED", "CANCELLED">>,
   <<"IN_PROGRESS", "COLLECTED">>, <<"IN_PROGRESS", "CANCELLED">>,
   <<"COLLECTED", "COMPLETED">>,   <<"COLLECTED", "CANCELLED">>,
   <<"CANCELLED", "REFUNDED">>}

(* ROLE_ALLOWED_TRANSITIONS, one relation per actor.                       *)
RoleTransitions ==
  [ADMIN  |-> {<<"CREATED", "ASSIGNED">>, <<"CREATED", "CANCELLED">>,
               <<"ASSIGNED", "CANCELLED">>, <<"IN_PROGRESS", "CANCELLED">>,
               <<"COLLECTED", "COMPLETED">>, <<"COLLECTED", "CANCELLED">>,
               <<"CANCELLED", "REFUNDED">>},
   DRIVER |-> {<<"ASSIGNED", "IN_PROGRESS">>, <<"ASSIGNED", "CANCELLED">>,
               <<"IN_PROGRESS", "COLLECTED">>, <<"IN_PROGRESS", "CANCELLED">>,
               <<"COLLECTED", "CANCELLED">>}]

CanTransition(from, to) ==
  /\ ~IsLegacyBookingStatus(to)
  /\ \/ NormalizeBookingStatus(from) = NormalizeBookingStatus(to)
     \/ <<NormalizeBookingStatus(from), NormalizeBookingStatus(to)>>
          \in Transitions

(* getRoleTransitionError(...) === null                                    *)
RoleCanTransition(actor, from, to) ==
  /\ ~IsLegacyBookingStatus(to)
  /\ \/ NormalizeBookingStatus(from) = NormalizeBookingStatus(to)
     \/ /\ CanTransition(NormalizeBookingStatus(from),
                         NormalizeBookingStatus(to))
        /\ <<NormalizeBookingStatus(from), NormalizeBookingStatus(to)>>
             \in RoleTransitions[actor]

IsTerminalStatus(s) ==
  NormalizeBookingStatus(s) \in {"COMPLETED", "REFUNDED"}

(* The stored statuses a list request that names s is answered with.       *)
ExpandBookingStatusFilter(s) ==
  LET n == NormalizeBookingStatus(s)
  IN  CASE n = "CREATED"   -> {"CREATED", "SCHEDULED"}
        [] n = "COLLECTED" -> {"COLLECTED", "PAID"}
        [] OTHER           -> {n}
=============================================================================
