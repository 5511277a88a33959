------------------------------ MODULE Deputies ------------------------------
(* apps/admin_portal/impersonation and the authentication of its tokens: an    *)
(* admin reads the account of a user for fifteen minutes at most.  A token     *)
(* names its session; the row of the session is looked up at every request.    *)
EXTENDS Naturals, Sequences

CONSTANTS
    Desks,         \* requests under way, of the admin and under the token
    MaxDeputies    \* bound: sessions started

ASSUME DeputiesAssumption == MaxDeputies \in Nat

VARIABLES
    target,    \* is_active of the user that is read
    deputies,  \* admin_impersonation_session: ended_at, and whether expires_at is past
    visits     \* [Desks -> the request and the session it is about]

deputyVars == <<target, deputies, visits>>

ImpersonationSession == [ended : BOOLEAN, expired : BOOLEAN]
is_active(row) == ~row.ended /\ ~row.expired
NoVisit == [pc |-> "idle", of |-> 0]
Sessions == DOMAIN deputies

DeputyInit ==
    /\ target = TRUE /\ deputies = <<>>
    /\ visits = [d \in Desks |-> NoVisit]

\* IsAdminAndMFAEnforced, a fresh code, and another user than the admin.
start_session ==
    /\ Len(deputies) < MaxDeputies
    /\ deputies' = Append(deputies, [ended |-> FALSE, expired |-> FALSE])
    /\ UNCHANGED <<target, visits>>

ExpiresAt(i) ==
    /\ ~deputies[i].expired
    /\ deputies' = [deputies EXCEPT ![i].expired = TRUE]
    /\ UNCHANGED <<target, visits>>

\* The admin disables or enables the user.
TargetSwitched == target' = ~target /\ UNCHANGED <<deputies, visits>>

Visit(d, pc, i) == visits' = [visits EXCEPT ![d] = [pc |-> pc, of |-> i]]
Leaves(d) == visits' = [visits EXCEPT ![d] = NoVisit]

\* A stop of what has ended answers at once.
StopLooks(d, i) ==
    /\ visits[d].pc = "idle" /\ ~deputies[i].ended
    /\ Visit(d, "stop", i)
    /\ UNCHANGED <<target, deputies>>

stop_session(d) ==
    /\ visits[d].pc = "stop"
    /\ deputies' = [deputies EXCEPT ![visits[d].of].ended = TRUE]
    /\ Leaves(d)
    /\ UNCHANGED target

\* The user must be active, then the row of the session; only safe methods pass.
authenticate(d, i) ==
    /\ visits[d].pc = "idle" /\ target /\ is_active(deputies[i])
    /\ Visit(d, "read", i)
    /\ UNCHANGED <<target, deputies>>

\* The row of the trail is written, the admin's own routes refuse the token, any
\* other view answers; whatever becomes of the session meanwhile.
has_permission(d) ==
    /\ visits[d].pc = "read"
    /\ Leaves(d)
    /\ UNCHANGED <<target, deputies>>

DeputyNext ==
    \/ start_session \/ TargetSwitched
    \/ \E i \in Sessions : ExpiresAt(i)
    \/ \E d \in Desks, i \in Sessions : StopLooks(d, i) \/ authenticate(d, i)
    \/ \E d \in Desks : stop_session(d) \/ has_permission(d)

-----------------------------------------------------------------------------
DeputyTypeOK ==
    /\ target \in BOOLEAN /\ deputies \in Seq(ImpersonationSession)
    /\ visits \in [Desks -> [pc : {"idle", "stop", "read"}, of : Nat]]

\* An impersonation that was stopped or ran out lets no further request in, and no
\* second stop that read the row earlier, and no user disabled and enabled again,
\* opens it: the row is what counts at each request, not the token.
StoppedForGood ==
    [][\A i \in Sessions : ~is_active(deputies[i]) =>
         /\ ~is_active(deputies'[i])
         /\ \A d \in Desks : visits[d].pc = "idle" => visits'[d].pc # "read" \/ visits'[d].of # i]_deputyVars
=============================================================================
