-------------------------- MODULE ImmutableRegistry --------------------------
(***************************************************************************)
(* What the registry promises its publishers, with no mention of           *)
(* transactions, sessions or derived tables: a coordinate (a skill slug    *)
(* with a version) is bound to one artifact digest by one call, the first  *)
(* to succeed, and neither the binding nor the credit for it ever changes. *)
(* The call that bound it may be told so, later or never; no other is.     *)
(***************************************************************************)
CONSTANTS
    Calls,       \* the publish calls that may be made
    Coords,      \* the coordinates <<slug, version>>
    Digests,     \* the artifact digests
    Unbound      \* a coordinate without artifact, a call without credit; in neither set

VARIABLES
    artifact,    \* [Coords -> Digests \cup {Unbound}]
    credit,      \* [Calls -> Coords \cup {Unbound}]: what a call has bound
    told         \* the calls told that they published

rvars == <<artifact, credit, told>>

RInit ==
    /\ artifact = [x \in Coords |-> Unbound]
    /\ credit = [c \in Calls |-> Unbound]
    /\ told = {}

\* Call c binds the free coordinate x to the artifact d and is credited with it.
Bind(c, x, d) ==
    /\ credit[c] = Unbound
    /\ artifact[x] = Unbound
    /\ artifact' = [artifact EXCEPT ![x] = d]
    /\ credit' = [credit EXCEPT ![c] = x]
    /\ UNCHANGED told

\* The caller hears of it, if nothing fails first.
Tell(c) ==
    /\ credit[c] # Unbound
    /\ c \notin told
    /\ told' = told \cup {c}
    /\ UNCHANGED <<artifact, credit>>

RNext ==
    \E c \in Calls : Tell(c) \/ \E x \in Coords, d \in Digests : Bind(c, x, d)

RSpec == RInit /\ [][RNext]_rvars

=============================================================================
