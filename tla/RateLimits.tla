------------------------------ MODULE RateLimits ------------------------------
(***************************************************************************)
(* The quotas of one account and endpoint class                            *)
(* (src/server/data/rate-limit-repository.ts).                             *)
(*                                                                         *)
(* Every decision, grant and revocation holds one advisory lock and takes  *)
(* the time of the database under it, so each is one step.  A decision     *)
(* charges the counters of the window whether it admits or denies; an      *)
(* admitted operation with a key is remembered, and its exact retry is     *)
(* answered free of charge until the memory expires; a retry with another  *)
(* fingerprint or cost is refused, without charge as well.                 *)
(* Abstracted: the actor kind and the capability are part of the actor.    *)
(***************************************************************************)
EXTENDS Naturals, Sequences

CONSTANTS
    Actors, Keys,
    Costs,
    Policies,         \* [actorLimit, accountLimit] of each policy version
    Overrides,        \* the limits an override may grant, and for how long
    WindowLength, ChargeLife,
    MaxInstant,       \* bound
    Scenarios,        \* bounds: how many decisions and grants there are
    None

VARIABLES
    policyVersion,  \* the version the configuration holds
    counter,        \* charges by [subject, version, window]
    charge,         \* the remembered operations by actor and key
    override,       \* the grants as they were made
    instant,
    left,           \* what the scenario still allows
    admitted,       \* history variable: the cost admitted, by subject, version and window
    chargedAt       \* history variable: when an operation was last admitted at a cost

rateVars == <<policyVersion, counter, charge, override, instant, left, admitted, chargedAt>>

Windows  == 0 .. MaxInstant \div WindowLength
Window   == instant \div WindowLength
Account  == None
Subjects == Actors \cup {Account}

RateTypeOK ==
    /\ policyVersion \in DOMAIN Policies
    /\ counter \in [Subjects -> [DOMAIN Policies -> [Windows -> Nat]]]
    /\ \A a \in Actors, k \in Keys : charge[a][k] # None =>
          charge[a][k].expiresAt \in Nat /\ charge[a][k].cost \in Costs
    /\ \A n \in DOMAIN override : override[n].target \in Subjects

RateInit ==
    /\ policyVersion \in DOMAIN Policies
    /\ counter = [s \in Subjects |-> [v \in DOMAIN Policies |-> [w \in Windows |-> 0]]]
    /\ charge = [a \in Actors |-> [k \in Keys |-> None]]
    /\ override = <<>> /\ instant = 0 /\ left \in Scenarios
    /\ admitted = counter /\ chargedAt = charge

-----------------------------------------------------------------------------
(* consumeOnce *)

InForce(n) == override[n].active /\ override[n].expiresAt > instant
InForceFor(s) == {n \in DOMAIN override : InForce(n) /\ override[n].target = s}
Latest(s)  == CHOOSE n \in InForceFor(s) : \A m \in InForceFor(s) : m <= n

\* The override of the actor goes before that of the account.
PolicyFor(a) ==
    CASE InForceFor(a) # {} -> override[Latest(a)].limits
      [] InForceFor(a) = {} /\ InForceFor(Account) # {} -> override[Latest(Account)].limits
      [] OTHER -> Policies[policyVersion]

RememberedInWindow(a, k) ==
    /\ k \in Keys /\ charge[a][k] # None /\ charge[a][k].expiresAt > instant
    /\ Window = (charge[a][k].expiresAt - ChargeLife) \div WindowLength
Remembered(a, k) == k \in Keys /\ charge[a][k] # None /\ charge[a][k].expiresAt > instant

Raised(table, s, c) == [table EXCEPT ![s][policyVersion][Window] = @ + c]
ChargedActor(a, c)  == Raised(counter, a, c)
Charged(a, c)       == Raised(Raised(counter, a, c), Account, c)

Allowed(a, c) ==
    LET used == Charged(a, c)
    IN  /\ used[a][policyVersion][Window] <= PolicyFor(a).actorLimit
        /\ used[Account][policyVersion][Window] <= PolicyFor(a).accountLimit

Decide(a, k, c) ==
    LET fresh == [cost |-> c, expiresAt |-> instant + ChargeLife]
    IN  /\ left.decisions > 0 /\ left' = [left EXCEPT !.decisions = @ - 1]
        /\ IF Remembered(a, k)
           THEN UNCHANGED <<counter, charge, admitted, chargedAt>>
           ELSE /\ counter' = Charged(a, c)
                /\ charge' = IF k \in Keys
                             THEN [charge EXCEPT ![a][k] = IF Allowed(a, c) THEN fresh ELSE None]
                             ELSE charge
                /\ IF Allowed(a, c)
                   THEN /\ admitted' = Raised(Raised(admitted, a, c), Account, c)
                        /\ chargedAt' = IF k \in Keys THEN [chargedAt EXCEPT ![a][k] = instant]
                                        ELSE chargedAt
                   ELSE UNCHANGED <<admitted, chargedAt>>
        /\ UNCHANGED <<policyVersion, override, instant>>

-----------------------------------------------------------------------------
(* grantOverride, revokeOverride, the configuration and the clock *)

Superseded(target) ==
    [n \in DOMAIN override |-> IF override[n].target = target
                               THEN [override[n] EXCEPT !.active = FALSE] ELSE override[n]]
KeptInForce(target) == override
Retired(target) == Superseded(target)

GrantOverride(target, o) ==
    /\ left.grants > 0 /\ left' = [left EXCEPT !.grants = @ - 1]
    /\ override' = Append(Retired(target), [target |-> target, active |-> TRUE,
                              limits |-> o.limits, expiresAt |-> instant + o.life])
    /\ UNCHANGED <<policyVersion, counter, charge, instant, admitted, chargedAt>>

RevokeOverride(n) ==
    /\ override[n].active
    /\ override' = [override EXCEPT ![n].active = FALSE]
    /\ UNCHANGED <<policyVersion, counter, charge, instant, left, admitted, chargedAt>>

\* A new policy version opens counters of its own in the current window.
ChangePolicy(v) ==
    /\ v # policyVersion /\ policyVersion' = v
    /\ UNCHANGED <<counter, charge, override, instant, left, admitted, chargedAt>>

InstantPasses ==
    /\ instant < MaxInstant /\ instant' = instant + 1
    /\ UNCHANGED <<policyVersion, counter, charge, override, left, admitted, chargedAt>>

RateNext ==
    \/ \E a \in Actors, k \in Keys \cup {None}, c \in Costs : Decide(a, k, c)
    \/ \E s \in Subjects, o \in Overrides : GrantOverride(s, o)
    \/ \E n \in DOMAIN override : RevokeOverride(n)
    \/ \E v \in DOMAIN Policies : ChangePolicy(v)
    \/ InstantPasses

RateSpec == RateInit /\ [][RateNext]_rateVars

-----------------------------------------------------------------------------
(* Properties *)

\* What is admitted fits, with all that was admitted before it in the window, the
\* limits of the actor and of the account in force at that moment: through grants,
\* revocations and expiries of overrides, denials and retries in between.
AdmittedWithinLimit ==
    [][\A a \in Actors :
         LET now(s) == admitted'[s][policyVersion][Window]
         IN  now(a) > admitted[a][policyVersion][Window] =>
                /\ now(a) <= PolicyFor(a).actorLimit
                /\ now(Account) <= PolicyFor(a).accountLimit]_rateVars

\* An operation is charged once for as long as it is remembered, also in a later
\* window, under another policy or at another cost.
ChargedOnce ==
    [][\A a \in Actors, k \in Keys :
         chargedAt'[a][k] # chargedAt[a][k] /\ chargedAt[a][k] # None
         => instant >= chargedAt[a][k] + ChargeLife]_rateVars

\* A target has one override at most, so that revoking or outliving it brings the
\* policy back and not an earlier grant.
OneActiveOverride ==
    \A m, n \in DOMAIN override :
        override[m].active /\ override[n].active /\ override[m].target = override[n].target
        => m = n
=============================================================================
