----------------------------- MODULE AgentSessions -----------------------------
(***************************************************************************)
(* The agent's demo sessions (SessionStore, src/apps/agent/src/sessions.ts) *)
(* and the requests that hold one across awaits (runDemo in                *)
(* src/apps/agent/src/server.ts).  Every SessionStore method is            *)
(* synchronous, so it is one action; between its calls a request may lose  *)
(* its session to expiry or eviction and goes on with the object it has.   *)
(*                                                                         *)
(* Permits are not shared between sessions: the fingerprint the authority  *)
(* records for an invocation tells whose request it was.                   *)
(***************************************************************************)
EXTENDS Naturals, SequencesExt

CONSTANTS
    Session,        \* session keys; the holder of the token behind one
    Invocation,     \* invocation ids
    Demo,           \* POST /demo requests in flight
    Nobody,         \* no session
    Retired,        \* RETIRED
    MaxSessions,    \* maxSessions
    MaxInvocations, \* maxInvocationsPerSession
    MaxOwned        \* maxOwnedInvocations

ASSUME SessionsAssumption ==
    /\ Nobody \notin Session \cup {Retired} /\ Retired \notin Session
    /\ Nobody \notin Invocation
    /\ {MaxSessions, MaxInvocations, MaxOwned} \subseteq Nat \ {0}

VARIABLES
    issued,         \* the keys whose token was handed out
    sessions,       \* #sessions: the live keys, oldest first
    expired,        \* how many of them, the oldest, are past expiresAt
    owners,         \* #owners: <<invocation, key or Retired>>, oldest first
    installed,      \* sessions with a permit installed
    invocations,    \* session.invocations
    decided,        \* session.decided
    demo,           \* demo[d]: where a request is
    recorded        \* external: whose fingerprint the authority recorded

sessionVars == <<sessions, issued, expired, owners, installed, invocations, decided, demo, recorded>>

-----------------------------------------------------------------------------
IdleDemo == [pc |-> "idle", session |-> Nobody, invocation |-> Nobody]

SessionsTypeOK ==
    /\ sessions \in Seq(Session)
    /\ issued \subseteq Session
    /\ expired \in 0..Len(sessions)
    /\ owners \in Seq(Invocation \X (Session \cup {Retired}))
    /\ installed \subseteq Session
    /\ invocations \in [Session -> SUBSET Invocation]
    /\ decided \in [Session -> SUBSET Invocation]
    /\ demo \in [Demo -> [pc : {"idle", "body", "claimed"}, session : Session \cup {Nobody},
                          invocation : Invocation \cup {Nobody}]]
    /\ recorded \in [Invocation -> Session \cup {Nobody}]

SessionsInit ==
    /\ sessions = <<>>
    /\ issued = {}
    /\ expired = 0
    /\ owners = <<>>
    /\ installed = {}
    /\ invocations = [s \in Session |-> {}]
    /\ decided = [s \in Session |-> {}]
    /\ demo = [d \in Demo |-> IdleDemo]
    /\ recorded = [i \in Invocation |-> Nobody]

\* #owners.get
OwnerOf(i) == LET found == {o \in ToSet(owners) : o[1] = i}
              IN IF found = {} THEN Nobody ELSE (CHOOSE o \in found : TRUE)[2]

\* The last n entries of a Map.
Newest(o, n) == SubSeq(o, IF Len(o) > n THEN Len(o) - n + 1 ELSE 1, Len(o))

\* The sessions that authenticate: past expiresAt is a session that #prune
\* evicts before anything reads the Map.
Unexpired == SubSeq(sessions, expired + 1, Len(sessions))

\* Slips: an ended session's invocations are released, or owned by nobody.
Release(S) == owners' = SelectSeq(owners, LAMBDA o : o[2] \notin S)
RetireAsNobody(S) ==
    owners' = [k \in DOMAIN owners |-> IF owners[k][2] \in S THEN <<owners[k][1], Nobody>>
                                        ELSE owners[k]]

\* #evict, for the keys in S: their invocations are retired, never released.
Retire(S) ==
    owners' = [k \in DOMAIN owners |->
                 LET key == owners[k][2]
                 IN IF key \in S /\ owners[k][1] \in invocations[key]
                    THEN <<owners[k][1], Retired>>
                    ELSE owners[k]]

\* Only these keys stay; the others are evicted.
Keep(kept) == Retire(ToSet(sessions) \ ToSet(kept)) /\ expired' = 0

\* #prune
Prune == sessions' = Unexpired /\ Keep(Unexpired)

-----------------------------------------------------------------------------
\* All sessions live equally long, so they expire in the order of creation;
\* the next prune notices.
Expire ==
    /\ expired < Len(sessions)
    /\ expired' = expired + 1
    /\ UNCHANGED <<sessions, issued, owners, installed, invocations, decided, demo, recorded>>

\* POST /session: prune, evict the oldest while the store is full, add.
Create(s) ==
    LET kept == Newest(Unexpired, MaxSessions - 1)
    IN /\ s \notin issued
       /\ issued' = issued \cup {s}
       /\ sessions' = Append(kept, s)
       /\ Keep(kept)
       /\ UNCHANGED <<installed, invocations, decided, demo, recorded>>

\* POST /permit: authenticate (which prunes), install.
InstallPermit(s) ==
    /\ s \in ToSet(Unexpired)
    /\ Prune
    /\ installed' = installed \cup {s}
    /\ UNCHANGED <<issued, invocations, decided, demo, recorded>>

\* POST /demo: authenticate, then await the body; a token whose session has
\* ended is refused, after the prune.
Authenticate(d, s) ==
    /\ demo[d].pc = "idle"
    /\ s \in issued
    /\ Prune
    /\ demo' = IF s \in ToSet(Unexpired)
               THEN [demo EXCEPT ![d] = [IdleDemo EXCEPT !.pc = "body", !.session = s]]
               ELSE demo
    /\ UNCHANGED <<issued, installed, invocations, decided, recorded>>

\* claimInvocation's answer; the session object may have been evicted.
ClaimResult(s, i) ==
    IF OwnerOf(i) \notin {Nobody, s} THEN "foreign"
    ELSE IF OwnerOf(i) = s THEN "already-own"
    ELSE IF Cardinality(invocations[s]) >= MaxInvocations THEN "limit"
    ELSE "claimed"

\* Slip: one entry too few is kept.
RememberedLess(o) == Newest(o, MaxOwned - 1)

\* The newest MaxOwned entries.
Remembered(o) == Newest(o, MaxOwned)

\* runDemo up to its first await.
Claim(d, i) ==
    LET s == demo[d].session
    IN /\ demo[d].pc = "body"
       /\ \/ /\ \/ s \notin installed
                \/ ClaimResult(s, i) \in {"foreign", "limit"}
             /\ demo' = [demo EXCEPT ![d] = IdleDemo]
             /\ UNCHANGED <<owners, invocations>>
          \/ /\ s \in installed
             /\ ClaimResult(s, i) \in {"claimed", "already-own"}
             /\ demo' = [demo EXCEPT ![d].pc = "claimed", ![d].invocation = i]
             /\ IF ClaimResult(s, i) = "claimed"
                THEN /\ invocations' = [invocations EXCEPT ![s] = @ \cup {i}]
                     /\ owners' = Remembered(Append(owners, <<i, s>>))
                ELSE UNCHANGED <<owners, invocations>>
       /\ UNCHANGED <<sessions, issued, expired, installed, decided, recorded>>

MarkDecided(s, i) ==
    decided' = IF OwnerOf(i) = s THEN [decided EXCEPT ![s] = @ \cup {i}] ELSE decided

\* Slip: a conflict counts as a decision of the session's own request.
DecidedOnConflict(d) ==
    LET s == demo[d].session
        i == demo[d].invocation
    IN /\ demo[d].pc = "claimed"
       /\ recorded' = IF recorded[i] = Nobody THEN [recorded EXCEPT ![i] = s] ELSE recorded
       /\ MarkDecided(s, i)
       /\ demo' = [demo EXCEPT ![d] = IdleDemo]
       /\ UNCHANGED <<sessions, issued, expired, owners, installed, invocations>>

\* The authority decides the request, or reports reconciliation of it: only
\* for a request with the fingerprint it recorded.
Decided(d) ==
    LET s == demo[d].session
        i == demo[d].invocation
    IN /\ demo[d].pc = "claimed"
       /\ recorded[i] \in {Nobody, s}
       /\ recorded' = [recorded EXCEPT ![i] = s]
       /\ MarkDecided(s, i)
       /\ demo' = [demo EXCEPT ![d] = IdleDemo]
       /\ UNCHANGED <<sessions, issued, expired, owners, installed, invocations>>

\* A refusal (a conflict with what is recorded among them) or a failed call;
\* the request may still have been recorded.
Refused(d) ==
    LET s == demo[d].session
        i == demo[d].invocation
    IN /\ demo[d].pc = "claimed"
       /\ \/ UNCHANGED recorded
          \/ recorded[i] = Nobody /\ recorded' = [recorded EXCEPT ![i] = s]
       /\ demo' = [demo EXCEPT ![d] = IdleDemo]
       /\ UNCHANGED <<sessions, issued, expired, owners, installed, invocations, decided>>

SessionsNext ==
    \/ Expire
    \/ \E s \in Session : \/ Create(s)
                          \/ InstallPermit(s)
                          \/ \E d \in Demo : Authenticate(d, s)
    \/ \E d \in Demo : \/ \E i \in Invocation : Claim(d, i)
                       \/ Decided(d)
                       \/ Refused(d)

SessionsSpec == SessionsInit /\ [][SessionsNext]_sessionVars

-----------------------------------------------------------------------------
CanReadEvidence(s, i) == i \in decided[s] /\ OwnerOf(i) = s

\* An invocation id belongs to one session for ever: whatever expired, was
\* evicted, or went on with an evicted session, no other session claims it.
ClaimedOnce ==
    \A s, t \in Session : s # t => invocations[s] \cap invocations[t] = {}

\* A session reads the evidence of its own request only: the authority's one
\* record of the invocation was made, or matched, by that session's request.
EvidenceIsOwn ==
    \A s \in Session, i \in Invocation : CanReadEvidence(s, i) => recorded[i] = s

\* A live session does not lose evidence it could read.
EvidenceStaysReadable ==
    [][\A s \in Session, i \in Invocation :
          CanReadEvidence(s, i) /\ s \in ToSet(sessions') => CanReadEvidence(s, i)']_sessionVars

=============================================================================
